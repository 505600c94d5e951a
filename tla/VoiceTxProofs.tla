--------------------------- MODULE VoiceTxProofs ---------------------------
(***************************************************************************)
(* Proofs about VoiceTx, for all packet lengths and all times: who talks   *)
(* is stopped by a command only, push-to-talk ends, a call begins muted,   *)
(* and the peer is told of silence.                                        *)
(***************************************************************************)
EXTENDS VoiceTx, Integers, TLAPS

-----------------------------------------------------------------------------
(* The inductive invariant.                                                *)

\* Whoever talks has neither a timer running nor the detector listening.
NoTimer == mic.etx = On => mic.ptt = 0 /\ mic.vad = 0

\* Before the first command nothing is on that could begin to transmit.
Muted == ~asked =>
    /\ said # "voice"
    /\ mic.tx = Off /\ mic.etx = Off /\ mic.vad = 0 /\ mic.ptt = 0

\* Whatever is wanted next: after a packet was the last one, the note is due.
NoteDue == call /\ mic.tx = Off /\ ~mic.note /\ ~cut => said # "voice"

TxInv == TxTypeOK /\ NoTimer /\ Muted /\ NoteDue

-----------------------------------------------------------------------------
(* Recording, step by step.                                                *)

LEMMA LongestNeed ==
    /\ Max(Needs) \in Needs /\ Max(Needs) \in Nat
    /\ \A n \in Needs : n \in Nat /\ Frame <= n /\ n <= Max(Needs)
  <1>1. PICK n \in Needs : \A k \in Needs : k <= n
    BY NeedsAssumption
  <1>2. \A k \in Needs : k \in Nat /\ Frame \in Nat /\ k >= Frame
    BY FrameAssumption
  <1>3. n \in Needs /\ \A k \in Needs : n >= k
    BY <1>1, <1>2
  <1>4. Max(Needs) \in Needs /\ \A k \in Needs : Max(Needs) >= k
    BY <1>3 DEF Max
  <1> QED
    BY <1>2, <1>4

\* The commands set the modes as their names say.
LEMMA Commands ==
    ASSUME NEW m \in Mic
    PROVE  /\ SwitchTx(m) \in Mic /\ SwitchTx(m).ptt = 0 /\ SwitchTx(m).vad = 0
           /\ PushPtt(m) \in Mic /\ PushPtt(m).etx = Ptt
           /\ GoVad(m) \in Mic /\ GoVad(m).etx = Off
           /\ OffTx(m) \in Mic /\ OffTx(m).ptt = 0 /\ OffTx(m).vad = 0
           /\ OffTx(m).etx = Off /\ OffTx(m).tx = Off
           /\ \A c \in {SwitchTx(m), PushPtt(m), GoVad(m)} : c.tx = m.tx /\ c.note = m.note
  <1>1. Hold \in 0 .. Press /\ Press \in 0 .. Press /\ 0 \in 0 .. Press
    BY TimesAssumption
  <1> QED
    BY <1>1 DEF Mic, Mode, Off, Vox, Ptt, On, SwitchTx, PushPtt, GoVad, OffTx

\* The timer of the key can only end a mode.
LEMMA ReleaseOnly ==
    ASSUME NEW m \in Mic
    PROVE  /\ Release(m) \in Mic
           /\ Release(m).etx \in {m.etx, Off}
           /\ m.ptt = 0 => Release(m) = m
           /\ Release(m).vad = m.vad /\ Release(m).tx = m.tx /\ Release(m).note = m.note
  <1>1. Press \in Nat /\ m.ptt \in 0 .. Press
    BY TimesAssumption DEF Mic
  <1>2. CASE m.ptt = 0
    BY <1>2 DEF Release
  <1>3. CASE m.ptt = 1
    <2>1. Release(m) = [[m EXCEPT !.ptt = 0] EXCEPT !.etx = Off]
      BY <1>3 DEF Release
    <2>2. [m EXCEPT !.ptt = 0] \in Mic
      BY <1>1 DEF Mic
    <2>3. Off \in Mode
      BY DEF Mode
    <2>4. /\ Release(m) \in Mic /\ Release(m).etx = Off
          /\ Release(m).vad = m.vad /\ Release(m).tx = m.tx /\ Release(m).note = m.note
      BY <2>1, <2>2, <2>3 DEF Mic
    <2>5. m.ptt # 0
      BY <1>3
    <2> QED
      BY <2>4, <2>5
  <1>4. CASE m.ptt > 1
    <2>1. m.ptt - 1 \in 0 .. Press
      BY <1>1, <1>4
    <2> QED
      BY <1>1, <1>4, <2>1 DEF Release, Mic
  <1> QED
    BY <1>1, <1>2, <1>3, <1>4

\* The detector begins a mode only when it is used, and keeps all others.
LEMMA ListenOnly ==
    ASSUME NEW m \in Mic, NEW voice \in BOOLEAN
    PROVE  /\ Listen(m, voice) \in Mic
           /\ m.vad = 0 => Listen(m, voice).etx = m.etx
           /\ Listen(m, voice).vad = m.vad /\ Listen(m, voice).ptt = m.ptt
           /\ Listen(m, voice).tx = m.tx /\ Listen(m, voice).note = m.note
           /\ Listen(m, voice).etx \in {m.etx, Vox} /\ Listen(m, voice).l_in = m.l_in
  <1> DEFINE quiet == IF voice THEN 0 ELSE IF m.quiet < VadTail THEN m.quiet + 1 ELSE VadTail
             heard == [m EXCEPT !.quiet = quiet, !.etx = IF quiet < m.vad THEN Vox ELSE @]
  <1>1. quiet \in 0 .. VadTail
    BY TimesAssumption DEF Mic
  <1>2. Listen(m, voice) \in {m, heard}
    BY DEF Listen
  <1> HIDE DEF quiet
  <1>3. heard \in Mic
    BY <1>1 DEF Mic, Mode, Vox
  <1>4. m.vad = 0 => ~(quiet < m.vad)
    BY <1>1, TimesAssumption
  <1>5. /\ m.vad = 0 => heard.etx = m.etx
        /\ heard.vad = m.vad /\ heard.ptt = m.ptt /\ heard.tx = m.tx /\ heard.note = m.note
        /\ heard.etx \in {m.etx, Vox} /\ heard.l_in = m.l_in
    BY <1>4 DEF Mic
  <1> HIDE DEF heard
  <1> QED
    BY <1>2, <1>3, <1>5

\* Beginning follows the wanted mode.
LEMMA BeginOnly ==
    ASSUME NEW m \in Mic
    PROVE  /\ Begin(m) \in Mic
           /\ Begin(m).etx = m.etx /\ Begin(m).vad = m.vad /\ Begin(m).ptt = m.ptt
           /\ Begin(m).note = m.note
           /\ Begin(m).tx = Off => m.tx = Off
           /\ m.etx = Off => Begin(m) = m
  <1>1. 0 \in 0 .. Max(Needs)
    BY LongestNeed
  <1> QED
    BY <1>1 DEF Begin, Mic, Off

\* What a frame finds when it is its turn to be recorded.
Found(voice) == Begin(Listen(Release(mic), voice))

LEMMA FoundOnly ==
    ASSUME TxInv, NEW voice \in BOOLEAN
    PROVE  /\ Found(voice) \in Mic
           /\ mic.etx = On => Found(voice).etx = On
           /\ Found(voice).etx = On => Found(voice).ptt = 0 /\ Found(voice).vad = 0
           /\ ~asked => Found(voice) = Listen(mic, voice) /\ Found(voice).tx = Off
                        /\ Found(voice).etx = Off /\ Found(voice).vad = 0 /\ Found(voice).ptt = 0
           /\ Found(voice).tx = Off => mic.tx = Off
           /\ Found(voice).note = mic.note
  <1> DEFINE r == Release(mic)
             l == Listen(r, voice)
             b == Begin(l)
  <1>1. mic \in Mic
    BY DEF TxInv, TxTypeOK
  <1>2. /\ r \in Mic /\ r.etx \in {mic.etx, Off} /\ (mic.ptt = 0 => r = mic)
        /\ r.vad = mic.vad /\ r.tx = mic.tx /\ r.note = mic.note
    BY <1>1, ReleaseOnly
  <1> HIDE DEF r
  <1>3. /\ l \in Mic /\ (r.vad = 0 => l.etx = r.etx)
        /\ l.vad = r.vad /\ l.ptt = r.ptt /\ l.tx = r.tx /\ l.note = r.note
    BY <1>2, ListenOnly
  <1>4. l.etx \in {r.etx, Vox}
    BY <1>2 DEF l, Listen, Mic
  <1> HIDE DEF l
  <1>5. /\ b \in Mic /\ b.etx = l.etx /\ b.vad = l.vad /\ b.ptt = l.ptt /\ b.note = l.note
        /\ (b.tx = Off => l.tx = Off) /\ (l.etx = Off => b = l)
    BY <1>3, BeginOnly
  <1>6. Found(voice) = b
    BY DEF Found, b, l, r
  <1> HIDE DEF b
  <1>7. mic.etx = On => b.etx = On /\ b.ptt = 0 /\ b.vad = 0
    BY <1>2, <1>3, <1>5 DEF TxInv, NoTimer
  <1>8. b.etx = On => mic.etx = On
    BY <1>2, <1>4, <1>5 DEF On, Off, Vox
  <1>9. ~asked => b = Listen(mic, voice) /\ b.tx = Off /\ b.etx = Off /\ b.vad = 0 /\ b.ptt = 0
    BY <1>2, <1>3, <1>5 DEF TxInv, Muted, l
  <1> QED
    BY <1>2, <1>3, <1>5, <1>6, <1>7, <1>8, <1>9

\* A complete packet leaves a note due when it is the last one.
LEMMA PacketOnly ==
    ASSUME NEW m \in Mic, m.l_in + Frame >= m.need
    PROVE  /\ VoicePacket(m) \in Mic
           /\ VoicePacket(m).ptt = m.ptt /\ VoicePacket(m).vad = m.vad
           /\ (VoicePacket(m).etx = On) <=> (m.etx = On)
           /\ VoicePacket(m).tx = Off => VoicePacket(m).note \/ m.tx = Off
  <1>1. /\ Frame \in Nat /\ Max(Needs) \in Nat /\ m.need \in Nat /\ Frame <= m.need
        /\ m.l_in \in 0 .. Max(Needs)
    BY FrameAssumption, LongestNeed DEF Mic
  <1>2. m.l_in + Frame - m.need \in 0 .. Max(Needs)
    BY <1>1
  <1>3. /\ (IF m.etx = Off THEN Off ELSE m.tx) \in Mode
        /\ (IF m.etx = Vox THEN Off ELSE m.etx) \in Mode
        /\ (m.note \/ m.etx = Off) \in BOOLEAN
    BY DEF Mic, Mode, Off
  <1>4. VoicePacket(m) \in Mic
    BY <1>2, <1>3 DEF VoicePacket, Mic
  <1>5. /\ VoicePacket(m).ptt = m.ptt /\ VoicePacket(m).vad = m.vad
        /\ (VoicePacket(m).etx = On) <=> (m.etx = On)
    BY DEF VoicePacket, Mic, On, Off, Vox
  <1>6. VoicePacket(m).tx = Off => VoicePacket(m).note \/ m.tx = Off
    BY DEF VoicePacket, Mic
  <1> QED
    BY <1>4, <1>5, <1>6

-----------------------------------------------------------------------------
(* Every step.                                                             *)

LEMMA InitInvariant == TxInit => TxInv
  <1> SUFFICES ASSUME TxInit PROVE TxInv
    OBVIOUS
  <1>1. PICK n \in Needs :
          mic = [tx |-> Off, etx |-> Off, vad |-> 0, ptt |-> 0, l_in |-> 0, need |-> n,
                 note |-> FALSE, quiet |-> 0]
    BY DEF TxInit
  <1>2. 0 \in 0 .. Max(Needs) /\ 0 \in 0 .. Press /\ 0 \in 0 .. VadTail
    BY LongestNeed, TimesAssumption
  <1>3. mic \in Mic
    BY <1>1, <1>2 DEF Mic, Mode
  <1>4. MaxAge \in 0 .. MaxAge
    BY LongestNeed, FrameAssumption, TimesAssumption DEF MaxAge, LongestPacket
  <1> QED
    BY <1>1, <1>3, <1>4 DEF TxInit, TxInv, TxTypeOK, NoTimer, Muted, NoteDue, Off, On
\* The commands of the user.
LEMMA CommandInvariant == TxInv /\ Command => TxInv'
  <1> SUFFICES ASSUME TxInv, Command PROVE TxInv'
    OBVIOUS
  <1>1. mic \in Mic /\ OffTx(mic) \in Mic /\ PushPtt(mic) \in Mic /\ asked' = TRUE
    BY Commands DEF TxInv, TxTypeOK, Command
  <1>2. call' = call /\ said' = said
    BY DEF Command
  <1>3. 0 \in 0 .. MaxAge /\ MaxAge \in Nat
    BY LongestNeed, FrameAssumption, TimesAssumption DEF MaxAge, LongestPacket
  <1>4. CASE /\ mic' \in {SwitchTx(mic), GoVad(mic), SwitchTx(PushPtt(mic))}
             /\ UNCHANGED <<age, cut>>
    <2>1. /\ mic' \in Mic /\ mic'.tx = mic.tx /\ mic'.note = mic.note
          /\ (mic'.ptt = 0 /\ mic'.vad = 0) \/ mic'.etx = Off
      BY <1>1, <1>4, Commands
    <2> QED
      BY <1>1, <1>2, <1>4, <2>1 DEF TxInv, TxTypeOK, NoTimer, Muted, NoteDue, On, Off
  <1>5. CASE mic' = PushPtt(mic) /\ age' = 0 /\ UNCHANGED cut
    <2>1. mic' \in Mic /\ mic'.tx = mic.tx /\ mic'.note = mic.note /\ mic'.etx = Ptt
      BY <1>1, <1>5, Commands
    <2> QED
      BY <1>1, <1>2, <1>3, <1>5, <2>1 DEF TxInv, TxTypeOK, NoTimer, Muted, NoteDue, On, Ptt
  <1>6. CASE mic' = SwitchTx(OffTx(mic)) /\ cut' = (cut \/ mic.tx # Off) /\ UNCHANGED age
    <2>1. mic' \in Mic /\ mic'.ptt = 0 /\ mic'.vad = 0 /\ mic'.note = mic.note
      <3>1. OffTx(mic).note = mic.note
        BY <1>1 DEF OffTx, Mic
      <3> QED
        BY <1>1, <1>6, <3>1, Commands
    <2>2. cut' \in BOOLEAN /\ (~cut' => ~cut /\ mic.tx = Off)
      BY <1>6 DEF TxInv, TxTypeOK
    <2> QED
      BY <1>1, <1>2, <1>6, <2>1, <2>2 DEF TxInv, TxTypeOK, NoTimer, Muted, NoteDue
  <1> QED
    BY <1>4, <1>5, <1>6 DEF Command

\* A frame of sound.
LEMMA FrameInvariant ==
    ASSUME TxInv, NEW voice \in BOOLEAN, DoSnd(voice)
    PROVE  TxInv' /\ (mic.etx = On => mic'.etx = On)
  <1> DEFINE m == Found(voice)
  <1>1. /\ m \in Mic
        /\ (mic.etx = On => m.etx = On)
        /\ (m.etx = On => m.ptt = 0 /\ m.vad = 0)
        /\ (~asked => m.tx = Off /\ m.etx = Off /\ m.vad = 0 /\ m.ptt = 0)
        /\ (m.tx = Off => mic.tx = Off)
        /\ m.note = mic.note
    BY FoundOnly
  <1>2. /\ call /\ call' = call /\ asked' = asked /\ age' \in 0 .. MaxAge
    <2>1. MaxAge \in Nat
      BY LongestNeed, FrameAssumption, TimesAssumption DEF MaxAge, LongestPacket
    <2> QED
      BY <2>1 DEF DoSnd, TxInv, TxTypeOK
  <1>3. \/ /\ m.tx = Off /\ mic' = [[m EXCEPT !.l_in = 0] EXCEPT !.note = FALSE]
           /\ said' = (IF m.note THEN "note" ELSE said) /\ cut' = cut
        \/ /\ m.tx # Off /\ m.l_in + Frame < m.need
           /\ mic' = [m EXCEPT !.l_in = @ + Frame] /\ said' = said /\ cut' = cut
        \/ /\ m.tx # Off /\ m.l_in + Frame >= m.need
           /\ mic' = VoicePacket(m) /\ said' = "voice" /\ cut' = FALSE
    BY DEF DoSnd, Found
  <1> HIDE DEF m
  <1>4. CASE /\ m.tx = Off /\ mic' = [[m EXCEPT !.l_in = 0] EXCEPT !.note = FALSE]
             /\ said' = (IF m.note THEN "note" ELSE said) /\ cut' = cut
    <2>1. [m EXCEPT !.l_in = 0] \in Mic
      BY <1>1, LongestNeed DEF Mic
    <2>2. /\ mic' \in Mic /\ mic'.tx = m.tx /\ mic'.etx = m.etx
          /\ mic'.vad = m.vad /\ mic'.ptt = m.ptt
      BY <1>1, <1>4, <2>1 DEF Mic
    <2>3. said' # "voice" \/ (said' = said /\ ~mic.note)
      BY <1>1, <1>4
    <2>4. said' \in {said, "note"}
      BY <1>4
    <2>5. TxTypeOK'
      BY <1>2, <1>4, <2>2, <2>4 DEF TxInv, TxTypeOK
    <2> QED
      BY <1>1, <1>2, <1>4, <2>2, <2>3, <2>4, <2>5 DEF TxInv, NoTimer, Muted, NoteDue
  <1>5. CASE /\ m.tx # Off /\ m.l_in + Frame < m.need
             /\ mic' = [m EXCEPT !.l_in = @ + Frame] /\ said' = said /\ cut' = cut
    <2>1. m.l_in + Frame \in 0 .. Max(Needs)
      BY <1>1, <1>5, LongestNeed, FrameAssumption DEF Mic
    <2>2. /\ mic' \in Mic /\ mic'.tx = m.tx /\ mic'.etx = m.etx
          /\ mic'.vad = m.vad /\ mic'.ptt = m.ptt
      BY <1>1, <1>5, <2>1 DEF Mic
    <2> QED
      BY <1>1, <1>2, <1>5, <2>2 DEF TxInv, TxTypeOK, NoTimer, Muted, NoteDue
  <1>6. CASE /\ m.tx # Off /\ m.l_in + Frame >= m.need
             /\ mic' = VoicePacket(m) /\ said' = "voice" /\ cut' = FALSE
    <2>1. /\ mic' \in Mic /\ mic'.ptt = m.ptt /\ mic'.vad = m.vad
          /\ (mic'.etx = On <=> m.etx = On)
          /\ (mic'.tx = Off => mic'.note)
      BY <1>1, <1>6, PacketOnly
    <2> QED
      BY <1>1, <1>2, <1>6, <2>1 DEF TxInv, TxTypeOK, NoTimer, Muted, NoteDue
  <1> QED
    BY <1>3, <1>4, <1>5, <1>6
\* Everything else.
LEMMA OtherInvariant ==
    ASSUME TxInv,
           SetEncoder \/ CallByUser \/ AutoAnswer \/ HangUp \/ Idle \/ UNCHANGED txVars
    PROVE  TxInv'
  <1>1. mic \in Mic
    BY DEF TxInv, TxTypeOK
  <1>2. CASE SetEncoder
    <2>1. PICK n \in Needs : mic' = [mic EXCEPT !.need = n]
      BY <1>2 DEF SetEncoder
    <2>2. /\ mic' \in Mic /\ mic'.tx = mic.tx /\ mic'.etx = mic.etx /\ mic'.vad = mic.vad
          /\ mic'.ptt = mic.ptt /\ mic'.note = mic.note
      BY <1>1, <2>1 DEF Mic
    <2> QED
      BY <1>2, <2>2 DEF SetEncoder, TxInv, TxTypeOK, NoTimer, Muted, NoteDue
  <1>3. CASE CallByUser
    <2>1. /\ mic' \in Mic /\ mic'.tx = Off /\ mic'.etx = Off /\ mic'.vad = 0 /\ mic'.ptt = 0
      BY <1>1, <1>3, Commands DEF CallByUser
    <2> QED
      BY <1>3, <2>1 DEF CallByUser, TxInv, TxTypeOK, NoTimer, Muted, NoteDue
  <1>4. CASE AutoAnswer
    BY <1>4 DEF AutoAnswer, TxInv, TxTypeOK, NoTimer, Muted, NoteDue
  <1>5. CASE HangUp
    BY <1>5 DEF HangUp, TxInv, TxTypeOK, NoTimer, Muted, NoteDue
  <1>6. CASE Idle
    <2>1. /\ mic' \in Mic /\ mic'.etx \in {mic.etx, Off} /\ (mic.ptt = 0 => mic' = mic)
          /\ mic'.vad = mic.vad /\ mic'.tx = mic.tx
      BY <1>1, <1>6, ReleaseOnly DEF Idle
    <2> QED
      BY <1>6, <2>1 DEF Idle, TxInv, TxTypeOK, NoTimer, Muted, NoteDue, On, Off
  <1>7. CASE UNCHANGED txVars
    BY <1>7 DEF txVars, TxInv, TxTypeOK, NoTimer, Muted, NoteDue
  <1> QED
    BY <1>2, <1>3, <1>4, <1>5, <1>6, <1>7

LEMMA StepInvariant == TxInv /\ [TxNext]_txVars => TxInv'
  BY CommandInvariant, FrameInvariant, OtherInvariant DEF TxNext

LEMMA AlwaysTxInv == TxSpec => []TxInv
  BY InitInvariant, StepInvariant, PTL DEF TxSpec

-----------------------------------------------------------------------------
\* The modes, the timers and what is recorded stay within their bounds: in_buf never
\* holds more than the longest packet needs, whenever the encoder is changed.
THEOREM TxTypeCorrect == TxSpec => []TxTypeOK
  <1>1. TxInv => TxTypeOK
    BY DEF TxInv
  <1> QED
    BY <1>1, AlwaysTxInv, PTL

\* Neither do_snd() nor playjit() ends continuous transmission, whatever the user did
\* before: no timer of the key is running, and the detector is off.
THEOREM OnlyUserMutesHolds == TxSpec => OnlyUserMutes
  <1>1. TxInv /\ [TxNext]_txVars =>
          [Idle \/ (\E voice \in BOOLEAN : DoSnd(voice)) => (mic.etx = On => mic'.etx = On)]_txVars
    <2> SUFFICES ASSUME TxInv, Idle \/ (\E voice \in BOOLEAN : DoSnd(voice))
                 PROVE  mic.etx = On => mic'.etx = On
      OBVIOUS
    <2>1. CASE Idle
      <3>1. mic \in Mic
        BY DEF TxInv, TxTypeOK
      <3> QED
        BY <2>1, <3>1, ReleaseOnly DEF Idle, TxInv, NoTimer
    <2>2. CASE \E voice \in BOOLEAN : DoSnd(voice)
      BY <2>2, FrameInvariant
    <2> QED
      BY <2>1, <2>2
  <1> QED
    BY <1>1, AlwaysTxInv, PTL DEF TxSpec, OnlyUserMutes

\* After off_tx() at the beginning of a call nothing is sent before a command.
THEOREM StartsMutedHolds == TxSpec => []StartsMuted
  <1>1. TxInv => StartsMuted
    BY DEF TxInv, Muted, StartsMuted
  <1> QED
    BY <1>1, AlwaysTxInv, PTL

\* However push-to-talk, detector and commands alternate, tx_note is set with the last
\* packet, and kept until the note is sent.
THEOREM SilenceToldHolds == TxSpec => []SilenceTold
  <1>1. TxInv => SilenceTold
    BY DEF TxInv, NoteDue, SilenceTold
  <1> QED
    BY <1>1, AlwaysTxInv, PTL

-----------------------------------------------------------------------------
(* Push-to-talk ends.                                                      *)

\* The commands and the key.
LEMMA CommandTimes ==
    ASSUME NEW m \in Mic
    PROVE  /\ SwitchTx(m).etx # Ptt /\ SwitchTx(m).l_in = m.l_in
           /\ PushPtt(m).ptt \in 1 .. Press /\ PushPtt(m).l_in = m.l_in
           /\ GoVad(m).ptt = m.ptt /\ GoVad(m).l_in = m.l_in
  <1>1. Hold \in 1 .. Press /\ Press \in 1 .. Press
    BY TimesAssumption
  <1> QED
    BY <1>1 DEF Mic, SwitchTx, PushPtt, GoVad, Off, On, Ptt

\* The timer runs by one, and ends push-to-talk with its last.
LEMMA ReleaseTimes ==
    ASSUME NEW m \in Mic
    PROVE  /\ m.ptt > 0 => Release(m).ptt = m.ptt - 1
           /\ m.ptt = 0 => Release(m).ptt = 0
           /\ m.etx = Ptt /\ m.ptt > 0 => Release(m).etx # Ptt \/ Release(m).ptt > 0
           /\ m.etx # Ptt => Release(m).etx # Ptt
           /\ Release(m).tx = m.tx /\ Release(m).l_in = m.l_in
  <1>1. m.ptt \in Nat
    BY TimesAssumption DEF Mic
  <1>2. CASE m.ptt = 1
    <2>1. Release(m) = [[m EXCEPT !.ptt = 0] EXCEPT !.etx = Off]
      BY <1>2 DEF Release
    <2>2. /\ Release(m).ptt = 0 /\ Release(m).etx = Off
          /\ Release(m).tx = m.tx /\ Release(m).l_in = m.l_in
      BY <2>1 DEF Mic
    <2> QED
      BY <1>2, <2>2 DEF Off, Ptt
  <1>3. CASE m.ptt = 0
    BY <1>3 DEF Release
  <1>4. CASE m.ptt > 1
    BY <1>1, <1>4 DEF Release, Mic
  <1> QED
    BY <1>1, <1>2, <1>3, <1>4

\* A frame finds push-to-talk only when it is wanted or was on, and goes on with its packet.
LEMMA FoundTimes ==
    ASSUME TxInv, PttTimed, NEW voice \in BOOLEAN
    PROVE  /\ Found(voice).ptt > 0 => mic.ptt = Found(voice).ptt + 1
           /\ Found(voice).etx = Ptt => Found(voice).ptt > 0
           /\ Found(voice).tx = Ptt /\ Found(voice).ptt = 0 =>
                /\ Found(voice).etx = Off
                /\ mic.tx = Ptt /\ Found(voice).l_in = mic.l_in
  <1> DEFINE r == Release(mic)
             l == Listen(r, voice)
             b == Begin(l)
  <1>1. mic \in Mic /\ mic.ptt \in Nat
    BY TimesAssumption DEF TxInv, TxTypeOK, Mic
  <1>2. /\ r \in Mic /\ r.tx = mic.tx /\ r.l_in = mic.l_in /\ r.ptt \in Nat
        /\ (r.ptt > 0 => mic.ptt = r.ptt + 1) /\ (r.etx = Ptt => r.ptt > 0)
    <2>1. r \in Mic /\ r.ptt \in Nat
      BY <1>1, ReleaseOnly, TimesAssumption DEF Mic
    <2> QED
      BY <1>1, <2>1, ReleaseTimes DEF PttTimed
  <1> HIDE DEF r
  <1>3. /\ l \in Mic /\ l.ptt = r.ptt /\ l.tx = r.tx
        /\ l.etx \in {r.etx, Vox} /\ l.l_in = r.l_in
    BY <1>2, ListenOnly
  <1> HIDE DEF l
  <1>4. /\ b.etx = l.etx /\ b.ptt = l.ptt
        /\ (b.tx = Ptt => l.etx = Ptt \/ (l.etx = Off /\ b = l))
    <2>1. CASE l.etx # Off /\ l.tx # l.etx
      <3>1. b.tx = l.etx
        BY <1>3, <2>1, LongestNeed DEF Begin, Mic
      <3> QED
        BY <1>3, <2>1, <3>1, BeginOnly
    <2>2. CASE ~(l.etx # Off /\ l.tx # l.etx)
      <3>1. b = l
        BY <2>2 DEF Begin
      <3> QED
        BY <2>2, <3>1
    <2> QED
      BY <2>1, <2>2
  <1>5. Found(voice) = b
    BY DEF Found, b, l, r
  <1> HIDE DEF b
  <1>6. b.etx = Ptt => b.ptt > 0
    BY <1>2, <1>3, <1>4 DEF Ptt, Vox
  <1>7. b.ptt > 0 => mic.ptt = b.ptt + 1
    BY <1>2, <1>3, <1>4
  <1>8. b.tx = Ptt /\ b.ptt = 0 => b.etx = Off /\ mic.tx = Ptt /\ b.l_in = mic.l_in
    BY <1>2, <1>3, <1>4, <1>6
  <1> QED
    BY <1>5, <1>6, <1>7, <1>8

\* One frame more.
LEMMA Product ==
    ASSUME NEW n \in Nat, NEW f \in Nat \ {0}
    PROVE  n * f \in Nat /\ n * f >= n /\ (n + 1) * f = n * f + f
  OBVIOUS

LEMMA FrameTimes ==
    ASSUME TxInv, PttTimed, NEW voice \in BOOLEAN, DoSnd(voice)
    PROVE  PttTimed'
  <1> DEFINE m == Found(voice)
  <1>1. /\ m.ptt > 0 => mic.ptt = m.ptt + 1
        /\ m.etx = Ptt => m.ptt > 0
        /\ m.tx = Ptt /\ m.ptt = 0 => m.etx = Off /\ mic.tx = Ptt /\ m.l_in = mic.l_in
    BY FoundTimes
  <1>2. /\ m \in Mic /\ mic \in Mic /\ m.ptt \in Nat /\ mic.ptt \in Nat
        /\ m.l_in \in Nat /\ mic.l_in \in Nat /\ age \in Nat /\ Press \in Nat
        /\ Frame \in Nat \ {0}
    BY FoundOnly, LongestNeed, FrameAssumption, TimesAssumption DEF TxInv, TxTypeOK, Mic
  <1>3. age' \in Nat /\ age' <= age + 1
    BY <1>2 DEF DoSnd
  <1>4. \/ m.tx = Off /\ mic' = [[m EXCEPT !.l_in = 0] EXCEPT !.note = FALSE]
        \/ m.tx # Off /\ mic' = [m EXCEPT !.l_in = @ + Frame]
        \/ m.tx # Off /\ mic' = VoicePacket(m)
    BY DEF DoSnd, Found
  <1> HIDE DEF m
  <1>5. /\ mic'.ptt = m.ptt /\ (mic'.etx = Ptt => m.etx = Ptt)
        /\ mic'.tx = Ptt => m.tx = Ptt /\ (m.etx = Off => mic'.l_in = m.l_in + Frame)
    <2>1. CASE m.tx = Off /\ mic' = [[m EXCEPT !.l_in = 0] EXCEPT !.note = FALSE]
      BY <1>2, <2>1 DEF Mic, Off, Ptt
    <2>2. CASE m.tx # Off /\ mic' = [m EXCEPT !.l_in = @ + Frame]
      BY <1>2, <2>2 DEF Mic
    <2>3. CASE m.tx # Off /\ mic' = VoicePacket(m)
      BY <1>2, <2>3 DEF Mic, VoicePacket, Off, Ptt
    <2> QED
      BY <1>4, <2>1, <2>2, <2>3
  <1>6. mic'.ptt > 0 => age' + mic'.ptt <= Press
    BY <1>1, <1>2, <1>3, <1>5 DEF PttTimed
  <1>7. mic'.etx = Ptt => mic'.ptt > 0
    BY <1>1, <1>5
  <1>8. ASSUME mic'.tx = Ptt, age' > Press
        PROVE  (age' - Press) * Frame <= mic'.l_in
    <2>0. age \in Nat /\ age' \in Nat /\ Press \in Nat /\ age' <= age + 1 /\ age' > Press
      BY <1>2, <1>3, <1>8
    <2>1. m.ptt = 0
      BY <1>2, <1>3, <1>5, <1>6, <1>8
    <2>2. mic.tx = Ptt /\ mic'.l_in = mic.l_in + Frame
      BY <1>1, <1>5, <1>8, <2>1
    <2>3. PICK n \in Nat : age' = Press + n
      BY <2>0
    <2>4. CASE age = age' /\ age > Press
      BY <1>2, <2>0, <2>2, <2>4 DEF PttTimed
    <2>5. CASE age + 1 = age' /\ age > Press
      <3>1. PICK k \in Nat : k = age - Press
        BY <1>2, <2>5
      <3>2. k * Frame <= mic.l_in /\ n = k + 1
        BY <2>0, <2>2, <2>3, <2>5, <3>1 DEF PttTimed
      <3>3. n * Frame <= mic.l_in + Frame
        BY <1>2, <3>1, <3>2, Product
      <3> QED
        BY <2>0, <2>2, <2>3, <3>3
    <2>6. CASE ~(age > Press)
      <3>1. n = 1
        BY <2>0, <2>3, <2>6
      <3> QED
        BY <1>2, <2>0, <2>2, <2>3, <3>1
    <2> QED
      BY <1>2, <2>4, <2>5, <2>6 DEF DoSnd
  <1> QED
    BY <1>6, <1>7, <1>8 DEF PttTimed

LEMMA TimesStep == TxInv /\ PttTimed /\ [TxNext]_txVars => PttTimed'
  <1> SUFFICES ASSUME TxInv, PttTimed, [TxNext]_txVars
               PROVE  PttTimed'
    OBVIOUS
  <1>1. /\ mic \in Mic /\ age \in Nat /\ Press \in Nat /\ mic.ptt \in Nat
    BY TimesAssumption, LongestNeed, FrameAssumption
       DEF TxInv, TxTypeOK, Mic
  <1>2. CASE Command
    <2>1. OffTx(mic) \in Mic /\ PushPtt(mic) \in Mic
      BY <1>1, Commands
    <2>2. CASE /\ mic' \in {SwitchTx(mic), GoVad(mic), SwitchTx(PushPtt(mic))}
               /\ UNCHANGED <<age, cut>>
      <3>1. /\ mic'.tx = mic.tx /\ mic'.l_in = mic.l_in
            /\ mic'.etx # Ptt /\ (mic'.ptt = 0 \/ mic'.ptt = mic.ptt)
        <4>1. CASE mic' = SwitchTx(mic)
          BY <1>1, <4>1, Commands, CommandTimes
        <4>2. CASE mic' = GoVad(mic)
          <5>1. Off # Ptt
            BY DEF Off, Ptt
          <5> QED
            BY <1>1, <4>2, <5>1, Commands, CommandTimes
        <4>3. CASE mic' = SwitchTx(PushPtt(mic))
          BY <1>1, <2>1, <4>3, Commands, CommandTimes
        <4> QED
          BY <2>2, <4>1, <4>2, <4>3
      <3> QED
        BY <2>2, <3>1 DEF PttTimed
    <2>3. CASE mic' = PushPtt(mic) /\ age' = 0 /\ UNCHANGED cut
      <3>1. mic'.ptt \in 1 .. Press
        BY <1>1, <2>3, CommandTimes
      <3> QED
        BY <1>1, <2>3, <3>1 DEF PttTimed
    <2>4. CASE mic' = SwitchTx(OffTx(mic)) /\ cut' = (cut \/ mic.tx # Off) /\ UNCHANGED age
      <3>1. mic'.tx = Off /\ mic'.etx # Ptt /\ mic'.ptt = 0
        BY <1>1, <2>1, <2>4, Commands, CommandTimes
      <3> QED
        BY <3>1 DEF PttTimed, Off, Ptt
    <2> QED
      BY <1>2, <2>2, <2>3, <2>4 DEF Command
  <1>3. CASE \E voice \in BOOLEAN : DoSnd(voice)
    BY <1>3, FrameTimes
  <1>4. CASE SetEncoder
    <2>1. /\ mic'.tx = mic.tx /\ mic'.etx = mic.etx /\ mic'.ptt = mic.ptt
          /\ mic'.l_in = mic.l_in /\ age' = age
      BY <1>1, <1>4 DEF SetEncoder, Mic
    <2> QED
      BY <2>1 DEF PttTimed
  <1>5. CASE CallByUser
    <2>1. mic'.tx = Off /\ mic'.etx = Off /\ mic'.ptt = 0
      BY <1>1, <1>5, Commands DEF CallByUser
    <2> QED
      BY <2>1 DEF PttTimed, Off, Ptt
  <1>6. CASE Idle
    <2>1. /\ mic'.tx = mic.tx /\ mic'.l_in = mic.l_in /\ age' = age
          /\ (mic'.etx = Ptt => mic.etx = Ptt /\ mic'.ptt > 0)
          /\ mic'.ptt = IF mic.ptt > 0 THEN mic.ptt - 1 ELSE 0
      BY <1>1, <1>6, ReleaseTimes DEF Idle, PttTimed
    <2> QED
      BY <1>1, <2>1 DEF PttTimed
  <1>7. CASE AutoAnswer \/ HangUp \/ UNCHANGED txVars
    <2>1. mic' = mic /\ age' = age
      BY <1>7 DEF AutoAnswer, HangUp, txVars
    <2> QED
      BY <2>1 DEF PttTimed
  <1> QED
    BY <1>2, <1>3, <1>4, <1>5, <1>6, <1>7 DEF TxNext

\* After the key is released, playjit() and do_snd() let its time and no more than one
\* packet pass, whatever else is commanded: of what is recorded since, no packet was sent.
THEOREM PushEndsHolds == TxSpec => []PushEnds
  <1>1. TxInit => PttTimed
    BY DEF TxInit, PttTimed, Off, Ptt
  <1>2. TxInv /\ PttTimed => PushEnds
    <2> SUFFICES ASSUME TxInv, PttTimed, mic.tx = Ptt
                 PROVE  age <= Press + LongestPacket
      BY DEF PushEnds
    <2>0. age \in Nat /\ Press \in Nat /\ LongestPacket \in Nat
      <3>1. LongestPacket \in Nat
        BY LongestNeed, FrameAssumption DEF LongestPacket
      <3>2. age \in 0 .. MaxAge
        BY DEF TxInv, TxTypeOK
      <3> QED
        BY <3>1, <3>2, TimesAssumption
    <2> SUFFICES ASSUME age > Press
                 PROVE  age <= Press + LongestPacket
      BY <2>0
    <2>1. PICK n \in Nat : age = Press + n
      BY TimesAssumption, LongestNeed, FrameAssumption DEF TxInv, TxTypeOK
    <2>2. n * Frame <= Max(Needs)
      <3>1. mic.l_in <= Max(Needs) /\ mic.l_in \in Nat /\ age - Press = n
        BY <2>1, LongestNeed, TimesAssumption DEF TxInv, TxTypeOK, Mic
      <3> QED
        BY <3>1, <2>1, LongestNeed, FrameAssumption, Product DEF PttTimed
    <2>3. n <= LongestPacket
      <3> DEFINE x == Max(Needs) + Frame - 1
                 q == x \div Frame
      <3>1. /\ Frame \in Nat \ {0} /\ x \in Nat /\ n * Frame + (Frame - 1) <= x
        BY <2>2, LongestNeed, FrameAssumption, Product
      <3> HIDE DEF x
      <3>2. q \in Nat /\ x < (q + 1) * Frame
        BY <3>1
      <3> HIDE DEF q
      <3>3. CASE n >= q + 1
        <4>1. PICK d \in Nat : n = (q + 1) + d
          BY <3>2, <3>3
        <4>2. n * Frame = (q + 1) * Frame + d * Frame /\ d * Frame \in Nat
          BY <3>1, <3>2, <4>1
        <4> QED
          BY <3>1, <3>2, <4>2
      <3> QED
        BY <3>2, <3>3 DEF LongestPacket, q, x
    <2> QED
      BY <2>1, <2>3, TimesAssumption, LongestNeed, FrameAssumption DEF LongestPacket
  <1> QED
    BY <1>1, <1>2, TimesStep, AlwaysTxInv, PTL DEF TxSpec
=============================================================================

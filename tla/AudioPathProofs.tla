-------------------------- MODULE AudioPathProofs --------------------------
(***************************************************************************)
(* Proofs about AudioPath, for every frame size, payload size and limit:   *)
(* whatever frames come in, whatever is interrupted, and however the       *)
(* outbound frames divide into payloads.                                   *)
(***************************************************************************)
EXTENDS AudioPath, SequenceTheorems, TLAPS

-----------------------------------------------------------------------------
(* The ears: detection of utterances *)

\* The counters of a moment between two frames never complete an utterance; as
\* long as no final transcript took words, every frame of speech is counted with
\* the words.
EarsInv ==
  /\ words \in Nat /\ speech \in 0..MaxSpeech /\ silence \in 0..Discard
  /\ ready \in BOOLEAN /\ stt \in BOOLEAN /\ cut \in BOOLEAN /\ fallback \in BOOLEAN
  /\ uttered \in [frames : 0..MaxSpeech, cut : BOOLEAN]
  /\ ~Complete(speech, silence)
  /\ words <= speech
  /\ words = speech \/ cut

LEMMA Constants ==
  /\ MinSpeech \in Nat /\ MaxSpeech \in Nat /\ Pause \in Nat /\ Discard \in Nat
  /\ FrameUnits \in Nat /\ Chunk \in Nat /\ MaxFrames \in Nat /\ MaxReplies \in Nat
  /\ 0 < MinSpeech /\ 0 < Pause /\ 0 < FrameUnits /\ 0 < Chunk
  /\ MinSpeech < MaxSpeech /\ Pause < Discard
BY AudioAssumption

\* The counters after a frame, and the utterance it completes.
Heard(w, sp, si) ==
  \/ /\ Complete(sp, si) /\ words' = 0 /\ speech' = 0 /\ silence' = 0
     /\ uttered' = [frames |-> w, cut |-> cut]
     /\ cut' = FALSE /\ fallback' = FALSE /\ ready' = (ready \/ stt)
  \/ /\ ~Complete(sp, si) /\ words' = w /\ speech' = sp /\ silence' = si
     /\ UNCHANGED <<ready, cut, uttered, fallback>>

LEMMA LoudHeard == Loud => Heard(words + 1, speech + 1, 0) /\ UNCHANGED stt
BY DEF Loud, Feed, Heard, Uttered

LEMMA QuietHeard ==
  Quiet => /\ UNCHANGED stt
           /\ \/ words = 0 /\ Heard(0, speech, silence)
              \/ words # 0 /\ Noise /\ Heard(0, 0, 0)
              \/ words # 0 /\ ~Noise /\ Heard(words, speech, silence + 1)
BY DEF Quiet, Feed, Heard, Uttered

\* The frame may be one more of speech or of silence, or start anew.
LEMMA HeardKeepsEars ==
  ASSUME EarsInv, NEW w \in Nat, NEW sp \in 0..MaxSpeech, NEW si \in 0..Discard,
         w <= sp, w = sp \/ cut, Heard(w, sp, si), UNCHANGED stt
  PROVE  EarsInv' /\ ((uttered.frames >= MinSpeech \/ uttered.cut)
                        => (uttered'.frames >= MinSpeech \/ uttered'.cut))
<1>1. CASE Complete(sp, si)
  <2>1. /\ words' = 0 /\ speech' = 0 /\ silence' = 0
        /\ uttered' = [frames |-> w, cut |-> cut]
        /\ cut' = FALSE /\ fallback' = FALSE /\ ready' = (ready \/ stt)
    BY <1>1 DEF Heard
  <2>2. sp >= MinSpeech /\ w \in 0..MaxSpeech
    BY <1>1, Constants DEF Complete
  <2>3. uttered' \in [frames : 0..MaxSpeech, cut : BOOLEAN]
    BY <2>1, <2>2 DEF EarsInv
  <2>4. ~Complete(speech', silence')
    BY <2>1, Constants DEF Complete
  <2>5. ready' \in BOOLEAN /\ stt' \in BOOLEAN /\ cut' \in BOOLEAN /\ fallback' \in BOOLEAN
    BY <2>1 DEF EarsInv
  <2>6. uttered'.frames >= MinSpeech \/ uttered'.cut
    BY <2>1, <2>2, Constants
  <2>. QED  BY <2>1, <2>3, <2>4, <2>5, <2>6, Constants DEF EarsInv, Complete
<1>2. CASE ~Complete(sp, si)
  <2>1. words' = w /\ speech' = sp /\ silence' = si /\ UNCHANGED <<ready, cut, uttered, fallback>>
    BY <1>2 DEF Heard
  <2>. QED  BY <1>2, <2>1 DEF EarsInv, Complete
<1>. QED  BY <1>1, <1>2

\* One step of the ears.
LEMMA EarsStep ==
  ASSUME EarsInv, [Next]_vars
  PROVE  EarsInv' /\ ((uttered.frames >= MinSpeech \/ uttered.cut)
                        => (uttered'.frames >= MinSpeech \/ uttered'.cut))
<1>0. /\ words \in Nat /\ speech \in 0..MaxSpeech /\ silence \in 0..Discard
      /\ words <= speech /\ (words = speech \/ cut)
      /\ speech < MaxSpeech /\ (speech >= MinSpeech => silence < Pause)
  BY Constants DEF EarsInv, Complete
<1>1. CASE Loud
  <2>1. speech + 1 \in 0..MaxSpeech /\ words + 1 \in Nat /\ words + 1 <= speech + 1
        /\ (words + 1 = speech + 1 \/ cut)
    BY <1>0, Constants
  <2>. QED  BY <1>1, <2>1, LoudHeard, HeardKeepsEars, Constants
<1>2. CASE Quiet
  <2>1. CASE words = 0
    BY <1>0, <1>2, <2>1, QuietHeard, HeardKeepsEars
  <2>2. CASE words # 0 /\ Noise
    BY <1>0, <1>2, <2>2, QuietHeard, HeardKeepsEars, Constants
  <2>3. CASE words # 0 /\ ~Noise
    <3>1. silence + 1 \in 0..Discard
      BY <1>0, <2>3, Constants DEF Noise
    <3>. QED  BY <1>0, <1>2, <2>3, <3>1, QuietHeard, HeardKeepsEars
  <2>. QED  BY <2>1, <2>2, <2>3
<1>3. CASE TranscriptFinal
  <2>1. /\ words' = 0 /\ ready' = FALSE
        /\ UNCHANGED <<speech, silence, uttered, stt, fallback>>
    BY <1>3 DEF TranscriptFinal, Taken
  <2>5. cut' = (cut \/ speech > 0)
    BY <1>3 DEF TranscriptFinal
  <2>2. speech > 0 \/ speech = 0
    BY <1>0
  <2>6. ready' \in BOOLEAN /\ ~Complete(speech', silence')
    BY <2>1 DEF EarsInv, Complete
  <2>3. CASE speech > 0
    <3>1. cut' = TRUE
      BY <2>5, <2>3, Zenon
    <3>2. cut' \in BOOLEAN /\ cut'
      BY <3>1, Zenon
    <3>. QED  BY <1>0, <2>1, <2>6, <3>2 DEF EarsInv
  <2>4. CASE speech = 0
    <3>1. ~(speech > 0)
      BY <2>4
    <3>2. cut' \in BOOLEAN
      BY <2>5, Zenon
    <3>. QED  BY <1>0, <2>1, <2>4, <2>6, <3>2 DEF EarsInv
  <2>. QED  BY <2>2, <2>3, <2>4
<1>4. CASE SttFails
  <2>1. /\ stt' = FALSE /\ ready' = FALSE /\ (fallback' = fallback \/ fallback' = (words > 0))
        /\ UNCHANGED <<words, speech, silence, cut, uttered>>
    BY <1>4 DEF SttFails
  <2>2. fallback' \in BOOLEAN
    <3>1. CASE fallback' = fallback
      BY <3>1 DEF EarsInv
    <3>2. CASE fallback' = (words > 0)
      BY <1>0, <3>2
    <3>. QED  BY <2>1, <3>1, <3>2
  <2>. QED  BY <2>1, <2>2 DEF EarsInv, Complete
<1>5. CASE UNCHANGED <<ears, stt, fallback>>
  BY <1>5 DEF ears, EarsInv, Complete
<1>. QED
  BY <1>1, <1>2, <1>3, <1>4, <1>5
     DEF Next, vars, SpeechStart, Thought, SendFrame, TakePayload, PayloadSent, FrameSent,
         Flush, Played, ReplyFails

LEMMA EarsStart == Init => EarsInv /\ UtterancesAreLong
<1>. SUFFICES ASSUME Init
              PROVE  EarsInv /\ UtterancesAreLong
  OBVIOUS
<1>1. /\ words = 0 /\ speech = 0 /\ silence = 0 /\ ready = FALSE /\ stt \in BOOLEAN
      /\ cut = FALSE /\ fallback = FALSE
  BY DEF Init
<1>2. ready \in BOOLEAN /\ cut \in BOOLEAN /\ fallback \in BOOLEAN
  BY <1>1, Zenon
<1>3. words = 0 /\ speech = 0 /\ silence = 0 /\ stt \in BOOLEAN
  BY <1>1
<1>4. /\ uttered \in [frames : 0..MaxSpeech, cut : BOOLEAN]
      /\ uttered.frames = MinSpeech
  BY Constants DEF Init
<1>5. ~Complete(speech, silence)
  BY <1>1, Constants DEF Complete
<1>6. uttered.frames >= MinSpeech
  BY <1>4, Constants
<1>7. EarsInv
  BY <1>2, <1>3, <1>4, <1>5, Constants DEF EarsInv
<1>. QED  BY <1>6, <1>7 DEF UtterancesAreLong

LEMMA EarsAlways == Spec => []EarsInv
<1>. QED  BY EarsStart, EarsStep, PTL DEF Spec

\* UtterancesAreLong: no utterance shorter than MinSpeech frames is answered or
\* stored, unless a final transcript took some of its words.
THEOREM LongUtterances == Spec => []UtterancesAreLong
<1>1. EarsInv /\ UtterancesAreLong /\ [Next]_vars => (EarsInv /\ UtterancesAreLong)'
  BY EarsStep DEF UtterancesAreLong
<1>. QED  BY <1>1, EarsStart, PTL DEF Spec

-----------------------------------------------------------------------------
(* The mouth: what is on the way to the caller *)

\* What a caller's frame or an event of the transcription does to the mouth:
\* nothing, or the response is silenced, or another one replaces it.
Spared == UNCHANGED <<response, replies, mouth>>
Hushed == response' = "none" /\ Silenced /\ UNCHANGED <<replies, made>>

LEMMA EarEvents ==
  ASSUME Loud \/ Quiet \/ SpeechStart \/ TranscriptFinal \/ SttFails
  PROVE  Spared \/ Hushed \/ Replaced
<1>1. CASE Loud
  BY <1>1 DEF Loud, Feed, Spared, Hushed, mouth
<1>2. CASE Quiet
  BY <1>2 DEF Quiet, Feed, Spared, Hushed, mouth
<1>3. CASE SpeechStart
  BY <1>3 DEF SpeechStart, Hushed
<1>4. CASE TranscriptFinal
  BY <1>4 DEF TranscriptFinal
<1>5. CASE SttFails
  BY <1>5 DEF SttFails, Spared
<1>. QED  BY <1>1, <1>2, <1>3, <1>4, <1>5

\* A frame of speech that finds no words silences whatever is there; one that finds
\* words finds no response, or one that answers a failed transcription.
LEMMA FrameInterrupts ==
  ASSUME EarsInv, SpeechInterrupts, Loud \/ Quiet
  PROVE  SpeechInterrupts'
<1>1. CASE Loud
  <2>1. CASE Complete(speech + 1, 0)
    BY <1>1, <2>1 DEF Loud, Feed, Uttered, SpeechInterrupts
  <2>2. CASE ~Complete(speech + 1, 0) /\ BargeIn
    BY <1>1, <2>2 DEF Loud, Feed, Silenced, SpeechInterrupts, Active
  <2>3. CASE ~Complete(speech + 1, 0) /\ ~BargeIn
    <3>1. UNCHANGED <<response, playing, fallback>>
      BY <1>1, <2>3 DEF Loud, Feed
    <3>2. words = 0 => ~(playing \/ Active)
      BY <2>3 DEF BargeIn
    <3>. QED  BY <3>1, <3>2 DEF SpeechInterrupts, Active, EarsInv
  <2>. QED  BY <2>1, <2>2, <2>3
<1>2. CASE Quiet
  <2>1. words' = 0 \/ (words' = words /\ UNCHANGED <<response, playing, fallback>>)
    BY <1>2 DEF Quiet, Feed, Uttered
  <2>. QED  BY <2>1 DEF SpeechInterrupts, Active
<1>. QED  BY <1>1, <1>2

LEMMA InterruptsStep ==
  ASSUME EarsInv, SpeechInterrupts, [Next]_vars
  PROVE  SpeechInterrupts'
<1>1. CASE Loud \/ Quiet
  BY <1>1, FrameInterrupts
<1>2. CASE SpeechStart
  BY <1>2 DEF SpeechStart, Silenced, SpeechInterrupts, Active
<1>3. CASE TranscriptFinal
  BY <1>3 DEF TranscriptFinal, Taken, SpeechInterrupts
<1>4. CASE SttFails
  <2>1. CASE ready
    BY <1>4, <2>1 DEF SttFails, SpeechInterrupts
  <2>2. CASE ~ready
    BY <1>4, <2>2 DEF SttFails, SpeechInterrupts, Active, mouth
  <2>. QED  BY <2>1, <2>2
<1>5. CASE Thought \/ SendFrame \/ TakePayload \/ PayloadSent \/ FrameSent \/ Flush
  <2>1. UNCHANGED <<words, fallback>> /\ (playing' => Active \/ playing)
    BY <1>5 DEF Thought, SendFrame, TakePayload, PayloadSent, FrameSent, Flush, ears, mouth, Active
  <2>2. Active' => Active
    BY <1>5 DEF Thought, SendFrame, TakePayload, PayloadSent, FrameSent, Flush, Active
  <2>. QED  BY <2>1, <2>2 DEF SpeechInterrupts
<1>6. CASE Played \/ ReplyFails \/ UNCHANGED vars
  BY <1>6 DEF Played, ReplyFails, vars, ears, mouth, SpeechInterrupts, Active
<1>. QED  BY <1>1, <1>2, <1>3, <1>4, <1>5, <1>6 DEF Next

\* SpeechInterrupts: words are collected while a response is thought out or heard
\* only if it answers an utterance whose transcription failed.
THEOREM SpeechEndsResponse == Spec => []SpeechInterrupts
<1>1. Init => SpeechInterrupts
  BY DEF Init, SpeechInterrupts
<1>2. EarsInv /\ SpeechInterrupts /\ [Next]_vars => SpeechInterrupts'
  BY InterruptsStep
<1>. QED  BY <1>1, <1>2, EarsAlways, PTL DEF Spec

-----------------------------------------------------------------------------
(* What is on the way, as one sequence *)

Units == Nat \X Nat
OnTheWay == line \o inhand \o buffer

\* The frames of the reply, as far as they are made, and silence after them.
InOrder ==
  /\ made * FrameUnits <= Len(OnTheWay)
  /\ \A i \in 1..Len(OnTheWay) :
       OnTheWay[i] = IF i <= made * FrameUnits THEN <<replies, i>> ELSE Silence

MouthTypes ==
  /\ line \in Seq(Units) /\ inhand \in Seq(Units) /\ buffer \in Seq(Units)
  /\ response \in {"none", "thinking", "pacing", "sending", "flushing", "ended"}
  /\ playing \in BOOLEAN /\ replies \in 0..MaxReplies /\ made \in 0..MaxFrames

\* Whole payloads are sent; between two frames less than one waits.
Payloads ==
  /\ Len(inhand) \in {0, Chunk}
  /\ \E n \in 0..Len(line) : Len(line) = n * Chunk
  /\ inhand # <<>> => response \in {"sending", "flushing"}
  /\ response # "sending" => Len(buffer) < Chunk
  /\ response \in {"flushing", "ended"} => buffer = <<>>

\* A response plays from its first frame to the mark; until it is flushed nothing
\* but its frames is on the way.
Stages ==
  /\ response \in {"pacing", "sending", "flushing", "ended"} => playing
  /\ response = "thinking" => made = 0
  /\ response \in {"thinking", "pacing", "sending"} => Len(OnTheWay) = made * FrameUnits

Content == IF Active \/ playing THEN InOrder ELSE OnTheWay = <<>>

MouthInv == MouthTypes /\ Payloads /\ Stages /\ Content

\* The three pieces, laid end to end.
LEMMA Pieces ==
  ASSUME NEW a \in Seq(Units), NEW b \in Seq(Units), NEW c \in Seq(Units)
  PROVE  /\ a \o b \o c \in Seq(Units)
         /\ Len(a \o b \o c) = Len(a) + Len(b) + Len(c)
         /\ Len(a) \in Nat /\ Len(b) \in Nat /\ Len(c) \in Nat
         /\ (a \o b) \o c = a \o (b \o c)
         /\ a \o b \o c = <<>> <=> a = <<>> /\ b = <<>> /\ c = <<>>
<1>1. a \o b \in Seq(Units) /\ Len(a \o b) = Len(a) + Len(b)
  BY ConcatProperties
<1>2. a \o b \o c \in Seq(Units) /\ Len(a \o b \o c) = Len(a \o b) + Len(c)
  BY <1>1, ConcatProperties
<1>3. Len(a) \in Nat /\ Len(b) \in Nat /\ Len(c) \in Nat
  BY LenProperties
<1>4. (a \o b) \o c = a \o (b \o c)
  BY ConcatAssociative
<1>5. a \o b \o c = <<>> <=> a = <<>> /\ b = <<>> /\ c = <<>>
  BY <1>1, ConcatEqualIffEmpty
<1>. QED  BY <1>1, <1>2, <1>3, <1>4, <1>5

LEMMA Assoc == \A a, b, c \in Seq(Units) : (a \o b) \o c = a \o (b \o c)
BY ConcatAssociative

LEMMA Nothing == <<>> \in Seq(Units) /\ Len(<<>>) = 0 /\ <<>> \o <<>> \o <<>> = <<>>
BY EmptySeq, ConcatEmptySeq

\* Silenced: nothing is left on the way.
LEMMA SilencedLeavesNothing ==
  ASSUME MouthInv, Silenced
  PROVE  /\ line' = <<>> /\ inhand' = <<>> /\ buffer' = <<>>
         /\ ~playing' /\ playing' \in BOOLEAN
<1>1. line' = <<>> /\ inhand' = <<>> /\ buffer' = <<>>
  <2>1. CASE Active \/ playing
    BY <2>1 DEF Silenced, Cleared
  <2>2. CASE ~(Active \/ playing)
    <3>1. line = <<>> /\ inhand = <<>> /\ buffer = <<>>
      BY <2>2, Pieces DEF MouthInv, MouthTypes, Content, OnTheWay
    <3>. QED  BY <2>2, <3>1 DEF Silenced
  <2>. QED  BY <2>1, <2>2
<1>2. playing' = FALSE
  BY DEF Silenced
<1>3. ~playing' /\ playing' \in BOOLEAN
  BY <1>2, Zenon
<1>. QED  BY <1>1, <1>3

LEMMA EarsKeepMouth ==
  ASSUME MouthInv, Spared \/ Hushed \/ Replaced
  PROVE  MouthInv'
<1>1. CASE Spared
  BY <1>1 DEF Spared, mouth, MouthInv, MouthTypes, Payloads, Stages, Content, InOrder, OnTheWay, Active
<1>2. CASE Hushed
  <2>1. line' = <<>> /\ inhand' = <<>> /\ buffer' = <<>> /\ ~playing' /\ playing' \in BOOLEAN
    BY <1>2, SilencedLeavesNothing DEF Hushed
  <2>2. response' = "none" /\ UNCHANGED <<replies, made>>
    BY <1>2 DEF Hushed
  <2>3. MouthTypes'
    BY <2>1, <2>2, Nothing DEF MouthInv, MouthTypes
  <2>4. Payloads'
    BY <2>1, <2>2, Nothing, Constants DEF Payloads
  <2>5. Stages' /\ Content'
    BY <2>1, <2>2, Nothing DEF Stages, Content, Active, OnTheWay
  <2>. QED  BY <2>3, <2>4, <2>5 DEF MouthInv
<1>3. CASE Replaced
  <2>1. line' = <<>> /\ inhand' = <<>> /\ buffer' = <<>> /\ ~playing' /\ playing' \in BOOLEAN
    BY <1>3, SilencedLeavesNothing DEF Replaced
  <2>2. response' = "thinking" /\ made' = 0 /\ replies' \in 0..MaxReplies
    BY <1>3, Constants DEF Replaced, MouthInv, MouthTypes
  <2>3. MouthTypes'
    BY <2>1, <2>2, Nothing, Constants DEF MouthTypes
  <2>4. Payloads'
    BY <2>1, <2>2, Nothing, Constants DEF Payloads
  <2>5. OnTheWay' = <<>> /\ Len(OnTheWay') = 0 /\ made' * FrameUnits = 0
    BY <2>1, <2>2, Nothing, Constants DEF OnTheWay
  <2>6. Stages' /\ Content'
    BY <2>2, <2>5 DEF Stages, Content, InOrder
  <2>. QED  BY <2>3, <2>4, <2>6 DEF MouthInv
<1>. QED  BY <1>1, <1>2, <1>3

\* Taking a payload off the buffer, and sending it, moves it along.
LEMMA TakeMoves ==
  ASSUME MouthInv, TakePayload
  PROVE  MouthInv' /\ OnTheWay' = OnTheWay
<1>1. /\ response = "sending" /\ inhand = <<>> /\ Len(buffer) >= Chunk
      /\ inhand' = SubSeq(buffer, 1, Chunk)
      /\ buffer' = SubSeq(buffer, Chunk + 1, Len(buffer))
      /\ UNCHANGED <<response, replies, playing, made, line>>
  BY DEF TakePayload, Enough
<1>2. line \in Seq(Units) /\ buffer \in Seq(Units)
  BY DEF MouthInv, MouthTypes
<1>3. Len(buffer) \in Nat /\ \A i \in 1..Len(buffer) : buffer[i] \in Units
  BY <1>2, LenProperties, ElementOfSeq
<1>4. Chunk \in 1..Len(buffer) /\ Chunk \in Nat
  BY <1>1, <1>3, Constants
<1>5. inhand' \in Seq(Units) /\ Len(inhand') = Chunk
  <2>1. \A i \in 1..Chunk : buffer[i] \in Units
    BY <1>3, <1>4
  <2>. QED  BY <1>1, <1>4, <2>1, SubSeqProperties
<1>6. buffer' \in Seq(Units)
  <2>1. \A i \in (Chunk + 1)..Len(buffer) : buffer[i] \in Units
    BY <1>3, <1>4
  <2>. QED  BY <1>1, <1>3, <1>4, <2>1, SubSeqProperties
<1>7. inhand' \o buffer' = buffer
  <2>1. 1 \in 1..Len(buffer) + 1 /\ Chunk \in 1 - 1..Len(buffer) /\ Len(buffer) \in Chunk..Len(buffer)
    BY <1>3, <1>4
  <2>2. SubSeq(buffer, 1, Chunk) \o SubSeq(buffer, Chunk + 1, Len(buffer))
          = SubSeq(buffer, 1, Len(buffer))
    BY <1>2, <2>1, ConcatAdjacentSubSeq
  <2>. QED  BY <1>1, <1>2, <2>2, SubSeqFull
<1>8. OnTheWay' = OnTheWay
  <2>1. OnTheWay = line \o buffer
    BY <1>1, <1>2, ConcatEmptySeq DEF OnTheWay
  <2>2. OnTheWay' = line \o (inhand' \o buffer')
    <3>1. (line \o inhand') \o buffer' = line \o (inhand' \o buffer')
      BY <1>2, <1>5, <1>6, Assoc
    <3>. QED  BY <1>1, <3>1 DEF OnTheWay
  <2>. QED  BY <1>7, <2>1, <2>2
<1>9. MouthTypes'
  BY <1>1, <1>5, <1>6 DEF MouthInv, MouthTypes
<1>10. Payloads'
  BY <1>1, <1>5 DEF MouthInv, Payloads
<1>11. Stages' /\ Content'
  BY <1>1, <1>8 DEF MouthInv, Stages, Content, InOrder, Active
<1>. QED  BY <1>8, <1>9, <1>10, <1>11 DEF MouthInv

LEMMA SentMoves ==
  ASSUME MouthInv, PayloadSent
  PROVE  MouthInv' /\ OnTheWay' = OnTheWay
<1>1. /\ inhand # <<>> /\ line' = line \o inhand /\ inhand' = <<>>
      /\ response' = IF response = "flushing" THEN "ended" ELSE response
      /\ UNCHANGED <<replies, playing, made, buffer>>
  BY DEF PayloadSent
<1>2. line \in Seq(Units) /\ inhand \in Seq(Units) /\ buffer \in Seq(Units)
  BY DEF MouthInv, MouthTypes
<1>3. response \in {"sending", "flushing"} /\ playing
  BY <1>1 DEF MouthInv, Payloads, Stages
<1>4. Len(inhand) = Chunk
  BY <1>1, <1>2, EmptySeq DEF MouthInv, Payloads
<1>5. line' \in Seq(Units) /\ Len(line') = Len(line) + Chunk /\ Len(line) \in Nat
  BY <1>1, <1>2, <1>4, ConcatProperties, LenProperties
<1>6. OnTheWay' = OnTheWay
  BY <1>1, <1>2, <1>5, ConcatEmptySeq DEF OnTheWay
<1>7. MouthTypes'
  BY <1>1, <1>3, <1>5, Nothing DEF MouthInv, MouthTypes
<1>8. \E n \in 0..Len(line') : Len(line') = n * Chunk
  <2>1. PICK n \in 0..Len(line) : Len(line) = n * Chunk
    BY DEF MouthInv, Payloads
  <2>2. n + 1 \in 0..Len(line')
    BY <1>5, <2>1, Constants
  <2>3. Len(line') = (n + 1) * Chunk
    BY <1>5, <2>1, Constants
  <2>. QED  BY <2>2, <2>3
<1>9. Payloads'
  BY <1>1, <1>3, <1>8, Nothing DEF MouthInv, Payloads
<1>10. Stages' /\ Content'
  BY <1>1, <1>3, <1>6 DEF MouthInv, Stages, Content, InOrder, Active
<1>. QED  BY <1>6, <1>7, <1>9, <1>10 DEF MouthInv

\* A run of units, as a sequence.
LEMMA FrameIsSeq ==
  ASSUME NEW r \in Nat, NEW n \in Nat
  PROVE  /\ FrameOf(r, n + 1) \in Seq(Units)
         /\ Len(FrameOf(r, n + 1)) = FrameUnits
         /\ \A i \in 1..FrameUnits : FrameOf(r, n + 1)[i] = <<r, n * FrameUnits + i>>
<1>1. FrameUnits \in Nat /\ (n + 1) - 1 = n /\ n * FrameUnits \in Nat
  BY Constants
<1>2. FrameOf(r, n + 1) = [i \in 1..FrameUnits |-> <<r, n * FrameUnits + i>>]
  BY <1>1 DEF FrameOf
<1>3. FrameOf(r, n + 1) \in [1..FrameUnits -> Units]
  <2>1. \A i \in 1..FrameUnits : n * FrameUnits + i \in Nat
    BY <1>1
  <2>2. \A i \in 1..FrameUnits : <<r, n * FrameUnits + i>> \in Units
    BY <2>1 DEF Units
  <2>. QED  BY <1>2, <2>2
<1>4. FrameOf(r, n + 1) \in Seq(Units)
  BY <1>1, <1>3, SeqDef
<1>5. DOMAIN FrameOf(r, n + 1) = 1..FrameUnits
  BY <1>2
<1>6. Len(FrameOf(r, n + 1)) = FrameUnits
  BY <1>1, <1>4, <1>5, LenProperties
<1>. QED  BY <1>2, <1>4, <1>6

\* SendFrame: the next units of the reply come after those on the way.
LEMMA FrameContinues ==
  ASSUME MouthInv, SendFrame
  PROVE  MouthInv'
<1>1. /\ response = "pacing" /\ made < MaxFrames /\ made' = made + 1
      /\ buffer' = buffer \o FrameOf(replies, made + 1)
      /\ response' = "sending" /\ UNCHANGED <<replies, playing, inhand, line>>
  BY DEF SendFrame
<1>. DEFINE frame == FrameOf(replies, made + 1)
<1>2. /\ line \in Seq(Units) /\ inhand \in Seq(Units) /\ buffer \in Seq(Units)
      /\ replies \in Nat /\ made \in Nat /\ playing
  BY <1>1, Constants DEF MouthInv, MouthTypes, Stages
<1>3. /\ frame \in Seq(Units) /\ Len(frame) = FrameUnits
      /\ \A i \in 1..FrameUnits : frame[i] = <<replies, made * FrameUnits + i>>
  BY <1>2, FrameIsSeq
<1>. HIDE DEF frame
<1>4. buffer' \in Seq(Units) /\ OnTheWay' = OnTheWay \o frame /\ OnTheWay \in Seq(Units)
  <2>1. line \o inhand \in Seq(Units)
    BY <1>2, ConcatProperties
  <2>2. (line \o inhand) \o (buffer \o frame) = ((line \o inhand) \o buffer) \o frame
    BY <1>2, <1>3, <2>1, Assoc
  <2>. QED  BY <1>1, <1>2, <1>3, <2>1, <2>2, ConcatProperties DEF OnTheWay, frame
<1>5. /\ Len(OnTheWay) = made * FrameUnits /\ made * FrameUnits \in Nat
      /\ \A i \in 1..Len(OnTheWay) : OnTheWay[i] = <<replies, i>>
  <2>1. Len(OnTheWay) = made * FrameUnits /\ made * FrameUnits \in Nat
    BY <1>1, <1>2, Constants DEF MouthInv, Stages
  <2>2. InOrder
    BY <1>1 DEF MouthInv, Content, Active
  <2>. QED  BY <2>1, <2>2 DEF InOrder
<1>6. made' * FrameUnits = made * FrameUnits + FrameUnits
  BY <1>1, <1>2, Constants
<1>7. /\ Len(OnTheWay') = made * FrameUnits + FrameUnits
      /\ \A i \in 1..Len(OnTheWay') : OnTheWay'[i] = <<replies, i>>
  <2>1. /\ Len(OnTheWay') = Len(OnTheWay) + Len(frame)
        /\ \A i \in 1..Len(OnTheWay) + Len(frame) :
             OnTheWay'[i] = IF i <= Len(OnTheWay) THEN OnTheWay[i] ELSE frame[i - Len(OnTheWay)]
    BY <1>3, <1>4, ConcatProperties
  <2>2. ASSUME NEW i \in 1..Len(OnTheWay) + Len(frame)
        PROVE  OnTheWay'[i] = <<replies, i>>
    <3>1. CASE i <= Len(OnTheWay)
      BY <1>5, <2>1, <3>1
    <3>2. CASE ~(i <= Len(OnTheWay))
      <4>1. i - Len(OnTheWay) \in 1..FrameUnits
            /\ made * FrameUnits + (i - Len(OnTheWay)) = i
        BY <1>3, <1>5, <3>2, Constants
      <4>. QED  BY <1>3, <2>1, <3>2, <4>1
    <3>. QED  BY <3>1, <3>2
  <2>. QED  BY <1>3, <1>5, <2>1, <2>2
<1>8. MouthTypes'
  BY <1>1, <1>2, <1>4, Constants DEF MouthInv, MouthTypes
<1>9. Payloads'
  BY <1>1 DEF MouthInv, Payloads
<1>10. Stages'
  BY <1>1, <1>2, <1>6, <1>7 DEF Stages
<1>11. InOrder'
  <2>1. made' * FrameUnits = Len(OnTheWay') /\ replies' = replies
    BY <1>1, <1>6, <1>7
  <2>2. \A i \in 1..Len(OnTheWay') : i <= Len(OnTheWay')
    BY <1>5, <1>7, Constants
  <2>3. Len(OnTheWay') <= Len(OnTheWay')
    BY <1>5, <1>7, Constants
  <2>. QED  BY <1>7, <2>1, <2>2, <2>3 DEF InOrder
<1>. QED  BY <1>1, <1>2, <1>8, <1>9, <1>10, <1>11 DEF MouthInv, Content

LEMMA PaddingIsSeq ==
  ASSUME NEW n \in Nat
  PROVE  /\ [i \in 1..n |-> Silence] \in Seq(Units)
         /\ Len([i \in 1..n |-> Silence]) = n
         /\ \A j \in 1..n : [i \in 1..n |-> Silence][j] = Silence
<1>. DEFINE pad == [i \in 1..n |-> Silence]
<1>1. pad \in [1..n -> Units]
  BY DEF Silence, Units
<1>2. pad \in Seq(Units)
  BY <1>1, SeqDef
<1>3. DOMAIN pad = 1..n
  OBVIOUS
<1>4. Len(pad) = n
  BY <1>2, <1>3, LenProperties
<1>. QED  BY <1>2, <1>4

\* Flush: silence fills the last payload.
LEMMA FlushPads ==
  ASSUME MouthInv, Flush
  PROVE  MouthInv'
<1>1. response = "pacing" /\ UNCHANGED <<replies, playing, made, line>>
  BY DEF Flush
<1>2. /\ line \in Seq(Units) /\ inhand \in Seq(Units) /\ buffer \in Seq(Units)
      /\ replies \in Nat /\ made \in Nat /\ playing /\ inhand = <<>> /\ Len(buffer) < Chunk
  BY <1>1, Constants DEF MouthInv, MouthTypes, Stages, Payloads
<1>3. InOrder /\ Len(OnTheWay) = made * FrameUnits
  BY <1>1 DEF MouthInv, Content, Active, Stages
<1>4. CASE buffer = <<>>
  <2>1. response' = "ended" /\ UNCHANGED <<buffer, inhand>>
    BY <1>4 DEF Flush
  <2>2. MouthTypes'
    BY <1>1, <2>1 DEF MouthInv, MouthTypes
  <2>3. Payloads'
    BY <1>1, <1>2, <1>4, <2>1 DEF MouthInv, Payloads
  <2>4. Stages' /\ Content'
    BY <1>1, <1>2, <1>3, <2>1 DEF Stages, Content, InOrder, OnTheWay, Active
  <2>. QED  BY <2>2, <2>3, <2>4 DEF MouthInv
<1>5. CASE buffer # <<>>
  <2>. DEFINE pad == [i \in 1..Padding |-> Silence]
  <2>1. inhand' = buffer \o pad /\ buffer' = <<>> /\ response' = "flushing"
    BY <1>5 DEF Flush
  <2>2. Len(buffer) \in Nat /\ Padding \in Nat /\ Len(buffer) + Padding = Chunk
    BY <1>2, LenProperties, Constants DEF Padding
  <2>3. /\ pad \in Seq(Units) /\ Len(pad) = Padding
        /\ \A j \in 1..Padding : pad[j] = Silence
    BY <2>2, PaddingIsSeq
  <2>. HIDE DEF pad
  <2>4. inhand' \in Seq(Units) /\ Len(inhand') = Chunk
    BY <1>2, <2>1, <2>2, <2>3, ConcatProperties
  <2>5. OnTheWay \in Seq(Units) /\ OnTheWay' = OnTheWay \o pad
    <3>1. OnTheWay = line \o buffer
      BY <1>2, ConcatEmptySeq DEF OnTheWay
    <3>2. (line \o buffer) \o pad = line \o (buffer \o pad)
      BY <1>2, <2>3, Assoc
    <3>3. line \o inhand' \in Seq(Units)
      BY <1>2, <2>4, ConcatProperties
    <3>4. OnTheWay' = line \o inhand'
      BY <1>1, <2>1, <3>3, ConcatEmptySeq DEF OnTheWay
    <3>. QED  BY <1>2, <2>1, <3>1, <3>2, <3>4, ConcatProperties
  <2>6. Len(OnTheWay) \in Nat
    BY <2>5, LenProperties
  <2>7. /\ Len(OnTheWay') = Len(OnTheWay) + Padding
        /\ \A i \in 1..Len(OnTheWay') :
             OnTheWay'[i] = IF i <= Len(OnTheWay) THEN <<replies, i>> ELSE Silence
    <3>1. /\ Len(OnTheWay') = Len(OnTheWay) + Len(pad)
          /\ \A i \in 1..Len(OnTheWay) + Len(pad) :
               OnTheWay'[i] = IF i <= Len(OnTheWay) THEN OnTheWay[i] ELSE pad[i - Len(OnTheWay)]
      BY <2>3, <2>5, ConcatProperties
    <3>2. ASSUME NEW i \in 1..Len(OnTheWay) + Padding
          PROVE  OnTheWay'[i] = IF i <= Len(OnTheWay) THEN <<replies, i>> ELSE Silence
      <4>1. CASE i <= Len(OnTheWay)
        <5>1. i \in 1..Len(OnTheWay)
          BY <2>6, <4>1
        <5>. QED  BY <1>3, <2>3, <3>1, <4>1, <5>1 DEF InOrder
      <4>2. CASE ~(i <= Len(OnTheWay))
        <5>1. i - Len(OnTheWay) \in 1..Padding
          BY <2>2, <2>6, <4>2
        <5>. QED  BY <2>3, <3>1, <4>2, <5>1
      <4>. QED  BY <4>1, <4>2
    <3>. QED  BY <2>3, <3>1, <3>2
  <2>8. MouthTypes'
    BY <1>1, <2>1, <2>4, Nothing DEF MouthInv, MouthTypes
  <2>9. Payloads'
    BY <1>1, <2>1, <2>4, Nothing, Constants DEF MouthInv, Payloads
  <2>10. InOrder'
    <3>1. made' * FrameUnits = Len(OnTheWay) /\ replies' = replies
      BY <1>1, <1>3
    <3>2. Len(OnTheWay) <= Len(OnTheWay')
      BY <2>2, <2>6, <2>7
    <3>. QED  BY <2>7, <3>1, <3>2 DEF InOrder
  <2>. QED  BY <1>1, <1>2, <2>1, <2>8, <2>9, <2>10 DEF MouthInv, Stages, Content
<1>. QED  BY <1>4, <1>5

LEMMA OtherMouthSteps ==
  ASSUME MouthInv, Thought \/ FrameSent \/ Played \/ ReplyFails
  PROVE  MouthInv'
<1>1. CASE Thought
  <2>1. response = "thinking" /\ response' = "pacing" /\ playing' = TRUE
        /\ UNCHANGED <<replies, made, buffer, inhand, line>>
    BY <1>1 DEF Thought
  <2>2. playing' \in BOOLEAN /\ playing'
    BY <2>1, Zenon
  <2>3. MouthTypes'
    BY <2>1, <2>2 DEF MouthInv, MouthTypes
  <2>4. Payloads'
    BY <2>1 DEF MouthInv, Payloads
  <2>5. Stages' /\ Content'
    BY <2>1, <2>2 DEF MouthInv, Stages, Content, InOrder, OnTheWay, Active
  <2>. QED  BY <2>3, <2>4, <2>5 DEF MouthInv
<1>2. CASE FrameSent
  <2>1. response = "sending" /\ inhand = <<>> /\ ~(Len(buffer) >= Chunk) /\ response' = "pacing"
        /\ UNCHANGED <<replies, playing, made, buffer, inhand, line>>
    BY <1>2 DEF FrameSent, Enough, mouth
  <2>2. Len(buffer) \in Nat
    BY LenProperties DEF MouthInv, MouthTypes
  <2>3. MouthTypes'
    BY <2>1 DEF MouthInv, MouthTypes
  <2>4. Payloads'
    BY <2>1, <2>2, Constants DEF MouthInv, Payloads
  <2>5. Stages' /\ Content'
    BY <2>1 DEF MouthInv, Stages, Content, InOrder, OnTheWay, Active
  <2>. QED  BY <2>3, <2>4, <2>5 DEF MouthInv
<1>3. CASE Played
  <2>1. response = "ended" /\ response' = "none" /\ playing' = FALSE /\ line' = <<>>
        /\ UNCHANGED <<replies, made, buffer, inhand>>
    BY <1>3 DEF Played
  <2>2. inhand = <<>> /\ buffer = <<>>
    BY <2>1 DEF MouthInv, Payloads
  <2>3. playing' \in BOOLEAN /\ ~playing'
    BY <2>1, Zenon
  <2>4. MouthTypes'
    BY <2>1, <2>3, Nothing DEF MouthInv, MouthTypes
  <2>5. Payloads'
    BY <2>1, <2>2, Nothing, Constants DEF Payloads
  <2>6. Stages' /\ Content'
    BY <2>1, <2>2, <2>3, Nothing DEF Stages, Content, OnTheWay, Active
  <2>. QED  BY <2>4, <2>5, <2>6 DEF MouthInv
<1>4. CASE ReplyFails
  <2>1. Active /\ response \notin {"sending", "flushing"} /\ response' = "none"
        /\ UNCHANGED <<replies, playing, made, buffer, inhand, line>>
    BY <1>4 DEF ReplyFails, mouth
  <2>2. MouthTypes'
    BY <2>1 DEF MouthInv, MouthTypes
  <2>3. Payloads'
    BY <2>1 DEF MouthInv, Payloads
  <2>4. Stages'
    BY <2>1 DEF Stages
  <2>5. CASE playing
    BY <2>1, <2>2, <2>3, <2>4, <2>5 DEF MouthInv, Content, InOrder, OnTheWay
  <2>6. CASE ~playing
    <3>1. Len(OnTheWay) = 0 * FrameUnits
      BY <2>1, <2>6 DEF MouthInv, Stages, Active
    <3>2. OnTheWay \in Seq(Units)
      BY Pieces DEF MouthInv, MouthTypes, OnTheWay
    <3>3. OnTheWay = <<>>
      BY <3>1, <3>2, EmptySeq, Constants
    <3>4. Content'
      BY <2>1, <2>6, <3>3 DEF Content, OnTheWay, Active
    <3>. QED  BY <2>2, <2>3, <2>4, <3>4 DEF MouthInv
  <2>. QED  BY <2>5, <2>6
<1>. QED  BY <1>1, <1>2, <1>3, <1>4

LEMMA MouthStep ==
  ASSUME MouthInv, [Next]_vars
  PROVE  MouthInv'
<1>1. CASE Loud \/ Quiet \/ SpeechStart \/ TranscriptFinal \/ SttFails
  BY <1>1, EarEvents, EarsKeepMouth
<1>2. CASE SendFrame
  BY <1>2, FrameContinues
<1>3. CASE TakePayload \/ PayloadSent
  BY <1>3, TakeMoves, SentMoves
<1>4. CASE Flush
  BY <1>4, FlushPads
<1>5. CASE Thought \/ FrameSent \/ Played \/ ReplyFails
  BY <1>5, OtherMouthSteps
<1>6. CASE UNCHANGED vars
  BY <1>6, EarsKeepMouth DEF vars, Spared
<1>. QED  BY <1>1, <1>2, <1>3, <1>4, <1>5, <1>6 DEF Next

LEMMA MouthStart == Init => MouthInv
<1>. SUFFICES ASSUME Init
              PROVE  MouthInv
  OBVIOUS
<1>1. response = "none" /\ replies = 0 /\ playing = FALSE /\ made = 0
      /\ buffer = <<>> /\ inhand = <<>> /\ line = <<>>
  BY DEF Init
<1>2. playing \in BOOLEAN /\ ~playing
  BY <1>1, Zenon
<1>3. MouthTypes
  BY <1>1, <1>2, Nothing, Constants DEF MouthTypes
<1>4. Payloads
  BY <1>1, Nothing, Constants DEF Payloads
<1>5. Stages /\ Content
  BY <1>1, <1>2, Nothing DEF Stages, Content, OnTheWay, Active
<1>. QED  BY <1>3, <1>4, <1>5 DEF MouthInv

\* MouthInv: frames come out of the payloads in order, one payload at a time, and
\* every response begins with nothing on the way.
THEOREM MouthInvariant == Spec => []MouthInv
BY MouthStart, MouthStep, PTL DEF Spec

\* SentInOrder: what the carrier holds, the payload in hand and the waiting rest
\* are the frames of the present reply, for every size of frame and payload.
THEOREM FramesInOrder == Spec => []SentInOrder
<1>1. MouthInv => SentInOrder
  BY DEF MouthInv, Content, InOrder, OnTheWay, SentInOrder
<1>. QED  BY <1>1, MouthInvariant, PTL

\* TypeOK: with it, that less than a payload waits between two frames and nothing
\* after the reply.
THEOREM TypeCorrect == Spec => []TypeOK
<1>1. EarsInv /\ MouthInv => TypeOK
  <2>. SUFFICES ASSUME EarsInv, MouthInv
                PROVE  TypeOK
    OBVIOUS
  <2>1. words \in 0..MaxSpeech
    BY Constants DEF EarsInv
  <2>2. {ready, stt, playing, cut, fallback} \subseteq BOOLEAN
    BY Zenon DEF EarsInv, MouthInv, MouthTypes
  <2>. QED  BY <2>1, <2>2 DEF EarsInv, MouthInv, MouthTypes, Payloads, TypeOK
<1>. QED  BY <1>1, EarsAlways, MouthInvariant, PTL

=============================================================================

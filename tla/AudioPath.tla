----------------------------- MODULE AudioPath -----------------------------
(***************************************************************************)
(* The audio of one media-stream call: the local detection of utterances   *)
(* in the frames that come in, the barge-in it causes, and the framing of  *)
(* what goes out over Exotel's AgentStream, whose payloads have a minimum  *)
(* size that 20 ms frames do not divide.                                   *)
(*                                                                         *)
(* Cancelling a response is one step here; CallSession has the steps in    *)
(* between.  Twilio's transport sends each frame as it comes.              *)
(***************************************************************************)
EXTENDS Naturals, Sequences

CONSTANTS
  FrameUnits,   \* the bytes of an outbound frame and of the least payload, in
  Chunk,        \* any unit (320 and 3200; 160 or 960 in other formats)
  MinSpeech,    \* MIN_UTTERANCE_CHUNKS
  MaxSpeech,    \* MAX_UTTERANCE_CHUNKS
  Pause,        \* SILENCE_CHUNKS
  Discard,      \* 90, in _feed_pcm
  MaxFrames,    \* bound: frames of a reply
  MaxReplies    \* bound: responses started

ASSUME AudioAssumption ==
  /\ {FrameUnits, Chunk, MinSpeech, MaxSpeech, Pause, Discard, MaxFrames, MaxReplies}
       \subseteq Nat \ {0}
  /\ MinSpeech < MaxSpeech /\ Pause < Discard

VARIABLES
  words,    \* frames in _utterance
  speech,   \* _speech_chunks
  silence,  \* _silence_chunks
  ready,    \* _ready_utterance is stored for the fallback
  stt,      \* the realtime transcription runs
  response, \* the response task
  replies,  \* responses started
  playing,  \* _playing
  made,     \* frames of the response given to the transport
  buffer,   \* _outbound_buffer
  inhand,   \* the payload being sent
  line,     \* what the carrier holds, not played yet
  cut,      \* history: a final transcript took words that are still counted
  uttered,  \* history: the last utterance, its frames, and whether it was cut
  fallback  \* history: a response was started for a transcription that failed,
            \* in the middle of the words

ears == <<words, speech, silence, ready, cut, uttered>>
mouth == <<playing, made, buffer, inhand, line>>
vars == <<ears, stt, response, replies, mouth, fallback>>

Silence == <<0, 0>>    \* of no reply
FrameOf(r, n) == [i \in 1..FrameUnits |-> <<r, (n - 1) * FrameUnits + i>>]
Active == response \in {"thinking", "pacing", "sending", "flushing", "ended"}

TypeOK ==
  /\ words \in 0..MaxSpeech /\ speech \in 0..MaxSpeech /\ silence \in 0..Discard
  /\ {ready, stt, playing, cut, fallback} \subseteq BOOLEAN
  /\ response \in {"none", "thinking", "pacing", "sending", "flushing", "ended"}
  /\ uttered \in [frames : 0..MaxSpeech, cut : BOOLEAN]
  /\ replies \in 0..MaxReplies /\ made \in 0..MaxFrames
  /\ Len(inhand) \in {0, Chunk} /\ \E n \in 0..Len(line) : Len(line) = n * Chunk
  \* between two frames less than a payload waits
  /\ response # "sending" => Len(buffer) < Chunk
  /\ response = "ended" => buffer = <<>>

Init ==
  /\ words = 0 /\ speech = 0 /\ silence = 0 /\ ready = FALSE /\ stt \in BOOLEAN
  /\ response = "none" /\ replies = 0
  /\ playing = FALSE /\ made = 0 /\ buffer = <<>> /\ inhand = <<>> /\ line = <<>>
  /\ cut = FALSE /\ uttered = [frames |-> MinSpeech, cut |-> FALSE] /\ fallback = FALSE

-----------------------------------------------------------------------------
(* Cancelling *)

\* ExotelAgentStreamTransport.clear: the partial payload, and what the carrier
\* has buffered.
ClearedLineOnly == [buffer |-> buffer, line |-> <<>>]    \* mutant
Cleared == [buffer |-> <<>>, line |-> <<>>]

\* _cancel_response and _clear_playback: only if there is something to silence.
\* A payload in hand is sent before the clear, or not at all.
Silenced ==
  /\ inhand' = <<>> /\ playing' = FALSE
  /\ IF Active \/ playing THEN buffer' = Cleared.buffer /\ line' = Cleared.line
     ELSE UNCHANGED <<buffer, line>>

\* _replace_response
Replaced ==
  /\ replies < MaxReplies /\ replies' = replies + 1
  /\ response' = "thinking" /\ made' = 0 /\ Silenced

-----------------------------------------------------------------------------
(* Frames from the caller: _feed_pcm and the receive loop *)

Complete(sp, si) == sp >= MinSpeech /\ (si >= Pause \/ sp >= MaxSpeech)
UtteredStillCounted(w) == [words |-> 0, speech |-> w, silence |-> 0]    \* mutant
Uttered(w) == [words |-> 0, speech |-> 0, silence |-> 0]

\* The counts after a frame, and the utterance it completes, if any: kept for the
\* fallback while the transcription runs, else answered at once.
Feed(w, sp, si, bargein) ==
  IF Complete(sp, si)
  THEN /\ words' = Uttered(w).words /\ speech' = Uttered(w).speech
       /\ silence' = Uttered(w).silence
       /\ uttered' = [frames |-> w, cut |-> cut] /\ cut' = FALSE /\ fallback' = FALSE
       /\ ready' = (ready \/ stt)
       /\ IF stt THEN /\ UNCHANGED <<replies, made>>
                      /\ IF bargein THEN response' = "none" /\ Silenced
                         ELSE UNCHANGED <<response, playing, buffer, inhand, line>>
          ELSE Replaced
  ELSE /\ words' = w /\ speech' = sp /\ silence' = si /\ UNCHANGED <<ready, cut, uttered, replies, made, fallback>>
       /\ IF bargein THEN response' = "none" /\ Silenced
          ELSE UNCHANGED <<response, playing, buffer, inhand, line>>

\* Speech interrupts only as the first frame of an utterance.
BargeIn == words = 0 /\ (playing \/ Active)

Loud ==
  /\ Feed(words + 1, speech + 1, 0, BargeIn) /\ UNCHANGED stt

Noise == speech < MinSpeech /\ silence + 1 >= Discard

Quiet ==
  /\ IF words = 0 THEN Feed(0, speech, silence, FALSE)
     ELSE IF Noise THEN Feed(0, 0, 0, FALSE)
     ELSE Feed(words, speech, silence + 1, FALSE)
  /\ UNCHANGED stt

-----------------------------------------------------------------------------
(* Events of the realtime transcription *)

SpeechStart ==
  /\ stt /\ response' = "none" /\ Silenced
  /\ UNCHANGED <<ears, stt, replies, made, fallback>>

\* transcript.final: the words are taken, their count is not.
TakenNever(w) == w    \* mutant
Taken(w) == 0
TranscriptFinal ==
  /\ stt /\ Replaced
  /\ words' = Taken(words) /\ ready' = FALSE /\ cut' = (cut \/ speech > 0)
  /\ UNCHANGED <<speech, silence, uttered, stt, fallback>>

\* It fails, and the stored utterance is answered instead
\* (sarvam_realtime_stt_fallback_enabled is on, its default).
SttFails ==
  /\ stt /\ stt' = FALSE /\ ready' = FALSE
  /\ IF ready THEN Replaced /\ fallback' = (words > 0)
     ELSE UNCHANGED <<response, replies, mouth, fallback>>
  /\ UNCHANGED <<words, speech, silence, cut, uttered>>

-----------------------------------------------------------------------------
(* Frames of a reply: _stream_wav, _stream_tts_socket, send_audio, flush_audio *)

Thought ==
  /\ response = "thinking" /\ response' = "pacing" /\ playing' = TRUE
  /\ UNCHANGED <<ears, stt, replies, made, buffer, inhand, line, fallback>>

SendFrame ==
  /\ response = "pacing" /\ made < MaxFrames /\ made' = made + 1
  /\ buffer' = buffer \o FrameOf(replies, made + 1)
  /\ response' = "sending"
  /\ UNCHANGED <<ears, stt, replies, playing, inhand, line, fallback>>

EnoughAndMore(b) == Len(b) > Chunk    \* mutant
Enough(b) == Len(b) >= Chunk

\* send_audio's loop: a payload is taken off the buffer, then sent.
TakePayload ==
  /\ response = "sending" /\ inhand = <<>> /\ Enough(buffer)
  /\ inhand' = SubSeq(buffer, 1, Chunk)
  /\ buffer' = SubSeq(buffer, Chunk + 1, Len(buffer))
  /\ UNCHANGED <<ears, stt, response, replies, playing, made, line, fallback>>

PayloadSent ==
  /\ inhand # <<>> /\ line' = line \o inhand /\ inhand' = <<>>
  /\ response' = IF response = "flushing" THEN "ended" ELSE response
  /\ UNCHANGED <<ears, stt, replies, playing, made, buffer, fallback>>

FrameSent ==
  /\ response = "sending" /\ inhand = <<>> /\ ~Enough(buffer)
  /\ response' = "pacing"
  /\ UNCHANGED <<ears, stt, replies, mouth, fallback>>

\* flush_audio: the rest of the reply, padded to a payload.
Padding == Chunk - Len(buffer)
Flush ==
  /\ response = "pacing" /\ made > 0
  /\ IF buffer = <<>> THEN response' = "ended" /\ UNCHANGED <<buffer, inhand>>
     ELSE /\ inhand' = buffer \o [i \in 1..Padding |-> Silence]
          /\ buffer' = <<>> /\ response' = "flushing"
  /\ UNCHANGED <<ears, stt, replies, playing, made, line, fallback>>

\* The mark after the last payload comes back: all of it was played.
Played ==
  /\ response = "ended" /\ response' = "none" /\ playing' = FALSE /\ line' = <<>>
  /\ UNCHANGED <<ears, stt, replies, made, buffer, inhand, fallback>>

\* The speech provider fails, or the mark does not come back in time.
ReplyFails ==
  /\ Active /\ response \notin {"sending", "flushing"} /\ response' = "none"
  /\ UNCHANGED <<ears, stt, replies, mouth, fallback>>

-----------------------------------------------------------------------------
Next == \/ Loud \/ Quiet \/ SpeechStart \/ TranscriptFinal \/ SttFails
        \/ Thought \/ SendFrame \/ TakePayload \/ PayloadSent \/ FrameSent
        \/ Flush \/ Played \/ ReplyFails

Spec == Init /\ [][Next]_vars

-----------------------------------------------------------------------------
(* Properties *)

\* However frames and payloads divide, whatever is interrupted or fails on the
\* way: what the carrier holds, the payload in hand and the waiting rest are the
\* frames of the present reply, all of them, in order, and nothing of another;
\* after it, there is nothing.
SentInOrder ==
  LET onTheWay == line \o inhand \o buffer
      audio == made * FrameUnits
  IN  IF Active \/ playing
      THEN /\ audio <= Len(onTheWay)
           /\ \A i \in 1..Len(onTheWay) :
                onTheWay[i] = IF i <= audio THEN <<replies, i>> ELSE Silence
      ELSE onTheWay = <<>>

\* While a response is thought out or heard, the first frame of speech ends it:
\* none goes on while words are being collected, although only a frame that finds
\* _utterance empty interrupts, and three tasks' events fill and empty it.  The
\* exception: an utterance answered because its transcription failed.
SpeechInterrupts == words > 0 /\ (Active \/ playing) => fallback

\* An utterance that is answered or stored has at least MinSpeech frames.  The
\* counters are not reset with the words a final transcript takes: only then is
\* one shorter.
UtterancesAreLong == uttered.frames >= MinSpeech \/ uttered.cut

=============================================================================

---------------------------- MODULE CallSession ----------------------------
(***************************************************************************)
(* One call over a carrier's media stream: the receive loop, the task that *)
(* reads the realtime transcription, the response tasks the two of them    *)
(* create and cancel, the playback task of a streamed reply, and the audio *)
(* and marks that wait at the carrier.                                     *)
(*                                                                         *)
(* All of these are asyncio tasks of one event loop: a step is what a task *)
(* does between two awaits.  Cancelling a task marks it; it stops at its   *)
(* await, cleans up, and only then does the await of its canceller end.    *)
(***************************************************************************)
EXTENDS Naturals, Sequences, FiniteSets

CONSTANT MaxTasks   \* bound: response tasks created during the call

ASSUME BoundAssumption == MaxTasks \in Nat \ {0}

Tasks == 1..MaxTasks    \* response tasks; a TTS session has the id of the
                        \* task that opened it
None == 0               \* no task, no session, no mark
Actors == {"main", "stt"}   \* who replaces and cancels responses

VARIABLES act,      \* where the receive loop and the transcription task are
          cur,      \* _response_task
          resp,     \* the response tasks
          cons,     \* the playback task of each streamed response
          playing,  \* _playing
          latest,   \* _playback_mark_name: the set of at most one mark
          waiters,  \* _pending_mark_events: who waits for its mark
          tts,      \* _active_tts_session
          closed,   \* TTS sessions that were closed
          line,     \* audio and marks at the carrier, not played yet
          acks,     \* marks on their way back
          talking,  \* _utterance holds speech
          ready,    \* _ready_utterance: stored for the transcription task, late:
                    \* after that task's own fallback
          completed,  \* _completed
          carrier   \* the call as the carrier sees it

vars == <<act, cur, resp, cons, playing, latest, waiters, tts, closed, line,
          acks, talking, ready, completed, carrier>>

\* What an actor does once a cancellation is over: go on listening, or create
\* a response.  fallback: the utterance of a transcription session that failed.
Plans == {"listen", "greeting", "turn", "utterance", "fallback"}
Creating == Plans \ {"listen"}

At(pc) == [pc |-> pc, victim |-> None, plan |-> "listen"]

\* hear: transcribing; switch, open: closing and opening TTS sessions; think:
\* the LLM streams; play: awaiting the playback task; voice: buffered speech
\* inside the transaction; unwind: closing the TTS session in the finally;
\* speak: synthesizing a line outside of it; pace: sending frames.
InTransaction == {"switch", "open", "think", "play", "voice"}
Pcs == {"unused", "queued", "hear", "unwind", "speak", "pace", "done"} \cup InTransaction

Response(k) ==
  [pc |-> IF k = "unused" THEN "unused" ELSE "queued", kind |-> k,
   doomed |-> FALSE,            \* cancelled
   session |-> None,            \* the TTS session it streams to
   part |-> "reply",            \* what it says: the reply or the goodbye
   then |-> "done",             \* where unwind leads
   ends |-> "no",               \* what the turn did to the conversation
   \* history of a streamed reply: its mark was played; its audio was wiped
   \* from the carrier; a clear or a mark meant for another response met it
   fate |-> "open",
   unheard |-> FALSE]           \* history: committed, with no such mark

\* The task returns: its locals are gone.
Ended(r) == [Response(IF r.kind = "greeting" THEN r.kind ELSE "turn") EXCEPT
               !.pc = "done", !.doomed = r.doomed, !.session = r.session,
               !.unheard = r.unheard]

\* Marks that still mean something: handling any other changes nothing, so
\* those are not kept.
Awaited(marks, ws, last) == {m \in marks : m \in last \/ (m.part = "reply" /\ m.of \in ws)}

Alive(t) == resp[t].pc \notin {"unused", "done"}
Running(t) == t # None /\ Alive(t)
Spoken(t, p) == [of |-> t, part |-> p, mark |-> FALSE]
Mark(t, p) == [of |-> t, part |-> p, mark |-> TRUE]
SttDone == act["stt"].pc = "ended"    \* or there is no such task

TypeOK ==
  /\ act \in [Actors -> [pc : {"accept", "greet", "listen", "cancelling", "clearing",
                               "teardown", "stopping", "waiting", "cleanup", "ended"},
                         victim : Tasks \cup {None}, plan : Plans]]
  /\ cur \in Tasks \cup {None}
  /\ resp \in [Tasks -> [pc : Pcs, kind : {"unused", "greeting", "turn", "utterance"},
                         doomed : BOOLEAN, session : Tasks \cup {None},
                         part : {"reply", "bye"}, then : {"done", "speak"},
                         ends : {"no", "completed", "abandoned"},
                         fate : {"open", "heard", "wiped", "met"}, unheard : BOOLEAN]]
  /\ cons \in [Tasks -> {"none", "speaking", "marked", "ended", "failed"}]
  /\ {playing, talking, completed} \subseteq BOOLEAN
  /\ ready \in {"none", "stored", "late"}
  /\ latest \cup acks \subseteq [of : Tasks, part : {"reply", "bye"}, mark : {TRUE}]
  /\ Cardinality(latest) <= 1
  /\ waiters \subseteq Tasks /\ closed \subseteq Tasks /\ tts \in Tasks \cup {None}
  /\ Len(line) <= 4 * MaxTasks
  /\ carrier \in {"up", "gone"}

Init ==
  /\ act = [main |-> At("accept"), stt |-> At("ended")]
  /\ cur = None /\ resp = [t \in Tasks |-> Response("unused")]
  /\ cons = [t \in Tasks |-> "none"]
  /\ playing = FALSE /\ latest = {} /\ waiters = {} /\ tts = None /\ closed = {}
  /\ line = <<>> /\ acks = {} /\ talking = FALSE /\ ready = "none"
  /\ completed = FALSE /\ carrier = "up"

-----------------------------------------------------------------------------
(* The carrier's end of the line *)

Send(items) == line' = IF carrier = "up" THEN line \o items ELSE line

\* The next frame is played, or the next mark reached and sent back.
PlayNext ==
  /\ carrier = "up" /\ line # <<>>
  /\ LET i == Head(line)
     IN  /\ line' = Tail(line)
         /\ acks' = acks \cup (IF i.mark THEN Awaited({i}, waiters, latest) ELSE {})
         /\ resp' = IF i.mark /\ i.part = "reply" /\ i.of \in waiters
                    THEN [resp EXCEPT ![i.of].fate = IF @ = "open" THEN "heard" ELSE @]
                    ELSE resp
  /\ UNCHANGED <<act, cur, cons, playing, latest, waiters, tts, closed, talking,
                 ready, completed, carrier>>

\* The caller hangs up, or the connection breaks.
CallerLeaves ==
  /\ carrier = "up" /\ carrier' = "gone" /\ line' = <<>> /\ acks' = {}
  /\ UNCHANGED <<act, cur, resp, cons, playing, latest, waiters, tts, closed, talking,
                 ready, completed>>

-----------------------------------------------------------------------------
(* Replacing and cancelling the response *)

\* A task that is not there yet for each actor about to create one.
Planned == {a \in Actors : act[a].plan \in Creating}
Unused == {t \in Tasks : resp[t].pc = "unused"}
Room == Cardinality(Unused) > Cardinality(Planned)
NextTasks == {t \in Unused : \A u \in Unused : t <= u}

Created(plan) == Response(IF plan = "fallback" THEN "utterance" ELSE plan)

\* The cancellation is over: the plan is carried out.  c and words are what
\* _response_task and _utterance hold by then.
Proceed(a, plan, rs, c, words) ==
  /\ \/ /\ plan \in Creating
        /\ \E t \in NextTasks : cur' = t /\ resp' = [rs EXCEPT ![t] = Created(plan)]
     \/ plan \notin Creating /\ cur' = c /\ resp' = rs
  /\ talking' = (words \/ (a = "main" /\ plan = "listen"))
  /\ act' = [act EXCEPT ![a] = At(IF plan = "fallback" THEN "teardown" ELSE "listen")]

\* Mutant of Doomed: the task is awaited but never cancelled.
DoomedNever(t) == resp
\* task.cancel()
Doomed(t) == [resp EXCEPT ![t].doomed = TRUE]

\* History: what is done to the line is not meant for these responses.
Met(rs, v) == [t \in Tasks |-> IF t # v /\ cons[t] # "none" /\ rs[t].pc # "done"
                               THEN [rs[t] EXCEPT !.fate = "met"] ELSE rs[t]]

\* Mutant of Silenced: playback stays on.
SilencedStillPlaying ==
  /\ UNCHANGED playing /\ latest' = {} /\ waiters' = {} /\ acks' = {}
  /\ tts' = None /\ closed' = closed \cup ({tts} \ {None})

\* The part of _clear_playback before its first await.
Silenced == /\ playing' = FALSE /\ latest' = {} /\ waiters' = {} /\ tts' = None
            /\ acks' = {}
            /\ closed' = closed \cup ({tts} \ {None})

\* _cancel_response(clear_provider=True), up to its first await.
Cancel(a, plan, words) ==
  \/ /\ Running(cur)
     /\ act' = [act EXCEPT ![a] = [pc |-> "cancelling", victim |-> cur, plan |-> plan]]
     /\ resp' = Doomed(cur) /\ cur' = None
     /\ talking' = words /\ UNCHANGED <<playing, latest, waiters, acks, tts, closed>>
  \/ /\ ~Running(cur) /\ playing
     /\ act' = [act EXCEPT ![a] = [pc |-> "clearing", victim |-> None, plan |-> plan]]
     /\ resp' = Met(resp, None) /\ cur' = None /\ talking' = words /\ Silenced
  \/ /\ ~Running(cur) /\ ~playing
     /\ Proceed(a, plan, resp, None, words)
     /\ UNCHANGED <<playing, latest, waiters, acks, tts, closed>>

\* What listening leaves alone, and what a cancellation changes.
Rest == <<cons, line, completed, carrier>>
Speech == <<cur, resp, playing, latest, waiters, acks, tts, closed>>

Cancellable(a) == a = "stt" => act["main"].pc # "stopping"

\* The cancelled response has ended; its audio is to be cleared.
CancelOver(a) ==
  /\ act[a].pc = "cancelling" /\ ~Alive(act[a].victim) /\ Cancellable(a)
  /\ act' = [act EXCEPT ![a].pc = "clearing"]
  /\ Silenced /\ resp' = Met(resp, act[a].victim)
  /\ UNCHANGED <<cur, talking, ready, Rest>>

\* The old session is closed and the carrier told to clear, which sends the
\* marks it drops back.
Clear(a) ==
  /\ act[a].pc = "clearing" /\ carrier = "up" /\ Cancellable(a)
  /\ LET items == {line[i] : i \in DOMAIN line}
         rs == [t \in Tasks |->
                 IF /\ cons[t] # "none" /\ Alive(t) /\ resp[t].fate # "met"
                    /\ \E i \in items : i.of = t /\ i.part = "reply"
                 THEN [resp[t] EXCEPT !.fate = "wiped"] ELSE resp[t]]
     IN  /\ line' = <<>> /\ acks' = acks \cup Awaited({i \in items : i.mark}, waiters, latest)
         /\ Proceed(a, act[a].plan, Met(rs, act[a].victim), cur, talking)
  /\ UNCHANGED <<cons, playing, latest, waiters, tts, closed, ready, completed, carrier>>

-----------------------------------------------------------------------------
(* The receive loop *)

Receiving == act["main"].pc = "listen" /\ carrier = "up"

\* The start event: the session row is stored, the transcription task created
\* if it is enabled, the greeting generated.
HandleStart ==
  /\ act["main"].pc = "accept" /\ carrier = "up"
  /\ \E stt \in {"ended", "listen"} :
       act' = [main |-> [At("greet") EXCEPT !.plan = "greeting"], stt |-> At(stt)]
  /\ UNCHANGED <<Speech, talking, ready, Rest>>

Greet ==
  /\ act["main"].pc = "greet" /\ Cancel("main", "greeting", talking)
  /\ UNCHANGED <<ready, Rest>>

\* A loud frame: the first of an utterance interrupts whatever is said.
HearSpeech ==
  /\ Receiving /\ ~talking
  /\ \/ (playing \/ Running(cur)) /\ Cancel("main", "listen", FALSE)
     \/ /\ ~playing /\ ~Running(cur)
        /\ talking' = TRUE /\ UNCHANGED <<act, Speech>>
  /\ UNCHANGED <<ready, Rest>>

\* Enough silence after enough speech: the utterance goes to the transcription
\* task if there is one, else to a response of its own.
EndUtterance ==
  /\ Receiving /\ talking
  /\ \/ /\ ~SttDone /\ talking' = FALSE
        /\ ready' = IF act["stt"].pc = "teardown" \/ act["stt"].plan = "fallback"
                    THEN "late" ELSE "stored"
        /\ UNCHANGED <<act, Speech>>
     \/ /\ SttDone /\ Room
        /\ Cancel("main", "utterance", FALSE) /\ UNCHANGED ready
  /\ UNCHANGED Rest

\* Too little speech is forgotten.
DropNoise ==
  /\ Receiving /\ talking /\ talking' = FALSE
  /\ UNCHANGED <<act, Speech, ready, Rest>>

\* _handle_playback_mark; the playback task that waits for the mark goes on.
HandleMark ==
  /\ Receiving
  /\ \E m \in acks :
       /\ acks' = acks \ {m}
       /\ cons' = [t \in Tasks |-> IF t = m.of /\ m.part = "reply" /\ t \in waiters
                                   THEN "ended" ELSE cons[t]]
       /\ waiters' = IF m.part = "reply" THEN waiters \ {m.of} ELSE waiters
       /\ playing' = (playing /\ m \notin latest) /\ latest' = latest \ {m}
       /\ resp' = IF m \in latest THEN Met(resp, m.of) ELSE resp
  /\ UNCHANGED <<act, cur, tts, closed, line, talking, ready, completed, carrier>>

\* The stop event, a broken connection, or a clear that fails on it: the
\* transcription task is cancelled, then the response, then all is closed.
EndCall ==
  /\ act["main"].pc \in {"accept", "listen", "clearing"} /\ carrier = "gone"
  /\ act' = [act EXCEPT !["main"] = At("stopping")]
  /\ talking' = FALSE /\ ready' = "none"     \* nobody reads these any more
  /\ UNCHANGED <<Speech, Rest>>

StopResponse ==
  /\ act["main"].pc = "stopping" /\ SttDone
  /\ cur' = None
  /\ \/ /\ Running(cur) /\ resp' = Doomed(cur)
        /\ act' = [act EXCEPT !["main"] = [At("waiting") EXCEPT !.victim = cur]]
     \/ /\ ~Running(cur) /\ UNCHANGED resp
        /\ act' = [act EXCEPT !["main"] = At("cleanup")]
  /\ UNCHANGED <<playing, latest, waiters, acks, tts, closed, talking, ready, Rest>>

ResponseStopped ==
  /\ act["main"].pc = "waiting" /\ ~Alive(act["main"].victim)
  /\ act' = [act EXCEPT !["main"] = At("cleanup")]
  /\ UNCHANGED <<Speech, talking, ready, Rest>>

\* Mutant of SessionLeft: the active session is left open.
SessionLeftOpen == closed
SessionLeft == closed \cup ({tts} \ {None})

Cleanup ==
  /\ act["main"].pc = "cleanup"
  /\ act' = [act EXCEPT !["main"] = At("ended")]
  /\ tts' = None /\ closed' = SessionLeft
  /\ UNCHANGED <<cur, resp, playing, latest, waiters, acks, talking, ready, Rest>>

-----------------------------------------------------------------------------
(* The realtime transcription task *)

Transcribing == act["stt"].pc = "listen" /\ Cancellable("stt")

\* vad.speech_start
SpeechStart ==
  /\ Transcribing /\ Cancel("stt", "listen", talking)
  /\ UNCHANGED <<ready, Rest>>

\* transcript.final: the local utterance is covered by it.
TranscriptFinal ==
  /\ Transcribing /\ Room
  /\ ready' = "none" /\ Cancel("stt", "turn", FALSE)
  /\ UNCHANGED Rest

\* Mutant of Waiting: the stored utterance is forgotten.
WaitingNever == FALSE
\* An utterance waits for the transcription that failed
\* (sarvam_realtime_stt_fallback_enabled is on, its default).
Waiting == ready # "none"

\* The session cannot be opened, ends, reports an error, or the clear of a
\* cancellation raises: an utterance that waits is transcribed by itself.
SttFails ==
  /\ Transcribing \/ (act["stt"].pc = "clearing" /\ carrier = "gone" /\ Cancellable("stt"))
  /\ \/ Waiting /\ Room /\ ready' = "none" /\ Cancel("stt", "fallback", talking)
     \/ /\ ~Waiting
        /\ act' = [act EXCEPT !["stt"] = At("teardown")]
        /\ UNCHANGED <<Speech, talking, ready>>
  /\ UNCHANGED Rest

\* The receive loop cancels the task, which first awaits the response it was
\* cancelling itself.
SttCancelled ==
  /\ act["main"].pc = "stopping"
  /\ \/ act["stt"].pc \in {"listen", "clearing"}
     \/ act["stt"].pc = "cancelling" /\ ~Alive(act["stt"].victim)
  /\ act' = [act EXCEPT !["stt"] = At("teardown")]
  /\ UNCHANGED <<Speech, talking, ready, Rest>>

\* The sender is cancelled and the session closed.
SttEnds ==
  /\ act["stt"].pc = "teardown"
  /\ act' = [act EXCEPT !["stt"] = At("ended")]
  /\ UNCHANGED <<Speech, talking, ready, Rest>>

-----------------------------------------------------------------------------
(* A response *)

Turning == <<act, cur, latest, waiters, line, acks, talking, ready, carrier>>
Working(t, pc) == resp[t].pc = pc /\ ~resp[t].doomed

\* The playback task is created; its first step, which turns playback on,
\* comes before anything the network has to bring.
StreamTo(t, session) ==
  /\ resp' = [resp EXCEPT ![t].pc = "think", ![t].session = session]
  /\ cons' = [cons EXCEPT ![t] = "speaking"] /\ playing' = TRUE

\* Use the open session, close one of another language, or open one.
JoinSession(t) ==
  \/ tts # None /\ StreamTo(t, tts) /\ UNCHANGED closed
  \/ /\ tts # None /\ closed' = closed \cup {tts}
     /\ resp' = [resp EXCEPT ![t].pc = "switch"] /\ UNCHANGED <<cons, playing>>
  \/ /\ tts = None
     /\ resp' = [resp EXCEPT ![t].pc = "open"] /\ UNCHANGED <<cons, closed, playing>>

Begin(t) ==
  /\ Working(t, "queued")
  /\ \/ resp[t].kind = "turn" /\ JoinSession(t)
     \/ /\ resp[t].kind # "turn"
        /\ resp' = [resp EXCEPT ![t].pc = IF resp[t].kind = "greeting" THEN "speak" ELSE "hear"]
        /\ UNCHANGED <<cons, closed, playing>>
  /\ UNCHANGED <<tts, completed, Turning>>

\* The utterance is transcribed, or the caller is asked to repeat it.
Hear(t) ==
  /\ Working(t, "hear")
  /\ \/ JoinSession(t)
     \/ resp' = [resp EXCEPT ![t].pc = "speak"] /\ UNCHANGED <<cons, closed, playing>>
  /\ UNCHANGED <<tts, completed, Turning>>

OldSessionClosed(t) ==
  /\ Working(t, "switch")
  /\ tts' = None /\ resp' = [resp EXCEPT ![t].pc = "open"]
  /\ UNCHANGED <<cons, closed, completed, playing, Turning>>

\* A session is opened and its playback task created; without one the reply
\* is synthesized as a whole.
OpenSession(t) ==
  /\ Working(t, "open")
  /\ \/ tts' = t /\ StreamTo(t, t)
     \/ resp' = [resp EXCEPT ![t].pc = "think"] /\ UNCHANGED <<tts, cons, playing>>
  /\ UNCHANGED <<closed, completed, Turning>>

\* process_turn returns, its text sent to the session as it came.
Think(t) ==
  /\ Working(t, "think") /\ resp[t].session \notin closed
  /\ \E e \in {"no", "completed", "abandoned"} :
       resp' = [resp EXCEPT ![t].pc = IF resp[t].session = None THEN "voice" ELSE "play",
                            ![t].ends = e]
  /\ UNCHANGED <<cons, tts, closed, completed, playing, Turning>>

\* The finally of _handle_transcript: whatever session is the active one is
\* closed, and the task goes on as r says.
Unwound(t, r) ==
  /\ resp' = [resp EXCEPT ![t] =
       IF tts # None THEN [r EXCEPT !.pc = "unwind"]
       ELSE IF r.then = "done" THEN Ended(r) ELSE [r EXCEPT !.pc = r.then]]
  /\ tts' = None /\ closed' = closed \cup ({tts} \ {None})

\* The reply was streamed and played: the turn is committed.
CommitStreamed(t) ==
  /\ Working(t, "play") /\ cons[t] = "ended"
  /\ LET r == [resp[t] EXCEPT !.unheard = (resp[t].fate \in {"open", "wiped"}),
                              !.fate = "open",
                              !.part = "bye", !.pc = "speak"]
     IN  resp' = [resp EXCEPT ![t] = IF r.ends = "no" THEN Ended(r) ELSE r]
  /\ cons' = [cons EXCEPT ![t] = "none"]
  /\ UNCHANGED <<tts, closed, completed, playing, Turning>>

\* The reply is synthesized as a whole, or fails to be, and the turn committed.
CommitBuffered(t) ==
  /\ Working(t, "voice")
  /\ \E p \in {"reply", "bye"} :
       /\ p = "bye" => resp[t].ends = "abandoned"
       /\ Unwound(t, [resp[t] EXCEPT !.part = p, !.then = "speak"])
  /\ UNCHANGED <<cons, completed, playing, Turning>>

\* How a playback task ended is of no interest once its response is over.
Outcome(how) == IF how # "speaking" THEN "none" ELSE how

\* The LLM, the session or its playback fails: the transaction rolls back.
FailTurn(t) ==
  /\ Working(t, "think") \/ (Working(t, "play") /\ cons[t] = "failed")
  /\ Unwound(t, resp[t])
  /\ cons' = [cons EXCEPT ![t] = Outcome(@)]
  /\ UNCHANGED <<completed, playing, Turning>>

\* What follows a spoken part: the goodbye after the reply that completed the
\* conversation, else the end.  _completed is set last of all.
Said(t) ==
  LET bye == resp[t].part = "reply" /\ resp[t].ends = "completed"
      final == resp[t].part = "bye" \/ resp[t].ends = "abandoned"
  IN  /\ resp' = [resp EXCEPT ![t] = IF bye THEN [@ EXCEPT !.pc = "speak", !.part = "bye"]
                                    ELSE Ended(@)]
      /\ completed' = (completed \/ final)

\* Mutant of Named: the name of an earlier mark is kept as well.
NamedToo(m) == latest \cup {m}
Named(m) == {m}

\* _stream_wav: the first frame, after the line was synthesized.
StartWav(t) ==
  /\ Working(t, "speak")
  /\ playing' = TRUE /\ latest' = {} /\ Send(<<Spoken(t, resp[t].part)>>)
  /\ resp' = [resp EXCEPT ![t].pc = "pace"]
  /\ acks' = Awaited(acks, waiters, {})
  /\ UNCHANGED <<act, cur, cons, waiters, tts, closed, talking, ready, completed, carrier>>

\* The rest of the frames and the mark, which nobody waits for; nothing more
\* once playback was stopped.
FinishWav(t) ==
  /\ Working(t, "pace") /\ Said(t)
  /\ IF playing THEN Send(<<Mark(t, resp[t].part)>>) /\ latest' = Named(Mark(t, resp[t].part))
     ELSE UNCHANGED <<line, latest>>
  /\ UNCHANGED <<act, cur, cons, playing, waiters, tts, closed, acks, talking, ready, carrier>>

\* The line cannot be synthesized, and is left out.
SkipWav(t) ==
  /\ Working(t, "speak") /\ Said(t)
  /\ UNCHANGED <<cons, tts, closed, playing, Turning>>

\* Sending fails on a broken connection.
BreakWav(t) ==
  /\ Working(t, "speak") \/ Working(t, "pace")
  /\ carrier = "gone"
  /\ resp' = [resp EXCEPT ![t] = Ended(@)]
  /\ UNCHANGED <<cons, tts, closed, completed, playing, Turning>>

SessionClosed(t) ==
  /\ resp[t].pc = "unwind"
  /\ resp' = [resp EXCEPT ![t] = IF @.doomed \/ @.then = "done" THEN Ended(@)
                                 ELSE [@ EXCEPT !.pc = "speak"]]
  /\ UNCHANGED <<cons, tts, closed, completed, playing, Turning>>

\* A cancelled response stops where it awaits; inside the transaction it rolls
\* back, takes the playback task it awaits along and closes the session.
Cancelled(t) ==
  /\ resp[t].doomed /\ resp[t].pc \notin {"unwind", "done"}
  /\ IF resp[t].pc \in InTransaction
     THEN Unwound(t, [resp[t] EXCEPT !.then = "done"])
     ELSE resp' = [resp EXCEPT ![t] = Ended(@)] /\ UNCHANGED <<tts, closed>>
  /\ cons' = [cons EXCEPT ![t] = IF resp[t].pc = "play" THEN "none" ELSE Outcome(@)]
  /\ waiters' = IF resp[t].pc = "play" THEN waiters \ {t} ELSE waiters
  /\ UNCHANGED <<act, cur, playing, latest, line, acks, talking, ready, completed, carrier>>

-----------------------------------------------------------------------------
(* The playback task of a streamed reply *)

Streaming == <<act, cur, resp, tts, closed, acks, talking, ready, completed, carrier>>

Stopped(t, how) == IF resp[t].pc \in {"think", "play"} THEN how ELSE "none"

\* Frames received from the session are sent as long as playback is on.
PlayFrames(t) ==
  /\ cons[t] = "speaking" /\ \A i \in DOMAIN line : line[i] # Spoken(t, "reply")
  /\ IF playing THEN Send(<<Spoken(t, "reply")>>) /\ UNCHANGED cons
     ELSE cons' = [cons EXCEPT ![t] = Stopped(t, "ended")] /\ UNCHANGED line
  /\ UNCHANGED <<playing, latest, waiters, Streaming>>

\* Mutant of MarkSent: nobody waits for the mark.
MarkSentOnly == "ended"
MarkSent == "marked"

\* The session has spoken all the text: the mark is sent and awaited.
FinishPlayback(t) ==
  /\ cons[t] = "speaking" /\ resp[t].pc = "play"
  /\ IF playing
     THEN /\ Send(<<Mark(t, "reply")>>) /\ latest' = Named(Mark(t, "reply"))
          /\ waiters' = waiters \cup {t} /\ cons' = [cons EXCEPT ![t] = MarkSent]
     ELSE cons' = [cons EXCEPT ![t] = "ended"] /\ UNCHANGED <<line, latest, waiters>>
  /\ UNCHANGED <<playing, Streaming>>

\* The session is closed or reports an error; the mark does not come in time.
FailPlayback(t) ==
  /\ cons[t] \in {"speaking", "marked"}
  /\ cons' = [cons EXCEPT ![t] = Stopped(t, "failed")]
  /\ waiters' = waiters \ {t}
  /\ UNCHANGED <<playing, latest, line, Streaming>>

-----------------------------------------------------------------------------
(* Specification *)

Answering(t) ==
  \/ Begin(t) \/ Hear(t) \/ OldSessionClosed(t) \/ OpenSession(t) \/ Think(t)
  \/ CommitStreamed(t) \/ CommitBuffered(t) \/ FailTurn(t)
  \/ StartWav(t) \/ FinishWav(t) \/ SkipWav(t) \/ BreakWav(t)
Stopping(t) == SessionClosed(t) \/ Cancelled(t)
Playback(t) == PlayFrames(t) \/ FinishPlayback(t) \/ FailPlayback(t)
Listening == HandleStart \/ HearSpeech \/ EndUtterance \/ DropNoise \/ HandleMark
Interrupting(a) == CancelOver(a) \/ Clear(a)
Ending == EndCall \/ StopResponse \/ ResponseStopped \/ Cleanup
Hearing == SpeechStart \/ TranscriptFinal \/ SttFails
SttEnding == SttCancelled \/ SttEnds

Next ==
  \/ PlayNext \/ CallerLeaves \/ Listening \/ Greet \/ Ending \/ Hearing \/ SttEnding
  \/ \E a \in Actors : Interrupting(a)
  \/ \E t \in Tasks : Answering(t) \/ Stopping(t) \/ Playback(t)

\* The loop runs what is ready, sockets close in bounded time and the greeting
\* comes or times out; nothing is promised of the caller, of the LLM or of
\* speech.
Fairness ==
  /\ WF_vars(Greet) /\ WF_vars(Ending) /\ WF_vars(SttEnding)
  /\ \A a \in Actors : WF_vars(Interrupting(a))
  /\ \A t \in Tasks : WF_vars(Stopping(t))

Spec == Init /\ [][Next]_vars /\ Fairness

-----------------------------------------------------------------------------
(* Properties *)

\* Responses that run although nobody holds them to cancel them any more.
Orphans == {t \in Tasks : Alive(t) /\ ~resp[t].doomed /\ t # cur}

\* A response o that a greeting replaced without cancelling it.
Passed(o) == \E g \in Tasks : o < g /\ resp[g].kind = "greeting" /\ ~resp[o].doomed

\* One response at a time: a second one runs only if a caller spoke while the
\* greeting was prepared, and the receive loop and the transcription task each
\* created a response (_replace_response); one of the two is the greeting.
OneResponse ==
  /\ Cardinality(Orphans) <= 1
  /\ \A o \in Orphans : resp[o].kind = "greeting" \/ Passed(o)

\* A streamed turn is committed only after the caller heard its reply to the
\* end, unless a clear or a mark meant for another response met it.
RecordedWasHeard ==
  \A t \in Tasks : ~resp[t].unheard

\* A cancelled response is silent once its cancellation is over: its audio
\* reaches the line again only if another response turned playback on while
\* its playback task slept between two frames (_clear_playback, the checks of
\* _playing).
SilencedStaysSilent ==
  \A i \in DOMAIN line : LET t == line[i].of IN
    resp[t].pc = "done" /\ resp[t].doomed
      => \/ \E a \in Actors : act[a].pc \in {"cancelling", "clearing"}
         \/ \E u \in Tasks \ {t} : resp[u].pc \notin {"unused", "queued"}

\* An utterance handed to the transcription task is not lost with that task,
\* unless it came after the task had failed (_run_realtime_stt's fallback, and
\* the done() the receive loop asks for).
UtteranceRescued ==
  act["stt"].pc = "ended" /\ act["main"].pc = "listen" => ready # "stored"

\* When the call is over no response runs and no speech session is open,
\* unless there was a second response (run's finally, _cleanup).
NothingLeft ==
  act["main"].pc = "ended" /\ Orphans = {} /\ (\A o \in Tasks : Alive(o) \/ ~Passed(o))
    => /\ \A t \in Tasks : ~Alive(t)
       /\ {resp[t].session : t \in Tasks} \subseteq closed \cup {None}

\* Once the caller is gone the session ends, whatever it was waiting for
\* (run's finally: every wait is for a cancelled task or a closing socket).
CallEnds == carrier = "gone" ~> act["main"].pc = "ended"

\* "hangs up when the lead conversation completes" (call_manager.py:8): a call
\* whose conversation completed does not stay up.
HangsUp == completed ~> carrier = "gone"

=============================================================================

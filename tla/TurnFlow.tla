------------------------------ MODULE TurnFlow ------------------------------
(***************************************************************************)
(* One phone call driven by Twilio <Gather>: the webhooks /turn and        *)
(* /turn-result, the background job each transcript starts, the table of   *)
(* pending turns, and the sessions the jobs store.                         *)
(*                                                                         *)
(* Twilio executes one document at a time and waits for one webhook.  When *)
(* the tunnel answers 5xx it sends the same request again (rp=ct,5xx of    *)
(* WEBHOOK_CONNECTION_OVERRIDES) while the first handler may still run.    *)
(* Handlers and jobs are asyncio tasks of one event loop: a step here is   *)
(* what a task does between two awaits.                                    *)
(***************************************************************************)
EXTENDS Naturals, FiniteSets

CONSTANTS MaxTurns,     \* bound: jobs started during the call
          MaxSessions,  \* bound: session ids the call uses
          MaxWebhooks,  \* bound: handlers at a time
          MaxPolls,     \* MAX_TURN_POLLS
          PromptAfter,  \* gather_empty_prompt_after
          MaxTroubles   \* bound: requests sent again, and restarts

ASSUME BoundAssumption ==
  /\ {MaxTurns, MaxSessions, MaxWebhooks, MaxPolls, PromptAfter} \subseteq Nat \ {0}
  /\ MaxTroubles \in Nat

Turns == 1..MaxTurns        \* a pending turn and its token
Sessions == 1..MaxSessions
Webhooks == 1..MaxWebhooks
None == 0                   \* no turn, no session, no webhook

VARIABLES leg,      \* the document Twilio executes, or the request it waits for
          web,      \* the handler in each place
          slot,     \* _pending_turns of the call: a token or None
          turn,     \* the pending turns and their jobs
          known,    \* session_id of the call's record: a session or None
          stored,   \* the committed sessions
          empties,  \* empty_listen_count of the record: misses before the
                    \* next one, as many as make no difference
          frozen,   \* the event loop is blocked in a database call for good
          resends, restarts   \* how often a request was repeated, the server died

vars == <<leg, web, slot, turn, known, stored, empties, frozen, resends, restarts>>

\* queued: created, before its first step; thinking: the LLM streams;
\* voicing: the first sentence is synthesized; replying: the rest is, within
\* the transaction; closing: the goodbye is, after the commit.
Running == {"queued", "thinking", "voicing", "replying", "closing"}
InSpeech == {"voicing", "replying", "closing"}

TurnStates ==
  [job : Running \cup {"unused", "ended"}, sid : Sessions \cup {None},
   shut : BOOLEAN,            \* the session was closed when the job read it
   early : {"none", "ready", "taken"}, trimmed : BOOLEAN,
   done : BOOLEAN, twiml : {"none", "gather", "hangup"},
   polls : 0..(MaxPolls + 1 + MaxTroubles),  \* one more when the sentence came last
   \* history: committed; dropped from the table while its job had ended or
   \* was running
   kept : BOOLEAN, dropped : {"no", "ended", "running"}]

Unused == [job |-> "unused", sid |-> None, shut |-> FALSE, early |-> "none",
           trimmed |-> FALSE, done |-> FALSE, twiml |-> "none", polls |-> 0,
           kept |-> FALSE, dropped |-> "no"]
NewTurn == [Unused EXCEPT !.job = "queued"]

\* The job returns or raises: its locals are gone.
Ended(t) == [t EXCEPT !.job = "ended", !.sid = None, !.shut = FALSE]

Idle == [kind |-> "idle", tok |-> None]
Handling(k, u) == [kind |-> k, tok |-> u]

Leg(at, k, u, w) == [at |-> at, kind |-> k, tok |-> u, web |-> w]
Playing(k, u) == Leg("listening", k, u, None)
Silent == Playing("idle", None)
Over == Leg("over", "idle", None, None)
Following(u) == Leg("following", "result", u, None)
Fetching(k, u, w) == Leg("fetching", k, u, w)

TypeOK ==
  /\ leg \in [at : {"ringing", "listening", "fetching", "following", "over"},
              kind : {"idle", "turn", "silence", "result", "answer", "again"},
              tok : Turns \cup {None}, web : Webhooks \cup {None}]
  /\ web \in [Webhooks -> [kind : {"idle", "turn", "silence", "result"},
                           tok : Turns \cup {None}]]
  /\ slot \in Turns \cup {None}
  /\ turn \in [Turns -> TurnStates]
  /\ known \in Sessions \cup {None}
  /\ stored \in [Sessions -> {"none", "open", "closed"}]
  /\ empties \in 0..(PromptAfter - 1)
  /\ frozen \in BOOLEAN
  /\ {resends, restarts} \subseteq 0..MaxTroubles

Init ==
  /\ leg = Leg("ringing", "idle", None, None)
  /\ web = [w \in Webhooks |-> Idle]
  /\ slot = None /\ turn = [u \in Turns |-> Unused]
  /\ known = None /\ stored = [s \in Sessions |-> "none"]
  /\ empties = 0 /\ frozen = FALSE /\ resends = 0 /\ restarts = 0

-----------------------------------------------------------------------------
(* The call's session *)

\* db.get: only committed rows are found.
Found == known # None /\ stored[known] # "none"

\* A new id: one that no row, no job and no record uses.
FreshSessions ==
  LET free == {s \in Sessions : /\ stored[s] = "none" /\ s # known
                                /\ \A u \in Turns : turn[u].job \in Running
                                                      => turn[u].sid # s}
  IN  {s \in free : \A t \in free : s <= t}

\* The caller's session is used, or one is created and committed at once.
StoreSession ==
  IF Found THEN UNCHANGED <<known, stored>>
  ELSE \E s \in FreshSessions :
         known' = s /\ stored' = [stored EXCEPT ![s] = "open"]

-----------------------------------------------------------------------------
(* Cancellation and the table of pending turns *)

\* Mutant of Cancelled: the entry is dropped, its task runs on.
CancelledNever(t) == {t}

\* What becomes of a job that is cancelled.  Before its first step it never
\* sets done; in the LLM call it rolls back; in _stream_tts it either swallows
\* the cancellation and goes on, or, already in the buffered fallback, ends.
Cancelled(t) ==
  LET running == [t EXCEPT !.dropped = "running"]
      ended == [Ended(running) EXCEPT !.done = (t.job # "queued")]
  IN  IF t.job \notin Running THEN {[t EXCEPT !.dropped = "ended"]}
      ELSE {ended} \cup (IF t.job \in InSpeech THEN {running} ELSE {})

\* The turns after the pending entry is popped and its task cancelled.
Dropped == IF slot = None THEN {turn}
           ELSE {[turn EXCEPT ![slot] = t] : t \in Cancelled(turn[slot])}

\* A hang-up or a new outbound call through the API drops the pending turn,
\* and so does the sweep another call's webhook makes.
Discard ==
  /\ ~frozen /\ slot # None
  /\ turn' \in Dropped /\ slot' = None
  /\ UNCHANGED <<leg, web, known, stored, empties, frozen, resends, restarts>>

-----------------------------------------------------------------------------
(* Webhook handlers *)

\* The handler in w answers.  Twilio executes the document, unless it gave up
\* on this request or the call is over.
Respond(w, document) ==
  /\ web' = [web EXCEPT ![w] = Idle]
  /\ leg' = IF leg.at = "fetching" /\ leg.web = w THEN document ELSE leg

\* A place for a handler: the first one that is free.
Free(w) == web[w] = Idle /\ \A v \in 1..(w - 1) : web[v] # Idle

\* The greeting is served and its text stored as a session's first message.
Greet ==
  /\ ~frozen /\ leg.at = "ringing"
  /\ leg' = Silent
  /\ StoreSession
  /\ UNCHANGED <<web, slot, turn, empties, frozen, resends, restarts>>

\* /turn with a transcript: the pending turn is replaced and a job created.
StartTurn(w) ==
  \E u \in Turns :
    /\ turn[u] = Unused /\ \A v \in 1..(u - 1) : turn[v] # Unused
    /\ \E rest \in Dropped : turn' = [rest EXCEPT ![u] = NewTurn]
    /\ slot' = u /\ empties' = 0
    /\ web' = [web EXCEPT ![w] = Handling("turn", u)]
    /\ leg' = Fetching("turn", u, w)
    /\ UNCHANGED <<known, stored>>

\* /turn without a transcript: silence at first, later a prompt is synthesized.
HearSilence(w) ==
  /\ StoreSession
  /\ IF empties + 1 < PromptAfter
     THEN empties' = empties + 1 /\ leg' = Silent /\ UNCHANGED web
     ELSE /\ UNCHANGED empties
          /\ leg' = Fetching("silence", None, w)
          /\ web' = [web EXCEPT ![w] = Handling("silence", None)]
  /\ UNCHANGED <<slot, turn>>

\* Mutant of Polled: the polls are not counted.
PolledNever(t) == t

Polled(t) == [t EXCEPT !.polls = @ + 1]

\* /turn-result: a token that is not pending asks the caller to repeat.
StartPoll(w, u) ==
  /\ IF slot = u
     THEN /\ turn' = [turn EXCEPT ![u] = Polled(@)]
          /\ web' = [web EXCEPT ![w] = Handling("result", u)]
          /\ leg' = Fetching("result", u, w)
     ELSE leg' = Playing("again", u) /\ UNCHANGED <<web, turn>>
  /\ UNCHANGED <<slot, known, stored, empties>>

\* Mutant of Exhausted: no limit.
ExhaustedNever(t) == FALSE

Exhausted(t) == t.polls >= MaxPolls

\* _wait_for_pending_progress returns "timeout": redirect to the result, or,
\* after MaxPolls polls, drop the call's pending turn, whichever that is now.
TimeOut(w) ==
  LET u == web[w].tok IN
  /\ ~frozen /\ web[w].kind \in {"turn", "result"}
  /\ IF web[w].kind = "result" /\ Exhausted(turn[u])
     THEN Respond(w, Playing("again", u)) /\ turn' \in Dropped /\ slot' = None
     ELSE Respond(w, Following(u)) /\ UNCHANGED <<turn, slot>>
  /\ UNCHANGED <<known, stored, empties, frozen, resends, restarts>>

\* It returns "early": the first sentence is played, once.
SpeakEarly(w) ==
  LET u == web[w].tok IN
  /\ ~frozen /\ web[w].kind \in {"turn", "result"} /\ turn[u].early = "ready"
  /\ turn' = [turn EXCEPT ![u].early = "taken"]
  /\ Respond(w, Following(u))
  /\ UNCHANGED <<slot, known, stored, empties, frozen, resends, restarts>>

\* Mutant of Progressed: a finished turn is served before its first sentence.
ProgressedDone(t) == t.done

\* It returns "done" only when no first sentence is left to play.
Progressed(t) == t.done /\ t.early # "ready"

\* The turn is done: the entry is popped by call id, whichever token it holds
\* by now, and the document served, or the caller asked to repeat.
ServeAnswer(w) ==
  LET u == web[w].tok IN
  /\ ~frozen /\ web[w].kind \in {"turn", "result"} /\ Progressed(turn[u])
  /\ slot' = None
  /\ Respond(w, IF turn[u].twiml = "none" THEN Playing("again", u)
                ELSE IF turn[u].twiml = "gather" THEN Playing("answer", u)
                ELSE Leg("over", "answer", u, None))
  /\ UNCHANGED <<turn, known, stored, empties, frozen, resends, restarts>>

\* The prompt after silence is synthesized, or spoken by Twilio.
SpeakPrompt(w) ==
  /\ ~frozen /\ web[w].kind = "silence"
  /\ Respond(w, Silent)
  /\ UNCHANGED <<slot, turn, known, stored, empties, frozen, resends, restarts>>

Progress(w) == TimeOut(w) \/ SpeakEarly(w) \/ ServeAnswer(w) \/ SpeakPrompt(w)

-----------------------------------------------------------------------------
(* Twilio *)

\* Gather ends: the caller spoke, or did not.
Speak(w) ==
  /\ ~frozen /\ leg.at = "listening" /\ Free(w)
  /\ StartTurn(w) \/ HearSilence(w)
  /\ UNCHANGED <<frozen, resends, restarts>>

\* The first sentence and the pause are over: the redirect is fetched.
Follow(w) ==
  /\ ~frozen /\ leg.at = "following" /\ Free(w)
  /\ StartPoll(w, leg.tok)
  /\ UNCHANGED <<frozen, resends, restarts>>

\* The tunnel failed the request; the same one is sent again.
Resend(w) ==
  /\ ~frozen /\ leg.at = "fetching" /\ Free(w)
  /\ resends + restarts < MaxTroubles /\ resends' = resends + 1
  /\ \/ leg.kind = "turn" /\ StartTurn(w)
     \/ leg.kind = "silence" /\ HearSilence(w)
     \/ leg.kind = "result" /\ StartPoll(w, leg.tok)
  /\ UNCHANGED <<frozen, restarts>>

\* Nobody will answer the request: Twilio ends the call.
GiveUp ==
  /\ \/ leg.at \in {"fetching", "following"} /\ frozen
     \/ leg.at = "fetching" /\ leg.web = None
  /\ leg' = Over
  /\ UNCHANGED <<web, slot, turn, known, stored, empties, frozen, resends, restarts>>

HangUp ==
  /\ leg.at # "over" /\ leg' = Over
  /\ UNCHANGED <<web, slot, turn, known, stored, empties, frozen, resends, restarts>>

-----------------------------------------------------------------------------
(* The job of a turn *)

\* Mutant of Registered: the record does not learn the new session.
RegisteredNever(s) == known

Registered(s) == s

\* Mutant of Closed: the status is not looked at.
ClosedNever(s) == FALSE

Closed(s) == stored[s] = "closed"

\* The session is read, or created in the transaction that has just begun;
\* the record names it at once.
BeginJob(u) ==
  /\ ~frozen /\ turn[u].job = "queued"
  /\ \E s \in IF Found THEN {known} ELSE FreshSessions :
       /\ turn' = [turn EXCEPT ![u].job = "thinking", ![u].sid = s,
                               ![u].shut = Closed(s)]
       /\ known' = Registered(s)
  /\ UNCHANGED <<leg, web, slot, stored, empties, frozen, resends, restarts>>

\* speak_early: a first sentence is complete and goes to synthesis.
BeginEarly(u) ==
  /\ ~frozen /\ turn[u].job = "thinking" /\ turn[u].early = "none"
  /\ turn' = [turn EXCEPT ![u].job = "voicing"]
  /\ UNCHANGED <<leg, web, slot, known, stored, empties, frozen, resends, restarts>>

\* It has audio, or it has not and the answer will be spoken whole.
EndEarly(u, audio) ==
  /\ ~frozen /\ turn[u].job = "voicing"
  /\ turn' = [turn EXCEPT ![u].job = "thinking",
                          ![u].early = IF audio THEN "ready" ELSE "none"]
  /\ UNCHANGED <<leg, web, slot, known, stored, empties, frozen, resends, restarts>>

\* The session after a commit: a column the job did not change is not written.
Committed(s, closes) ==
  [stored EXCEPT ![s] = IF closes \/ @ = "closed" THEN "closed" ELSE "open"]

\* Another transaction keeps rows of the session locked while it awaits speech.
RowsHeld(u) ==
  \E v \in Turns \ {u} : turn[v].job = "replying" /\ turn[v].sid = turn[u].sid

\* process_turn returns.  An answer that ends the conversation is committed
\* first and spoken afterwards; any other is spoken first, if anything of it
\* is left to speak.
Answer(u) ==
  /\ ~frozen /\ turn[u].job = "thinking"
  /\ \E trims \in IF turn[u].early = "none" THEN {FALSE} ELSE BOOLEAN :
       \/ /\ stored' = Committed(turn[u].sid, TRUE)
          /\ turn' = [turn EXCEPT ![u].job = "closing", ![u].kept = TRUE,
                                  ![u].trimmed = trims]
       \/ /\ ~turn[u].shut
          /\ turn' = [turn EXCEPT ![u].job = "replying", ![u].trimmed = trims]
          /\ UNCHANGED stored
       \/ /\ ~turn[u].shut /\ trims
          /\ stored' = Committed(turn[u].sid, FALSE)
          /\ turn' = [turn EXCEPT ![u] = [Ended(@) EXCEPT !.kept = TRUE,
                          !.trimmed = TRUE, !.done = TRUE, !.twiml = "gather"]]
  /\ UNCHANGED <<leg, web, slot, known, empties, frozen, resends, restarts>>

\* The flush waits for the rows of a transaction that can only go on when
\* this very call returns.
Freeze(u) ==
  /\ ~frozen /\ turn[u].job = "thinking" /\ RowsHeld(u)
  /\ frozen' = TRUE
  /\ UNCHANGED <<leg, web, slot, turn, known, stored, empties, resends, restarts>>

\* The reply is synthesized and the transaction committed.
EndReply(u) ==
  /\ ~frozen /\ turn[u].job = "replying"
  /\ stored' = Committed(turn[u].sid, FALSE)
  /\ turn' = [turn EXCEPT ![u] = [Ended(@) EXCEPT !.kept = TRUE,
                                     !.done = TRUE, !.twiml = "gather"]]
  /\ UNCHANGED <<leg, web, slot, known, empties, frozen, resends, restarts>>

EndClosing(u) ==
  /\ ~frozen /\ turn[u].job = "closing"
  /\ turn' = [turn EXCEPT ![u] = [Ended(@) EXCEPT !.done = TRUE,
                                                 !.twiml = "hangup"]]
  /\ UNCHANGED <<leg, web, slot, known, stored, empties, frozen, resends, restarts>>

\* An exception: what is not committed is rolled back, error is set.
FailJob(u) ==
  /\ ~frozen /\ turn[u].job \in Running
  /\ turn' = [turn EXCEPT ![u] = [Ended(@) EXCEPT !.done = TRUE]]
  /\ UNCHANGED <<leg, web, slot, known, stored, empties, frozen, resends, restarts>>

RunJob(u) ==
  \/ BeginJob(u) \/ BeginEarly(u) \/ (\E a \in BOOLEAN : EndEarly(u, a))
  \/ Answer(u) \/ Freeze(u) \/ EndReply(u) \/ EndClosing(u) \/ FailJob(u)

-----------------------------------------------------------------------------

\* The process dies: the table, the record, handlers and jobs are gone, and
\* the rows that were not committed.
Restart ==
  /\ resends + restarts < MaxTroubles /\ restarts' = restarts + 1
  /\ web' = [w \in Webhooks |-> Idle]
  /\ leg' = [leg EXCEPT !.web = None]
  /\ slot' = None /\ known' = None /\ empties' = 0 /\ frozen' = FALSE
  /\ turn' = [u \in Turns |-> IF turn[u] = Unused THEN Unused
        ELSE [Unused EXCEPT !.job = "ended", !.kept = turn[u].kept,
                            !.dropped = turn[u].dropped]]
  /\ UNCHANGED <<stored, resends>>

Next ==
  \/ \E w \in Webhooks : Speak(w) \/ Follow(w) \/ Resend(w) \/ Progress(w)
  \/ \E u \in Turns : RunJob(u)
  \/ Greet \/ Discard \/ GiveUp \/ HangUp \/ Restart

\* A handler waits for a bounded time, and Twilio goes on.  Nothing is
\* promised of the LLM, of speech synthesis or of the caller.
Spec == /\ Init /\ [][Next]_vars
        /\ \A w \in Webhooks : WF_vars(Progress(w))
        /\ WF_vars(\E w \in Webhooks : Follow(w))
        /\ WF_vars(GiveUp)

-----------------------------------------------------------------------------
(* Properties *)

Calm == resends = 0 /\ restarts = 0
Alive(u) == turn[u].job \in Running
Survivor(u) == turn[u].dropped = "running" /\ (Alive(u) \/ turn[u].kept)

\* An answer whose first sentence was cut off is played only after some handler
\* has taken that sentence, by Twilio's first request or by a repeated one
\* (turn_flow.py:264-306).
HeadBeforeTail ==
  leg.kind = "answer" /\ turn[leg.tok].trimmed => turn[leg.tok].early = "taken"

\* The caller is asked to repeat something the conversation has recorded only
\* when its turn was dropped or failed afterwards, a request was sent twice
\* or the server restarted (turn_flow.py:852-863, 918-958).
AnswerNotWithheld ==
  leg.kind = "again" /\ turn[leg.tok].kept /\ Calm
    => turn[leg.tok].dropped # "no" \/ turn[leg.tok].twiml = "none"

\* Two jobs of one call run at a time only when one of them swallowed its
\* cancellation or a request was sent twice (turn_flow.py:687-690, 786).
OneJobAtATime ==
  \A u, v \in Turns :
    u # v /\ Alive(u) /\ Alive(v) /\ resends = 0
      => Survivor(u) \/ Survivor(v)

\* A call's conversation is split over two sessions only by a restart, a
\* request sent twice, or a job that survived its cancellation
\* (turn_flow.py:585-628, 991-997).
OneSession ==
  resends = 0 /\ ~(\E u \in Turns : Survivor(u))
    => Cardinality({s \in Sessions : stored[s] # "none"}) <= 1 + restarts

\* No answer goes on with a conversation that is recorded as closed, unless a
\* job survived its cancellation or a request was sent twice
\* (turn_flow.py:1100-1115, 1161-1198).
OpenWhileListening ==
  leg.at = "listening" /\ leg.kind = "answer" /\ Found /\ resends = 0
    => stored[known] = "open" \/ \E u \in Turns : Survivor(u)

\* The server never blocks for good on its own locks, unless a job survived
\* its cancellation or a request was sent twice (turn_flow.py:450, 1068).
FreezeNeedsSurvivor ==
  frozen /\ resends = 0 => \E u \in Turns : Survivor(u)

\* However slow the LLM, the caller is listened to again or the call ends
\* (turn_flow.py:918-937).
Waiting == leg.at \in {"fetching", "following"}
CallerIsAnswered == Waiting ~> ~Waiting
=============================================================================

# TLA+ verification of the Sarvam Cloud Lead Agent

The lead agent holds a qualification conversation by browser or by telephone,
extracts lead data from each LLM reply, moves a sales-pipeline state machine,
asks for consent, shows a summary and records how the conversation ended. This
directory models its control logic in TLA+, model-checks it with TLC on small
instances and proves the main results for every instance with TLAPS.
`PROJECT.json` lists components, runs, mutants, source lines of every
definition, findings, hazards and theorems.

## The system

| Component | State it keeps | Operations | What makes it correct |
| --- | --- | --- | --- |
| Conversation engine (`conversation.py`) | session row, lead row | `process_turn`, `handle_confirmation` | rows tell one end; consent flag follows the answer; refused columns are empty |
| State machine (`state_machine.py`) | none | `transition_allowed`, `default_next_state` | never rewinds; summary after an accepted consent answer; completion after everything |
| Validation, scoring | none | classifiers, `completion_basics_met`, score | used as guards above |
| LLM reply parsing (`llm_parsing.py`) | none | parse, normalise, salvage | only known states and columns get through |
| Database (`database.py`) | committed rows, row locks, pool | `session_scope` | overlapping requests keep the rows consistent and end |
| REST API (`api/routes.py`) | none of its own | create, audio, message, confirm, reset, delete | each request one transaction |
| TurnFlow (`telephony/turn_flow.py`) | pending turns, TTS streams, greeting cache | voice, turn and poll webhooks, turn job, audio GET | each utterance answered once; superseded jobs leave no trace; a named caller is greeted by name |
| CallSession (`telephony/call_manager.py`) | response task, playback state, utterance, realtime sessions, marks | media, marks, transcription events, barge-in, cleanup | one response at a time; silence after an interruption; a turn is recorded if it was heard; hang-up at the end |
| Call registry, call routes, carrier services | call records, the engine's call profile | place, hang up, status callbacks | one active call; a finished call is not shown as active; a lead has its own facts |
| Transports (`telephony/transport.py`) | frame buffer, marks | send, clear, mark | what is sent is the present reply, whole and in order; after a clear nothing old is played |
| LLM client (`providers/llm_client.py`), JSON extractor and chunker (`streaming_json.py`) | attempts; text buffers | stream, retry; feed, finish | one answer is told, without repetition or gap, and without waiting for its end |
| Speech client (`providers/sarvam_client.py`) | sockets, retry counters | realtime sessions, requests | closing a session ends its reader |
| Metrics, rate limiter, language rules | per-turn timings; request windows | record, check | stored once; window respected |
| Audio, exports, prompts, profile, persona, sentiment, config, benchmark, frontend | none or static | formatting and I/O | not modelled (`PROJECT.json` says why for each) |

The browser calls the REST API, which calls the engine inside one database
transaction per request. Twilio Gather webhooks go to TurnFlow, media streams to
a CallSession; both call the same engine with transactions of their own. The
engine holds one call profile, which every placed call and every greeting
webhook replaces. All
`async` handlers share one event loop, on which the database driver is
synchronous; `def` handlers (reset, delete, reads) run in worker threads. Hard
behaviour: requests that overlap at each `await` (transcription, LLM, speech),
webhooks delivered twice or late, timeouts racing answers, tasks cancelled in
the middle, and legal request sequences that reach states no single handler
foresees. `hazards` in `PROJECT.json` lists each at its line.

## Modules

| Module | Models | State and actions |
| --- | --- | --- |
| `LeadRules` | the rules of one turn as operators: state machine, extraction merge, consent flag, completion gate, confirmation, reset | none (pure) |
| `Conversation` | one session, requests one at a time | `row` (session row joined with lead row), `history` (audit rows of the last request); `Turn(reply)` for every possible reply, `Confirm`, `Reset` |
| `LeadLifecycle` | abstract specification: what a session promises | `phase`, `agreed`, `outcome`; talk, ask, present, finish, close, drop, reopen |
| `LeadRulesProofs`, `ConversationProofs` | facts about the rules, proofs about `Conversation` | |
| `SessionRequests` | overlapping requests on one session in PostgreSQL | `row`, `exists`, `req` (each request's place in its handler and its loaded and changed rows), `locks`, `loop`; load, answer, lock, flush, speak, commit, deadlock |
| `TurnFlow` | one phone call by Twilio Gather: webhooks, pending turns, jobs | `leg` (the document Twilio executes or the request it waits for), `web` (handlers), `slot` (`_pending_turns`), `turn` (PendingTurn and its job), `known`, `stored` (session id of the record, committed sessions), `empties`, `frozen`, `resends`, `restarts`; an action per stretch between two awaits of a webhook or a job, and Twilio's actions |
| `MCSessionRequests` | small instance of `SessionRequests` | start rows and replies |
| `SessionRequestsProofs`, `TurnFlowProofs`, `CallSessionProofs`, `AudioPathProofs`, `OutboundCallsProofs`, `ReplyStreamProofs` | proofs about the module of that name, with its inductive invariant | |
| `CallSession` | one call over a media stream: receive loop, transcription task, response tasks, playback tasks, the carrier's end of the line | `act` (where the two loops are, and what a cancellation of theirs is for), `cur` (`_response_task`), `resp`, `cons` (playback task of each streamed response), `playing`, `latest`, `waiters` (marks), `tts`, `closed`, `line`, `acks`, `talking`, `ready`, `completed`, `carrier`; an action per stretch between two awaits |
| `AudioPath` | the frames of one call: local utterance detection, barge-in, Exotel's framing of replies | `words`, `speech`, `silence`, `ready`, `stt`, `response`, `playing`, `made`, `buffer`, `inhand`, `line`; an action per frame, event and payload |
| `OutboundCalls` | placing and ending calls: registry, carriers, callbacks, greeting webhook and cache, shared profile and all that fill a lead from it | `place`, `leg`, `news`, `hook`, `rec`, `stream`, `profile`, `cache`, `scheduled`, `build`, `served`, `jobs`, `lead`; the handlers, the carrier, the builds, the turns |
| `MCOutboundCalls` | `OutboundCalls` with symmetric calls, and without names | |
| `SpokenReply` | abstract specification: what a streamed reply promises the caller | `answer`, `told`, `end`; begin, tell, end |
| `ReplyStream` | a reply streamed by the LLM: attempts, events, parser, chunker, first sentence | `phase`, `attempt`, `message`, `sent`, `parser`, `heard`, `buffer`, `chunks`, `first`; request, event, failure, end |
| `MCReplyStream` | `ReplyStream` with all short messages | |

How they compose. `Conversation` and `SessionRequests` share `LeadRules`.
`TurnFlow` and `CallSession` are two drivers of the same engine and abstract a
turn to what it does to the conversation. `AudioPath` takes the cancellation of
a response as one step, whose inside is `CallSession`; both have the fields
`_playing`, `_utterance` and `_ready_utterance` of one call. `ReplyStream` is the
inside of `CallSession`'s `Think` and of `TurnFlow`'s early sentence.
`OutboundCalls` has the calls that `TurnFlow` (greeting webhook) and
`CallSession` (stream) serve.

Correspondence and abstractions:

- `row` holds the session columns `current_state` (`state`), `status`,
  `skipped_fields` and the lead columns that matter: `fields`,
  `conversation_status` (`outcome`; `in_progress` is written `active`),
  `consent_confirmed` (`consented`) and `summary_confirmed` (`reviewed`).
  Messages, language, score, timings are left out; no guard of the modelled
  handlers reads them.
- A text is one of the classes the code tells apart: valid or not for the
  column, and for the consent column `yes` (says yes), `no`, `maybe` (a text that
  does not say yes, but in which the substring search of `is_decisive_yes` finds a
  yes token, such as "maybe" or "no way") and `vague`. The engine takes `yes` and
  `maybe` for consent (`ConsentBool`), and so do `SummaryNeedsAcceptedAnswer`,
  `CompletedByTurnMeetsCriteria` and the refinement, which speak of the engine's
  own reading; `SummaryNeedsYes` is the property of the documentation, and fails.
- A reply of the LLM is arbitrary: any edit of at most `MaxEdits` columns, any
  suggested state or none, any `conversation_complete`. What the parser and the
  salvage of a forgotten name or of a bogus e-mail refusal do to the extracted
  fields is a choice among edits.
- `Turn` is the whole of `process_turn` from the parsed reply to the commit of
  its transaction; an LLM failure rolls back and is a stutter.
- In `SessionRequests` the write-back is SQLAlchemy's: only columns that differ
  from what the transaction loaded are written, under PostgreSQL row locks held
  to the end of the transaction, READ COMMITTED. Columns that are not modelled
  (language; `raw_json` and scores, which a lead's first turn sets) may make a row
  dirty too, a choice of `Answer`. Each table's rows are one
  lock, as there is one session. Synchronous driver calls occupy the event loop
  (`loop`) until the lock is granted. These are facts about the libraries the
  code uses; their definitions are marked external in the map.
- In `TurnFlow` a job is in its LLM call (`thinking`), in the synthesis of its
  first sentence (`voicing`), of the rest inside the transaction (`replying`) or
  of the goodbye after the commit (`closing`). `_drop_pending` cancels it: before
  its first step it never sets `done`, in the LLM call it rolls back, in
  `_stream_tts` it either swallows the cancellation and goes on (a *survivor*)
  or ends, and both happen. Whatever the conversation says is the choice of
  `Answer`: go on or end, with or without something left to speak. `done` waits
  may end by timeout at any time, since the timer and the event race.
  `dropped` and `kept` of a turn are history. An empty slot in the record is
  id 0 (`None`). `Resend` is the retry that `WEBHOOK_CONNECTION_OVERRIDES` asks
  Twilio for (`rp=ct,5xx`). The call's status, the greeting's wording and the
  audio streams are left out; a job on an abandoned session, which the code
  answers without an await, may be interleaved in the model.
- In `CallSession` a response task `t` passes through `queued`, `hear`
  (transcribing), `switch` and `open` (TTS sessions), `think` (LLM), `play`
  (awaiting its playback task) or `voice` (synthesis inside the transaction),
  `unwind` (closing a session in the `finally`), `speak` and `pace` (a line
  outside of the transaction). Cancelling marks it `doomed`; it stops at its
  await, after a socket it is closing has closed. A task that is done lost its
  locals, so a task of a stage is described by a few fields only. The first step
  of a new task is folded into its creation when nothing it does can be seen in
  between (the playback task turns playback on). Audio of one part at the
  carrier is one item and its mark another; frames of a part that is already
  there are not added again. Only marks that still mean something to the server
  are kept. `fate` and `unheard` are history. The order in which `_cancel_response`
  and `_clear_playback` change fields is the code's: up to the first await in
  `Cancel`, then in `CancelOver`, then in `Clear`.
- In `AudioPath` the counters are the code's with smaller limits, frames and
  payloads are sequences of units that remember reply and position, a payload in
  hand is the one whose `send` is awaited.
- In `OutboundCalls` the carrier's statuses are `active` or `completed`, as
  nothing else reads them; status callbacks may come in any order; a placing
  request has one step per prior call it ends and one for preparing and dialing
  (the profile is set before, the record added after). A greeting is told by the
  name in it. `RefreshStarts`: a task that was created starts in the next pass of
  the event loop, before anything that needs the network; only a `place_call`
  that is already past its awaits may come between and set the profile. Faults:
  hang-ups and dialing replies that are lost, webhooks sent again, builds that
  fail. A call exists on one carrier, which is chosen at the start; a Twilio
  account is a trial account, whose calls are greeted by webhook.
  Of a turn the module has what it does to the record and to the lead:
  `TurnWebhook` (adds a missing record, sets the status, and after silence creates
  a missing session) and `TurnStarts`, the first step of the job, which creates a
  missing session and fills a missing lead from the engine's profile; both are
  lost again if the turn rolls back, the registry's session id is not. A hang-up
  drops the pending job before it asks the carrier, so that a turn that comes
  meanwhile goes on (`DropsPending`). `EditLead` is a reset, which fills the lead again from that
  profile, or a deletion of lead or session. `odd` records what came out of
  order; the properties name their exceptions by it.
- `AudioPath` and `CallSession` have `sarvam_realtime_stt_fallback_enabled` on,
  its default: when the transcription fails, an utterance that is stored is
  answered (call_manager.py:821). With it off that utterance is dropped, and
  `UtteranceRescued` says nothing.
- In `ReplyStream` a character of the message is written in the JSON as one or
  more symbols, so that a split may fall inside; four hexadecimal digits are one
  symbol, the key is two, `"bs"` is a backslash. `Characters` are those of messages;
  what ends a string, begins an escape or makes up the key is never written as it
  is (`StreamAssumption`), as a quote inside a JSON string is escaped. The consumer of an event's text
  runs before the next event is read. `_llm_turn` calls the stream with
  `max_retries=0`; the model allows `Retries` attempts more, as
  `stream_generate` does, so the promise does not depend on that argument.

## Runs

| Run | Shows |
| --- | --- |
| `conversation` | invariants, action properties and the refinement of `LeadLifecycle`, under every sequence of turns, confirmations and resets |
| `overlapping_requests` | with three overlapping requests: only a reset reopens a closed session; the two status columns drift apart only through a torn read; every request ends unless one waits for a row on the event loop while a turn awaits its speech |
| `turn_flow` | with two turns and one repeated request or restart: a first sentence precedes its answer; a recorded answer is not withheld; one job at a time and one session per call unless a job survives its cancellation; no answer goes on in a closed conversation; the loop blocks only through a survivor; a caller who spoke is listened to again or the call ends, without any promise about the LLM or speech |
| `call_session` | with three responses: one at a time, except that a caller who speaks during the greeting's preparation may get a second one; a streamed turn is committed only after it was heard; an interrupted response stays silent; an utterance handed over is rescued; nothing runs or stays open after the call |
| `call_session_ends` | the session ends whatever it awaits when the caller leaves |
| `outbound_calls` | with two calls and one fault, or one turn or edit: two calls live at once only after overlapping requests or a lost reply; a finished call shown as active only in named cases; a named caller is greeted by name; greeting webhook, turns and resets give a Twilio lead facts that are not its own only in named cases |
| `audio_path` | the carrier holds the present reply, whole and in order; the first frame of speech interrupts; no utterance is too short, but after a final transcript |
| `reply_stream` | text comes out as soon as it has arrived whole; speech is not held back; one answer is told (refinement of `SpokenReply`) |
| `completion_without_consent` | finding: confirmation completes without consent or requirement |
| `summary_without_yes` | finding: an answer like "maybe" leads to the summary |
| `no_hangup_when_complete` | finding: a completed conversation does not end its media-stream call |
| `stacked_clicks` | finding: two overlapping requests place two calls |

Bounds. `conversation`: one name, one contact and one need column plus consent;
one of them known in advance; at most one column edited per reply
(`MaxEdits = 1`). The rules look at columns only through the three groups and
consent, each column is edited independently of the others, and several edits
are reached by several turns; the proofs drop every one of these bounds.
`overlapping_requests`: three requests, each served once and of any kind
(turn, confirmation, reset, deletion), two start rows (asked for consent, shown
the summary) and four replies (no, a yes that ends the conversation, a refusal,
a lead that quits). Three requests are enough for each kind of cycle of waiting
(worker with worker, worker with turn, the loop behind a worker behind a turn).

`turn_flow`: two jobs (`MaxTurns`; a survivor and the turn after it), two
handlers at a time (a request and its repetition), three session ids (greeting,
rolled back, created again after a restart), one trouble (a repeated request or
a restart), `MaxPolls = 1`, `PromptAfter = 2`. The code's limits are 8 polls and 3
silences; smaller ones reach the limits sooner. With one poll a redirect follows
the turn's webhook and not another poll, which is the same branch of the code; the
run passes with two polls as well (4.0 million states instead of 2.0, and
twice the time).

`call_session`: three responses (`MaxTasks`; one that is interrupted, one that
interrupts it and an orphan), `call_session_ends` and the finding two. All
windows between two awaits lie between two responses or a response and a loop.
`outbound_calls`: two calls, every choice of carrier and name, one fault
(`MaxFaults`); each property is about two calls, and each fault alone has its
exception in the property. Or, in calls without names, one turn or edit
(`MaxTurns`) and no fault: turns and names in greetings have nothing to do with
each other, and one turn is enough to fill a lead from the profile of another
call. The properties also hold with two turns or edits (6.5 million states instead
of 3.6); any number of them, together with any faults, is the proof's. The finding
needs no fault. `audio_path`: frames of 2 and payloads of 3 units, so that a frame
fits, ends and straddles a payload, 4 frames and 3 replies; an utterance of 2 to 4 frames, a pause of 2, noise given
up after 3 (in the code 320 and 3200 bytes, 8 to 750 frames, 30, 90). With real raw
PCM frames a payload is ten frames; other formats divide differently.
`reply_stream`: every message of up to four plain characters or three with
escapes, split everywhere, one retry; limits of 2 and 3 characters (8, 24 and
120), an overlap of 2 symbols (256 characters; the key needs 2).

Deadlock checking is off in `overlapping_requests`, where the system rests when
every request is served and really stops in the case named by
`LoopWaitsOverSpeech`, and in the runs of the calls and of a reply, which end.

Fairness. `Conversation` has none: nothing promises that a lead goes on.
`SessionRequests` has weak fairness on the steps of a request that arrived
(the loop and the worker pool run what is ready, provider calls end by their
timeouts, PostgreSQL grants free locks and breaks cycles), and none on arrival
or on the failure of the LLM. `TurnFlow` has weak fairness on the handlers
(their waits have a timeout of at most three seconds), on Twilio following a
redirect and on its giving up a request nobody answers; none on jobs, callers,
repetitions or restarts. `CallSession` has weak fairness on the greeting (its
LLM call has a timeout), on the steps that end the session, the transcription
task and a cancellation, and on those of a cancelled response: the loop runs what
is ready and sockets close in bounded time. It has none on the caller, the LLM,
speech or playback. `AudioPath`, `OutboundCalls` and `ReplyStream` state none.

## Proofs

Every invariant, every action property and both refinements that a run checks are
theorems for all values of the constants; TLC alone checks the three liveness
properties. Each proof has the same
shape: an inductive invariant that TLC checked first, one lemma per action that
says the step keeps it, and theorems that read the properties off it. The
assumptions are those named in the models (`FieldsAssumption`,
`RequestAssumption`, `BoundAssumption`, `CallsAssumption`, `AudioAssumption`,
`StreamAssumption`); they say that bounds are positive, sets of calls finite, the "nobody" of a lock
or a record not one of the parties, and a limit of the utterance detection above
the one it comes after, as in the code.

`ConversationProofs`, with the facts about the rules in `LeadRulesProofs`: all
column sets with non-empty groups, every `KnownFields` among the basics and every
`MaxEdits`.

- `TypeCorrect`. Lemmas: an edit's type, the merge yields lead columns, every
  turn yields a state.
- `RowInvariant`: the conjunction `RowInv` of `TypeOK`, `EndAgrees`,
  `FlagAgrees` and `SkippedAreEmpty` is inductive. `EndAgrees` carries the
  clause that a recorded end is an end of the state machine because a turn
  keeps the old status when it does not end the session; the terminal state,
  which no turn leaves, makes that sound.
- `NeverRewinds`, `SummaryAccepted`, `CompletionChecked`: every path of a turn
  (suggestion, fallback, answered consent, completion) is a `Move`; moves are
  reflexive and transitive, so their composition in one turn is a move.
- `ImplementsLifecycle`: `Spec => Lifecycle!Spec` under the refinement mapping
  `Phase`, one case per state the turn leads to.

`SessionRequestsProofs`: any set of requests, of rows to start from and of replies.

- `RequestInvariant`: `RequestInv` adds to the types, for each request, `Decided`
  (what it is about to write reopens nothing unless it resets, moves both
  statuses alike if it read them alike, and is locked before it is committed)
  and `Held` (only a request that writes holds rows, only one that may hold the
  loop does). The properties speak of the commit, which knows its decision from
  locals alone; hence `Decided`.
- `ReopenedByReset` (`OnlyResetReopens`), `DriftIsTornRead`
  (`DriftNeedsTornRead`), and beyond the runs `LockedWrites` (a row changes only
  in the commit of the request that holds its lock) and `NothingHeldAfterwards`.

`TurnFlowProofs`: any number of turns, sessions, handlers, polls, repeated
requests and restarts.

- `TurnInvariant`: `TurnInv` has the types, `JobInv` and `LegInv` (jobs,
  documents, requests and handlers fit each other, whatever is repeated),
  `PollInv` (a turn is polled `MaxPolls` times, once more for a first sentence
  that came last and for each repeated request), and, as long as no request was
  repeated, `SingleInv` (one handler works, the pending turn is the one Twilio
  waits for, a job that runs is pending or a survivor), `AskInv`, `SessionInv` and
  `FreezeInv`. The properties name a turn that was asked again or a second
  session; that needs the chain from the document to the slot, from the slot to
  the job, and from the job to the session.
- `HeadsComeFirst` (holds with repeated requests too), `AnswersReachTheCaller`,
  `JobsDoNotOverlap`, `SessionsDoNotSplit`, `NoTalkAfterTheEnd`, `FreezesAreForeseen`.

`CallSessionProofs`: any number of responses.

- `CallInvariant`: `CallInv` has the types and
  - `ActInv`: which plan and which place a loop may have, and what an utterance
    stored for the transcription task still finds;
  - `TaskInv`: responses are created in order; one that is cancelled and runs is
    awaited by its canceller and is not the current one;
  - `OrphanInv`: a response that nobody holds comes from the greeting only. Until
    the greeting is created there is none; a loop that cancels while another
    response is current finds the greeting there;
  - `SessionInv`: every speech session is the active one or closed, unless a
    greeting passed a response;
  - `SilenceInv`, and `SoundInv`, which says by the stage of a response what of it
    may wait at the carrier or on its way back, each item once;
  - `HeardInv`: who stops the frames of a playback task leaves a trace in `fate`.
- The steps fall into four kinds with a lemma each: a response's own (`Fits`, 14
  actions), a playback task's, a cancellation up to its await (`DoomKeeps`,
  `HushKeeps`), and a loop that goes on (`Settles`: nothing is cancelled and
  perhaps a response created).
- `OneResponseAtATime`, `RecordsAreHeard`, `SilenceLasts`, `UtterancesSurvive`
  follow. `NothingIsLeft` also needs `EndInv`: after the cleanup only orphans take
  steps, and an orphan that opens a session was passed by a greeting. `TypeCorrect`
  has the bound on `line` from an injection of its items into `1..4 * MaxTasks`.

`OutboundCallsProofs`: any finite set of calls, all choices of carriers and names,
any number of faults, turns and edits.

- `CallInvariant`: `CallsInv` says of each call how record, carrier, news, greeting,
  end, builds, placing request (`PlacedInv`) and pending job (`JobInv`) fit; no part
  speaks of two calls, although all share the profile and the cache. `TypesHold`: a
  refresh is scheduled only with something cached, without which the types are not
  inductive.
- `NamesAreRight`, `EndsAreShown` from it.
- `OneLiveUnlessRivals`: `RivalsInv` is about pairs: of two placing requests that
  were never under way together the later one has the earlier call on its list or
  finds it gone.
- `LeadsAreOwn`: whose facts a lead gets is whose the profile are when it is filled.
  `LeadInv` says that the lead of a Twilio call whose requests all found their
  record, and which nobody edited, is its own, and there as soon as there is a
  session: only `early` calls have turns that fill a lead. `ProfileInv` says whose
  the profile can be while a call is dialed or live: another call's only for one of
  the causes that the property names. It rests on `RivalsInv`, since without an
  overlap, a failed hang-up or a late webhook no other call sets the profile
  meanwhile.

`AudioPathProofs`: any size of frame and payload and any limits.

- `LongUtterances`, `SpeechEndsResponse` from the counters (`EarsInv`).
- `MouthInvariant`, `FramesInOrder`: what is played, in hand and in the buffer is,
  laid end to end, the frames of the present reply and the padding after them; a
  whole number of payloads left, and less than one waits between two frames.

`ReplyStreamProofs`: messages of any length over any characters, every split of
their JSON, any number of retries, every overlap of the parser and all limits of
the chunker and of the first sentence.

- Recursive functions. `Drain`, `Chunked` and the flattening of sequences are
  functions defined by recursion, of which a proof first shows that they exist
  (`FlattenSteps`, `DrainSteps`, `ChunkedSteps`), then what they compute.
  `NatSetInduction` replaces the library's induction theorems, whose operator
  parameters cannot be instantiated: it takes the *set* of numbers a claim holds
  for, and follows from the least element of what is left out.
- The JSON: `Encoded` of a longer prefix is longer (`PlacesGrow`), so each
  character has a place in it (`JsonIs`, `JsonCharacter`); at that place the
  parser reads the character's width, or sees that some of it is missing
  (`CharacterAt`).
- `DrainText`: of a part of the JSON that begins at a character, the parser puts
  out the characters that are whole, keeps the beginning of the next one and sees
  the closing quote. `KeyFound`: the overlap of one symbol or more keeps a key in
  two parts. `FedParses`, from both: after any next fragment the parser is where it
  would be if everything so far had come as one (`Parsed`), or met an error.
- `ChunkedIs`: laid end to end and without blanks, the chunks and the rest are what
  was in the buffer; every chunk is short, and less than `Maximum` is kept.
- `StreamInvariant`: `StreamInv` has `RequestInv` (what is read belongs to one
  message; a request that can be made has passed nothing on), `ParserInv` (the
  parser is `Parsed` for what arrived, or at a failure for what arrived before) and
  `ConsumersInv` (chunks and buffer are the text put out, without blanks). None of
  the properties is inductive: how much text may be put out depends on what the
  parser keeps.
- `TypeCorrect`, `HeardCorrect`, `SpeechCorrect` from it, and `OneAnswerToldOnce`:
  `Spec => Promise!Spec`. A fragment is a step `Tells` of `SpokenReply` if it tells
  anything but blanks, else none; a step that gives up is `Ends` with `"broken"`.

Only model-checked: liveness (`CallerIsAnswered`, `CallEnds`,
`EndsUnlessSpokenOver`), which needs fairness and ENABLED and is out of the
prover's reach.

## Findings

`PROJECT.json` lists four that a run shows. These five were found by the same
models and are not kept as runs; each contradicts a line of the repository:

- A reply may move the state to `completed` while its `conversation_complete` is
  false; a later reply sets the consent answer to no and `conversation_complete`,
  and conversation.py:1020 records the completion without checking again
  (tests/test_consent.py:139: "LLM claims the conversation is complete, but
  consent is "no": the backend must refuse to complete").
- The summary is reached with a name only: a suggested `completed` that is refused
  falls back on `default_next_state` (conversation.py:996), which goes from
  `collecting_preferences` to the consent question without the basics, and from
  there to the summary on the consent answer alone (state_machine.py:135;
  state_machine.py:91: "Summary requires identity, contact and a requirement to be
  known.").
- A reset fills the cleared lead from the engine's one profile, which is that of the
  call placed or greeted last: the lead of an earlier call gets the facts given for
  another contact (api/routes.py:484; call_routes.py:44: "Optional per-call contact
  facts (merged over config/call_profile.json)."). `LeadHasOwnFacts` excepts
  `edited` calls for it.
- A cleared or refused column leaves no history row (conversation.py:609;
  README.md:62: "every change is recorded in `lead_field_history` for audit").
- A reset that overlaps another request leaves columns of the finished
  conversation (api/routes.py:468; README.md:200: "Reset to a fresh greeting").

The following behaviour is documented nowhere, or only in passing:

- Two overlapping turns lose updates: one stores consent "no" and leaves the
  flag `consent_confirmed` the other one set; one leaves a terminal state the
  other one reached, with the status still `completed`.
- A request that writes the same rows while a turn awaits its speech blocks the
  event loop for good (`LoopWaitsOverSpeech`): the turn holds the row locks and
  needs the loop to go on.
- A job that `_drop_pending` cancels during speech synthesis may survive
  (turn_flow.py:450) and commit its turn after the caller was asked to repeat
  it; it may close the session, create a second one after a restart, or hold the
  rows that the next turn's flush then waits for on the event loop, for good.
  `OneJobAtATime`, `OneSession`, `OpenWhileListening` and `FreezeNeedsSurvivor`
  say that nothing else does, short of a repeated request.
- With a repeated request a handler that was given up may take the first
  sentence, or pop the entry of the turn that replaced its own
  (turn_flow.py:852, 953); all properties but `HeadBeforeTail` exclude that case
  (`resends = 0`).
- `consent_confirmed` stays true after the consent column is cleared or holds a
  vague text (`FlagAgrees` says what does hold).
- The consent question may be put before the basics are known (the fallback from
  `collecting_preferences`), which state_machine.py:82 refuses to a suggestion.
- A webhook schedules a refresh of the shared greeting; a `place_call` that goes
  on in the same pass of the loop sets its named profile first, and the greeting
  cached for everybody then addresses that contact (turn_flow.py:558; the comment
  at 551 says named greetings never go to the shared cache).
- The lead and the greeting of an Exotel call are made from the engine's profile
  at the time its stream starts, so after another call was placed it gets that
  call's name and facts (call_manager.py:1032). `LeadHasOwnFacts` is therefore
  about Twilio calls. Of these, a call whose greeting webhook came before the record
  has a second session created by its next turn, with a lead from whatever profile
  the engine holds then (turn_flow.py:993, conversation.py:832);
  `LeadHasOwnFacts` says when that can be another call's.
- An Exotel call nobody answers stays active in the registry (`OverIsShown`): no
  callback of Exotel is accepted. A greeting webhook that comes before the record
  seeds a session that the record, when added, forgets (`CallRegistry.add`).
- A streamed turn may be recorded although its reply was wiped: the mark of
  another response, or a clear meant for another one, meets its playback task in
  its last step (call_manager.py:407; the docstring at 519 says interrupted turns
  are not recorded). `RecordedWasHeard` says that nothing else does.
- A caller who speaks while the greeting is generated may start a turn that the
  greeting's response and nobody's cancellation then overlap (`OneResponse`).
- An utterance that ends after the transcription task took its fallback decision
  and before the task is done is stored for nobody (call_manager.py:941).
- A final transcript clears the words and not their counters
  (call_manager.py:789): the next utterance may be answered before it has
  `MIN_UTTERANCE_CHUNKS` frames (`UtterancesAreLong`).
- Exotel's padding is zero bytes, which is silence in raw PCM and full scale in
  mu-law (transport.py:286).
- `FirstSpeechChunkBuffer` never emits once its first `maximum_chars` characters
  are blank (streaming_json.py:184); `last_attempt_count` is all attempts after
  any failure, retried or not (llm_client.py:407).

## Not modelled

The bounded connection pool, the served audio streams of `TurnFlow`, the
composition of a hang-up with a pending turn, the transcription queue at its
limit, the rate limiter (one step without an await), telemetry, HTTP requests of
the speech client, text
classification, prompts, formats, configuration, the benchmark harness and the
browser client; `PROJECT.json` gives the reason for each.

## Plan

1. Done: the engine (`LeadRules`, `Conversation`, `LeadLifecycle`,
   `ConversationProofs`), `SessionRequests`, `TurnFlow`, `CallSession`,
   `AudioPath`, `OutboundCalls`, `ReplyStream`, `SpokenReply`.
2. Done: the proofs of all invariants, action properties and refinements. Left:
   action properties that the inductive invariants now make cheap.
3. What still holds in `TurnFlow` when a request is sent twice; the speech
   streams and their readers.
4. The connection pool in `SessionRequests`; the telemetry marks as an algorithm
   module.

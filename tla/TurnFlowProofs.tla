--------------------------- MODULE TurnFlowProofs ---------------------------
(***************************************************************************)
(* Proofs about TurnFlow, for every number of turns, sessions, handlers,   *)
(* polls, repeated requests and restarts.                                  *)
(***************************************************************************)
EXTENDS TurnFlow, FiniteSetTheorems, TLAPS

-----------------------------------------------------------------------------
(* The inductive invariant *)

\* A job that survived its cancellation and recorded its turn; and a job that runs
\* and was not dropped.
Stray == \E u \in Turns : turn[u].dropped = "running" /\ turn[u].kept
Own(u) == Alive(u) /\ turn[u].dropped # "running"

\* A job by itself.
JobInv == \A u \in Turns :
  /\ turn[u].trimmed => turn[u].early # "none"
  /\ turn[u].job \in {"queued", "thinking", "voicing"} => ~turn[u].trimmed
  /\ turn[u].job = "voicing" => turn[u].early = "none"
  /\ turn[u].done => turn[u].job = "ended"
  /\ turn[u].twiml # "none" => turn[u].done
  /\ turn[u].job = "queued" => turn[u].dropped # "running"
  /\ turn[u].job \in Running \ {"queued"} => turn[u].sid \in Sessions
  /\ turn[u].job = "replying" => ~turn[u].shut

\* Documents, requests and handlers name turns that exist, and a request that is
\* waited for is the one its handler works on.
LegInv ==
  /\ leg.at = "ringing" => leg.kind = "idle"
  /\ leg.at = "listening" => leg.kind \in {"idle", "answer", "again"}
  /\ leg.at = "fetching" => leg.kind \in {"turn", "silence", "result"}
  /\ leg.at = "following" => leg.kind = "result"
  /\ leg.at = "over" => leg.kind \in {"idle", "answer"}
  /\ leg.kind \in {"turn", "result", "answer", "again"}
       => leg.tok \in Turns /\ turn[leg.tok].job # "unused"
  /\ leg.at = "fetching" /\ leg.web # None => web[leg.web] = Handling(leg.kind, leg.tok)
  /\ \A w \in Webhooks : web[w].kind \in {"turn", "result"}
       => web[w].tok \in Turns /\ turn[web[w].tok].job # "unused"
  /\ slot # None => turn[slot].job # "unused" /\ turn[slot].dropped = "no"
  /\ leg.kind = "answer" => turn[leg.tok].job = "ended"
  /\ leg.kind = "answer" /\ turn[leg.tok].trimmed => turn[leg.tok].early = "taken"

\* The polls of a turn: MaxPolls, one more when the first sentence came last, and
\* the repeated requests.
Spared(u) == IF turn[u].early = "taken" THEN 1 ELSE 0
PollInv ==
  /\ resends + restarts <= MaxTroubles
  /\ \A u \in Turns : turn[u].polls <= MaxPolls + Spared(u) + resends
  /\ leg.kind = "turn" => turn[leg.tok].polls = 0
  /\ leg.at = "following" => turn[leg.tok].polls < MaxPolls + Spared(leg.tok) + resends

\* As long as no request is sent twice, one handler works at a time, and the
\* pending turn is the one Twilio waits for; a job that runs is pending.
SingleInv == resends = 0 =>
  /\ \A w \in Webhooks : web[w] # Idle
       => leg.at = "over" \/ (leg.at = "fetching" /\ leg.web = w)
  /\ \A w \in Webhooks : web[w].kind \in {"turn", "result"} => slot \in {web[w].tok, None}
  /\ leg.at # "over" => slot \in {leg.tok, None}
  /\ leg.at \in {"ringing", "listening"} \/ leg.kind = "silence" => slot = None
  /\ \A u \in Turns : Own(u) => slot = u

\* ... and, without a restart, a turn that is not pending any more was dropped.
AskInv == Calm =>
  /\ leg.at \in {"fetching", "following"} /\ leg.kind # "silence"
       => slot = leg.tok \/ turn[leg.tok].dropped # "no"
  /\ leg.kind = "again"
       => turn[leg.tok].dropped # "no" \/ (turn[leg.tok].done /\ turn[leg.tok].twiml = "none")

\* The record's session, if it was committed, can go on.
GoesOn == known # None => stored[known] # "closed"
Rows == {s \in Sessions : stored[s] # "none"}

\* ... and, as long as no job that survived its cancellation recorded anything, the
\* job works on the session of the record, which no one else opens or closes.
SessionInv == resends = 0 =>
  /\ \A u \in Turns : Own(u) /\ turn[u].job # "queued" => turn[u].sid = known
  /\ Stray \/ Cardinality(Rows) <= restarts + (IF Found THEN 1 ELSE 0)
  /\ \A u \in Turns : Own(u) /\ turn[u].job \in {"thinking", "voicing", "replying"} /\ ~turn[u].shut
       => GoesOn \/ Stray
  /\ leg.at \in {"fetching", "following"} /\ leg.kind # "silence" /\ turn[leg.tok].twiml = "gather"
       => GoesOn \/ Stray
  /\ leg.at = "listening" /\ leg.kind = "answer" => GoesOn \/ Stray

FreezeInv == frozen /\ resends = 0 => \E u \in Turns : Survivor(u)

-----------------------------------------------------------------------------
(* Types, but for the bound of the polls, which PollInv gives *)

AnyTurn ==
  [job : Running \cup {"unused", "ended"}, sid : Sessions \cup {None}, shut : BOOLEAN,
   early : {"none", "ready", "taken"}, trimmed : BOOLEAN, done : BOOLEAN,
   twiml : {"none", "gather", "hangup"}, polls : Nat, kept : BOOLEAN,
   dropped : {"no", "ended", "running"}]

LegTypes ==
  /\ leg \in [at : {"ringing", "listening", "fetching", "following", "over"},
              kind : {"idle", "turn", "silence", "result", "answer", "again"},
              tok : Turns \cup {None}, web : Webhooks \cup {None}]
  /\ web \in [Webhooks -> [kind : {"idle", "turn", "silence", "result"},
                           tok : Turns \cup {None}]]
SessionTypes ==
  /\ known \in Sessions \cup {None}
  /\ stored \in [Sessions -> {"none", "open", "closed"}]
TypeInv ==
  /\ LegTypes /\ SessionTypes
  /\ slot \in Turns \cup {None}
  /\ turn \in [Turns -> AnyTurn]
  /\ empties \in 0..(PromptAfter - 1)
  /\ frozen \in BOOLEAN
  /\ resends \in Nat /\ restarts \in Nat

LEMMA Bounds ==
  /\ MaxTurns \in Nat /\ MaxSessions \in Nat /\ MaxWebhooks \in Nat /\ MaxPolls \in Nat
  /\ PromptAfter \in Nat /\ MaxTroubles \in Nat /\ 0 < MaxPolls /\ 0 < PromptAfter
  /\ None \notin Turns /\ None \notin Sessions /\ None \notin Webhooks
BY BoundAssumption DEF None, Turns, Sessions, Webhooks

LEMMA NewTurnTyped ==
  /\ Unused \in AnyTurn /\ NewTurn \in AnyTurn
  /\ NewTurn.job = "queued" /\ NewTurn.sid = None /\ ~NewTurn.shut /\ NewTurn.early = "none"
  /\ ~NewTurn.trimmed /\ ~NewTurn.done /\ NewTurn.twiml = "none" /\ NewTurn.polls = 0
  /\ ~NewTurn.kept /\ NewTurn.dropped = "no"
  /\ Unused.job = "unused"
BY DEF AnyTurn, NewTurn, Unused, Running

\* What a cancellation leaves of a turn.
DroppedTo(t, c) ==
  /\ c \in AnyTurn
  /\ c.early = t.early /\ c.trimmed = t.trimmed /\ c.twiml = t.twiml /\ c.polls = t.polls
  /\ c.kept = t.kept /\ c.dropped \in {"ended", "running"}
  /\ \/ /\ t.job \notin Running /\ c.job = t.job /\ c.sid = t.sid /\ c.done = t.done
        /\ c.dropped = "ended"
     \/ /\ t.job \in Running /\ c.job = "ended" /\ c.dropped = "running"
     \/ /\ t.job \in InSpeech /\ c.job = t.job /\ c.sid = t.sid /\ c.shut = t.shut
        /\ c.done = t.done /\ c.dropped = "running"

LEMMA CancelledFields ==
  ASSUME NEW t \in AnyTurn, NEW c \in Cancelled(t)
  PROVE  DroppedTo(t, c)
<1>. DEFINE running == [t EXCEPT !.dropped = "running"]
            ended == [Ended(running) EXCEPT !.done = (t.job # "queued")]
<1>1. CASE t.job \notin Running
  <2>1. c = [t EXCEPT !.dropped = "ended"]
    BY <1>1 DEF Cancelled
  <2>. QED  BY <1>1, <2>1 DEF DroppedTo, AnyTurn
<1>2. CASE t.job \in Running
  <2>1. c = ended \/ (t.job \in InSpeech /\ c = running)
    BY <1>2 DEF Cancelled
  <2>2. CASE c = ended
    <3>1. (t.job # "queued") \in BOOLEAN
      OBVIOUS
    <3>2. c = [Ended(running) EXCEPT !.done = (t.job # "queued")]
      BY <2>2
    <3>. QED  BY <1>2, <3>1, <3>2 DEF DroppedTo, AnyTurn, Ended, None
  <2>3. CASE t.job \in InSpeech /\ c = running
    BY <2>3 DEF DroppedTo, AnyTurn
  <2>. QED  BY <2>1, <2>2, <2>3
<1>. QED  BY <1>1, <1>2

\* The table after the pending turn was dropped.
LEMMA DroppedTurns ==
  ASSUME TypeInv, NEW rest \in Dropped
  PROVE  /\ rest \in [Turns -> AnyTurn]
         /\ \A u \in Turns : u # slot => rest[u] = turn[u]
         /\ slot # None => DroppedTo(turn[slot], rest[slot])
<1>1. CASE slot = None
  BY <1>1, Bounds DEF Dropped, TypeInv
<1>2. CASE slot # None
  <2>1. PICK c \in Cancelled(turn[slot]) : rest = [turn EXCEPT ![slot] = c]
    BY <1>2 DEF Dropped
  <2>2. slot \in Turns /\ turn[slot] \in AnyTurn
    BY <1>2 DEF TypeInv
  <2>3. DroppedTo(turn[slot], c)
    BY <2>2, CancelledFields
  <2>4. c \in AnyTurn
    BY <2>3 DEF DroppedTo
  <2>. QED  BY <2>1, <2>2, <2>3, <2>4 DEF TypeInv
<1>. QED  BY <1>1, <1>2

-----------------------------------------------------------------------------
(* What a step does to the turns *)

\* Turn u alone changes, and has these values afterwards.
Becomes(u, job, early, trimmed, done, twiml, kept) ==
  /\ turn' \in [Turns -> AnyTurn]
  /\ \A v \in Turns : v # u => turn'[v] = turn[v]
  /\ turn'[u].job = job /\ turn'[u].early = early /\ (turn'[u].trimmed <=> trimmed)
  /\ (turn'[u].done <=> done) /\ turn'[u].twiml = twiml /\ (turn'[u].kept <=> kept)
  /\ turn'[u].polls = turn[u].polls /\ turn'[u].dropped = turn[u].dropped
SameSession(u) == turn'[u].sid = turn[u].sid /\ turn'[u].shut = turn[u].shut

LEMMA Update ==
  ASSUME TypeInv, NEW u \in Turns, NEW t \in AnyTurn, turn' = [turn EXCEPT ![u] = t]
  PROVE  /\ turn' \in [Turns -> AnyTurn] /\ turn'[u] = t
         /\ \A v \in Turns : v # u => turn'[v] = turn[v]
BY DEF TypeInv

\* The type of a closed column.
LEMMA ClosedIsBoolean == \A s \in Sessions : Closed(s) \in BOOLEAN
BY DEF Closed

LEMMA FreshAreSessions == FreshSessions \subseteq Sessions
BY DEF FreshSessions

LEMMA BeginJobEffect ==
  ASSUME TypeInv, NEW u \in Turns, BeginJob(u)
  PROVE  /\ turn[u].job = "queued"
         /\ Becomes(u, "thinking", turn[u].early, turn[u].trimmed, turn[u].done, turn[u].twiml, turn[u].kept)
         /\ turn'[u].sid \in Sessions /\ known' = turn'[u].sid
         /\ (turn'[u].shut <=> stored[turn'[u].sid] = "closed")
         /\ turn'[u].sid \in (IF Found THEN {known} ELSE FreshSessions)
<1>1. PICK s \in IF Found THEN {known} ELSE FreshSessions :
        /\ turn' = [turn EXCEPT ![u].job = "thinking", ![u].sid = s, ![u].shut = Closed(s)]
        /\ known' = s
  BY DEF BeginJob, Registered
<1>2. s \in Sessions
  BY FreshAreSessions, Bounds DEF Found, TypeInv, SessionTypes
<1>3. Closed(s) \in BOOLEAN
  BY <1>2, ClosedIsBoolean
<1>. DEFINE t == [turn[u] EXCEPT !.job = "thinking", !.sid = s, !.shut = Closed(s)]
<1>4. turn[u] \in AnyTurn
  BY DEF TypeInv
<1>5. t \in AnyTurn
  BY <1>2, <1>3, <1>4 DEF AnyTurn, Running
<1>6. /\ t.job = "thinking" /\ t.sid = s /\ t.shut = Closed(s) /\ t.early = turn[u].early
      /\ t.trimmed = turn[u].trimmed /\ t.done = turn[u].done /\ t.twiml = turn[u].twiml
      /\ t.kept = turn[u].kept /\ t.polls = turn[u].polls /\ t.dropped = turn[u].dropped
  BY <1>4 DEF AnyTurn
<1>7. turn' = [turn EXCEPT ![u] = t]
  BY <1>1 DEF TypeInv
<1>. HIDE DEF t
<1>8. turn[u].job = "queued"
  BY DEF BeginJob
<1>9. turn' \in [Turns -> AnyTurn] /\ turn'[u] = t /\ \A v \in Turns : v # u => turn'[v] = turn[v]
  BY <1>5, <1>7, Update
<1>. QED  BY <1>1, <1>2, <1>6, <1>8, <1>9 DEF Becomes, Closed

\* Every other step of a job.
LEMMA BeginEarlyEffect ==
  ASSUME TypeInv, NEW u \in Turns, BeginEarly(u)
  PROVE  /\ turn[u].job = "thinking" /\ turn[u].early = "none" /\ SameSession(u)
         /\ Becomes(u, "voicing", turn[u].early, turn[u].trimmed, turn[u].done, turn[u].twiml, turn[u].kept)
<1>. DEFINE t == [turn[u] EXCEPT !.job = "voicing"]
<1>1. turn[u] \in AnyTurn
  BY DEF TypeInv
<1>2. t \in AnyTurn
  BY <1>1 DEF AnyTurn, Running
<1>3. turn' = [turn EXCEPT ![u] = t]
  BY DEF BeginEarly, TypeInv
<1>4. turn' \in [Turns -> AnyTurn] /\ turn'[u] = t /\ \A v \in Turns : v # u => turn'[v] = turn[v]
  BY <1>2, <1>3, Update
<1>5. turn[u].job = "thinking" /\ turn[u].early = "none"
  BY DEF BeginEarly
<1>. QED  BY <1>1, <1>4, <1>5 DEF Becomes, SameSession, AnyTurn

LEMMA EndEarlyEffect ==
  ASSUME TypeInv, NEW u \in Turns, NEW a \in BOOLEAN, EndEarly(u, a)
  PROVE  /\ turn[u].job = "voicing" /\ SameSession(u) /\ turn'[u].early \in {"none", "ready"}
         /\ Becomes(u, "thinking", turn'[u].early, turn[u].trimmed, turn[u].done, turn[u].twiml, turn[u].kept)
<1>. DEFINE e == IF a THEN "ready" ELSE "none"
            t == [turn[u] EXCEPT !.job = "thinking", !.early = e]
<1>1. turn[u] \in AnyTurn
  BY DEF TypeInv
<1>2. t \in AnyTurn
  BY <1>1 DEF AnyTurn, Running
<1>3. turn' = [turn EXCEPT ![u] = t]
  BY DEF EndEarly, TypeInv
<1>4. turn' \in [Turns -> AnyTurn] /\ turn'[u] = t /\ \A v \in Turns : v # u => turn'[v] = turn[v]
  BY <1>2, <1>3, Update
<1>5. turn[u].job = "voicing"
  BY DEF EndEarly
<1>. QED  BY <1>1, <1>4, <1>5 DEF Becomes, SameSession, AnyTurn

\* An answer: committed and spoken, spoken within the transaction, or committed
\* without anything left to speak.
LEMMA AnswerEffect ==
  ASSUME TypeInv, NEW u \in Turns, Answer(u)
  PROVE  /\ turn[u].job = "thinking"
         /\ \E trims \in IF turn[u].early = "none" THEN {FALSE} ELSE BOOLEAN :
              \/ /\ stored' = Committed(turn[u].sid, TRUE) /\ SameSession(u)
                 /\ Becomes(u, "closing", turn[u].early, trims, turn[u].done, turn[u].twiml, TRUE)
              \/ /\ ~turn[u].shut /\ stored' = stored /\ SameSession(u)
                 /\ Becomes(u, "replying", turn[u].early, trims, turn[u].done, turn[u].twiml, turn[u].kept)
              \/ /\ ~turn[u].shut /\ trims /\ stored' = Committed(turn[u].sid, FALSE)
                 /\ Becomes(u, "ended", turn[u].early, TRUE, TRUE, "gather", TRUE)
<1>0. turn[u] \in AnyTurn /\ turn[u].job = "thinking"
  BY DEF TypeInv, Answer
<1>1. PICK trims \in IF turn[u].early = "none" THEN {FALSE} ELSE BOOLEAN :
       \/ /\ stored' = Committed(turn[u].sid, TRUE)
          /\ turn' = [turn EXCEPT ![u].job = "closing", ![u].kept = TRUE, ![u].trimmed = trims]
       \/ /\ ~turn[u].shut
          /\ turn' = [turn EXCEPT ![u].job = "replying", ![u].trimmed = trims]
          /\ UNCHANGED stored
       \/ /\ ~turn[u].shut /\ trims
          /\ stored' = Committed(turn[u].sid, FALSE)
          /\ turn' = [turn EXCEPT ![u] = [Ended(turn[u]) EXCEPT !.kept = TRUE,
                          !.trimmed = TRUE, !.done = TRUE, !.twiml = "gather"]]
  BY DEF Answer
<1>2. trims \in BOOLEAN
  OBVIOUS
<1>3. CASE /\ stored' = Committed(turn[u].sid, TRUE)
           /\ turn' = [turn EXCEPT ![u].job = "closing", ![u].kept = TRUE, ![u].trimmed = trims]
  <2>. DEFINE t == [turn[u] EXCEPT !.job = "closing", !.kept = TRUE, !.trimmed = trims]
  <2>1. t \in AnyTurn
    BY <1>0, <1>2 DEF AnyTurn, Running
  <2>2. turn' = [turn EXCEPT ![u] = t]
    BY <1>3 DEF TypeInv
  <2>3. turn' \in [Turns -> AnyTurn] /\ turn'[u] = t /\ \A v \in Turns : v # u => turn'[v] = turn[v]
    BY <2>1, <2>2, Update
  <2>4. Becomes(u, "closing", turn[u].early, trims, turn[u].done, turn[u].twiml, TRUE) /\ SameSession(u)
    BY <1>0, <2>3 DEF Becomes, SameSession, AnyTurn
  <2>. QED  BY <1>0, <1>3, <2>4
<1>4. CASE /\ ~turn[u].shut
           /\ turn' = [turn EXCEPT ![u].job = "replying", ![u].trimmed = trims]
           /\ UNCHANGED stored
  <2>. DEFINE t == [turn[u] EXCEPT !.job = "replying", !.trimmed = trims]
  <2>1. t \in AnyTurn
    BY <1>0, <1>2 DEF AnyTurn, Running
  <2>2. turn' = [turn EXCEPT ![u] = t]
    BY <1>4 DEF TypeInv
  <2>3. turn' \in [Turns -> AnyTurn] /\ turn'[u] = t /\ \A v \in Turns : v # u => turn'[v] = turn[v]
    BY <2>1, <2>2, Update
  <2>4. Becomes(u, "replying", turn[u].early, trims, turn[u].done, turn[u].twiml, turn[u].kept) /\ SameSession(u)
    BY <1>0, <2>3 DEF Becomes, SameSession, AnyTurn
  <2>. QED  BY <1>0, <1>4, <2>4
<1>5. CASE /\ ~turn[u].shut /\ trims
           /\ stored' = Committed(turn[u].sid, FALSE)
           /\ turn' = [turn EXCEPT ![u] = [Ended(turn[u]) EXCEPT !.kept = TRUE,
                          !.trimmed = TRUE, !.done = TRUE, !.twiml = "gather"]]
  <2>. DEFINE t == [Ended(turn[u]) EXCEPT !.kept = TRUE, !.trimmed = TRUE, !.done = TRUE, !.twiml = "gather"]
  <2>1. t \in AnyTurn
    BY <1>0 DEF AnyTurn, Ended, None
  <2>3. turn' \in [Turns -> AnyTurn] /\ turn'[u] = t /\ \A v \in Turns : v # u => turn'[v] = turn[v]
    BY <1>5, <2>1, Update
  <2>4. Becomes(u, "ended", turn[u].early, TRUE, TRUE, "gather", TRUE)
    BY <1>0, <2>3 DEF Becomes, AnyTurn, Ended
  <2>. QED  BY <1>0, <1>5, <2>4
<1>. QED  BY <1>1, <1>3, <1>4, <1>5

LEMMA EndReplyEffect ==
  ASSUME TypeInv, NEW u \in Turns, EndReply(u)
  PROVE  /\ turn[u].job = "replying" /\ stored' = Committed(turn[u].sid, FALSE)
         /\ Becomes(u, "ended", turn[u].early, turn[u].trimmed, TRUE, "gather", TRUE)
<1>. DEFINE t == [Ended(turn[u]) EXCEPT !.kept = TRUE, !.done = TRUE, !.twiml = "gather"]
<1>1. turn[u] \in AnyTurn
  BY DEF TypeInv
<1>2. t \in AnyTurn
  BY <1>1 DEF AnyTurn, Ended, None
<1>3. turn' \in [Turns -> AnyTurn] /\ turn'[u] = t /\ \A v \in Turns : v # u => turn'[v] = turn[v]
  BY <1>2, Update DEF EndReply
<1>4. turn[u].job = "replying" /\ stored' = Committed(turn[u].sid, FALSE)
  BY DEF EndReply
<1>. QED  BY <1>1, <1>3, <1>4 DEF Becomes, AnyTurn, Ended

LEMMA EndClosingEffect ==
  ASSUME TypeInv, NEW u \in Turns, EndClosing(u)
  PROVE  /\ turn[u].job = "closing"
         /\ Becomes(u, "ended", turn[u].early, turn[u].trimmed, TRUE, "hangup", turn[u].kept)
<1>. DEFINE t == [Ended(turn[u]) EXCEPT !.done = TRUE, !.twiml = "hangup"]
<1>1. turn[u] \in AnyTurn
  BY DEF TypeInv
<1>2. t \in AnyTurn
  BY <1>1 DEF AnyTurn, Ended, None
<1>3. turn' \in [Turns -> AnyTurn] /\ turn'[u] = t /\ \A v \in Turns : v # u => turn'[v] = turn[v]
  BY <1>2, Update DEF EndClosing
<1>4. turn[u].job = "closing"
  BY DEF EndClosing
<1>. QED  BY <1>1, <1>3, <1>4 DEF Becomes, AnyTurn, Ended

LEMMA FailJobEffect ==
  ASSUME TypeInv, NEW u \in Turns, FailJob(u)
  PROVE  /\ turn[u].job \in Running
         /\ Becomes(u, "ended", turn[u].early, turn[u].trimmed, TRUE, turn[u].twiml, turn[u].kept)
<1>. DEFINE t == [Ended(turn[u]) EXCEPT !.done = TRUE]
<1>1. turn[u] \in AnyTurn
  BY DEF TypeInv
<1>2. t \in AnyTurn
  BY <1>1 DEF AnyTurn, Ended, None
<1>3. turn' \in [Turns -> AnyTurn] /\ turn'[u] = t /\ \A v \in Turns : v # u => turn'[v] = turn[v]
  BY <1>2, Update DEF FailJob
<1>4. turn[u].job \in Running
  BY DEF FailJob
<1>. QED  BY <1>1, <1>3, <1>4 DEF Becomes, AnyTurn, Ended

\* A commit opens or closes one session.
LEMMA CommittedRows ==
  ASSUME SessionTypes, NEW s \in Sessions, NEW closes \in BOOLEAN
  PROVE  /\ Committed(s, closes) \in [Sessions -> {"none", "open", "closed"}]
         /\ \A r \in Sessions : r # s => Committed(s, closes)[r] = stored[r]
         /\ Committed(s, closes)[s] = IF closes \/ stored[s] = "closed" THEN "closed" ELSE "open"
BY DEF Committed, SessionTypes

\* What all steps of a job have in common: it goes on or ends, the table and the
\* requests stay as they are, and a first sentence is neither served nor lost.
JobMoves(u) ==
  /\ UNCHANGED <<leg, web, slot, empties, resends, restarts>>
  /\ turn' \in [Turns -> AnyTurn] /\ \A v \in Turns : v # u => turn'[v] = turn[v]
  /\ turn[u].job \in Running /\ turn'[u].job \in Running \cup {"ended"}
  /\ turn'[u].job # "queued"
  /\ turn'[u].polls = turn[u].polls /\ turn'[u].dropped = turn[u].dropped
  /\ turn[u].kept => turn'[u].kept
  /\ turn'[u].early = "taken" <=> turn[u].early = "taken"

\* Every step of a job but Freeze.
LEMMA JobsMove ==
  ASSUME TypeInv, JobInv, NEW u \in Turns, RunJob(u), ~Freeze(u)
  PROVE  JobMoves(u) /\ JobInv' /\ UNCHANGED frozen
<1>0. turn[u] \in AnyTurn
  BY DEF TypeInv
<1>u. ASSUME \A v \in Turns : v # u => turn'[v] = turn[v],
             /\ turn'[u].trimmed => turn'[u].early # "none"
             /\ turn'[u].job \in {"queued", "thinking", "voicing"} => ~turn'[u].trimmed
             /\ turn'[u].job = "voicing" => turn'[u].early = "none"
             /\ turn'[u].done => turn'[u].job = "ended"
             /\ turn'[u].twiml # "none" => turn'[u].done
             /\ turn'[u].job = "queued" => turn'[u].dropped # "running"
             /\ turn'[u].job \in Running \ {"queued"} => turn'[u].sid \in Sessions
             /\ turn'[u].job = "replying" => ~turn'[u].shut
      PROVE  JobInv'
  BY <1>u DEF JobInv
<1>t. /\ turn[u].trimmed => turn[u].early # "none"
      /\ turn[u].job \in {"queued", "thinking", "voicing"} => ~turn[u].trimmed
      /\ turn[u].job = "voicing" => turn[u].early = "none"
      /\ turn[u].done => turn[u].job = "ended"
      /\ turn[u].twiml # "none" => turn[u].done
      /\ turn[u].job \in Running \ {"queued"} => turn[u].sid \in Sessions
      /\ turn[u].job = "replying" => ~turn[u].shut
  BY DEF JobInv
<1>1. CASE BeginJob(u)
  <2>1. UNCHANGED <<leg, web, slot, empties, resends, restarts, frozen>>
    BY <1>1 DEF BeginJob
  <2>2. /\ turn[u].job = "queued"
        /\ Becomes(u, "thinking", turn[u].early, turn[u].trimmed, turn[u].done, turn[u].twiml, turn[u].kept)
        /\ turn'[u].sid \in Sessions
    BY <1>1, BeginJobEffect
  <2>3. JobInv'
    BY <1>u, <1>t, <2>2 DEF Becomes, Running
  <2>. QED  BY <2>1, <2>2, <2>3 DEF JobMoves, Becomes, Running
<1>2. CASE BeginEarly(u)
  <2>1. UNCHANGED <<leg, web, slot, empties, resends, restarts, frozen>>
    BY <1>2 DEF BeginEarly
  <2>2. /\ turn[u].job = "thinking" /\ turn[u].early = "none" /\ SameSession(u)
        /\ Becomes(u, "voicing", turn[u].early, turn[u].trimmed, turn[u].done, turn[u].twiml, turn[u].kept)
    BY <1>2, BeginEarlyEffect
  <2>3. JobInv'
    BY <1>u, <1>t, <2>2 DEF Becomes, Running, SameSession
  <2>. QED  BY <2>1, <2>2, <2>3 DEF JobMoves, Becomes, Running
<1>3. CASE \E a \in BOOLEAN : EndEarly(u, a)
  <2>1. UNCHANGED <<leg, web, slot, empties, resends, restarts, frozen>>
    BY <1>3 DEF EndEarly
  <2>2. /\ turn[u].job = "voicing" /\ SameSession(u) /\ turn'[u].early \in {"none", "ready"}
        /\ Becomes(u, "thinking", turn'[u].early, turn[u].trimmed, turn[u].done, turn[u].twiml, turn[u].kept)
    BY <1>3, EndEarlyEffect
  <2>3. JobInv'
    BY <1>u, <1>t, <2>2 DEF Becomes, Running, SameSession
  <2>. QED  BY <1>t, <2>1, <2>2, <2>3 DEF JobMoves, Becomes, Running
<1>4. CASE Answer(u)
  <2>1. UNCHANGED <<leg, web, slot, empties, resends, restarts, frozen>>
    BY <1>4 DEF Answer
  <2>2. turn[u].job = "thinking"
    BY <1>4, AnswerEffect
  <2>3. PICK trims \in IF turn[u].early = "none" THEN {FALSE} ELSE BOOLEAN :
          \/ /\ SameSession(u)
             /\ Becomes(u, "closing", turn[u].early, trims, turn[u].done, turn[u].twiml, TRUE)
          \/ /\ ~turn[u].shut /\ SameSession(u)
             /\ Becomes(u, "replying", turn[u].early, trims, turn[u].done, turn[u].twiml, turn[u].kept)
          \/ /\ trims
             /\ Becomes(u, "ended", turn[u].early, TRUE, TRUE, "gather", TRUE)
    BY <1>4, AnswerEffect
  <2>4. trims => turn[u].early # "none"
    OBVIOUS
  <2>5. JobInv'
    BY <1>u, <1>t, <2>2, <2>3, <2>4 DEF Becomes, Running, SameSession
  <2>. QED  BY <2>1, <2>2, <2>3, <2>5 DEF JobMoves, Becomes, Running
<1>5. CASE EndReply(u)
  <2>1. UNCHANGED <<leg, web, slot, empties, resends, restarts, frozen>>
    BY <1>5 DEF EndReply
  <2>2. /\ turn[u].job = "replying"
        /\ Becomes(u, "ended", turn[u].early, turn[u].trimmed, TRUE, "gather", TRUE)
    BY <1>5, EndReplyEffect
  <2>3. JobInv'
    BY <1>u, <1>t, <2>2 DEF Becomes, Running
  <2>. QED  BY <2>1, <2>2, <2>3 DEF JobMoves, Becomes, Running
<1>6. CASE EndClosing(u)
  <2>1. UNCHANGED <<leg, web, slot, empties, resends, restarts, frozen>>
    BY <1>6 DEF EndClosing
  <2>2. /\ turn[u].job = "closing"
        /\ Becomes(u, "ended", turn[u].early, turn[u].trimmed, TRUE, "hangup", turn[u].kept)
    BY <1>6, EndClosingEffect
  <2>3. JobInv'
    BY <1>u, <1>t, <2>2 DEF Becomes, Running
  <2>. QED  BY <2>1, <2>2, <2>3 DEF JobMoves, Becomes, Running
<1>7. CASE FailJob(u)
  <2>1. UNCHANGED <<leg, web, slot, empties, resends, restarts, frozen>>
    BY <1>7 DEF FailJob
  <2>2. /\ turn[u].job \in Running
        /\ Becomes(u, "ended", turn[u].early, turn[u].trimmed, TRUE, turn[u].twiml, turn[u].kept)
    BY <1>7, FailJobEffect
  <2>3. JobInv'
    BY <1>u, <1>t, <2>2 DEF Becomes, Running
  <2>. QED  BY <2>1, <2>2, <2>3 DEF JobMoves, Becomes, Running
<1>. QED  BY <1>1, <1>2, <1>3, <1>4, <1>5, <1>6, <1>7 DEF RunJob

-----------------------------------------------------------------------------
(* The steps of a job *)

LEMMA JobKeepsTypes ==
  ASSUME TypeInv, JobInv, NEW u \in Turns, RunJob(u)
  PROVE  TypeInv'
<1>1. CASE Freeze(u)
  BY <1>1 DEF Freeze, TypeInv, LegTypes, SessionTypes
<1>2. CASE ~Freeze(u)
  <2>1. JobMoves(u) /\ UNCHANGED frozen
    BY <1>2, JobsMove
  <2>2. known' \in Sessions \cup {None}
    <3>1. CASE BeginJob(u)
      BY <3>1, BeginJobEffect
    <3>2. CASE ~BeginJob(u)
      BY <1>2, <3>2 DEF RunJob, BeginEarly, EndEarly, Answer, EndReply, EndClosing, FailJob,
                        TypeInv, SessionTypes
    <3>. QED  BY <3>1, <3>2
  <2>3. stored' \in [Sessions -> {"none", "open", "closed"}]
    <3>1. CASE Answer(u) \/ EndReply(u)
      <4>1. turn[u].sid \in Sessions
        BY <3>1 DEF JobInv, Answer, EndReply, Running
      <4>2. \E closes \in BOOLEAN : stored' = Committed(turn[u].sid, closes) \/ stored' = stored
        BY <3>1 DEF Answer, EndReply
      <4>. QED  BY <4>1, <4>2, CommittedRows DEF TypeInv, SessionTypes
    <3>2. CASE ~(Answer(u) \/ EndReply(u))
      BY <1>2, <3>2 DEF RunJob, BeginJob, BeginEarly, EndEarly, EndClosing, FailJob,
                        TypeInv, SessionTypes
    <3>. QED  BY <3>1, <3>2
  <2>. QED  BY <2>1, <2>2, <2>3 DEF JobMoves, TypeInv, LegTypes, SessionTypes
<1>. QED  BY <1>1, <1>2

LEMMA JobKeepsLeg ==
  ASSUME TypeInv, JobInv, LegInv, NEW u \in Turns, JobMoves(u)
  PROVE  LegInv' /\ (leg.kind = "answer" => turn'[leg.tok] = turn[leg.tok])
<1>1. UNCHANGED <<leg, web, slot>> /\ \A v \in Turns : v # u => turn'[v] = turn[v]
  BY DEF JobMoves
<1>2. \A v \in Turns : turn[v].job # "unused" => turn'[v].job # "unused"
  BY <1>1 DEF JobMoves, Running
<1>3. leg.kind = "answer" => turn'[leg.tok] = turn[leg.tok]
  BY <1>1 DEF LegInv, JobMoves, Running
<1>4. slot # None => turn'[slot].job # "unused" /\ turn'[slot].dropped = "no"
  BY <1>1, <1>2 DEF LegInv, TypeInv, JobMoves
<1>. QED  BY <1>1, <1>2, <1>3, <1>4 DEF LegInv

LEMMA JobKeepsPolls ==
  ASSUME TypeInv, LegInv, PollInv, NEW u \in Turns, JobMoves(u)
  PROVE  PollInv'
<1>1. UNCHANGED <<leg, resends, restarts>> /\ \A v \in Turns : v # u => turn'[v] = turn[v]
  BY DEF JobMoves
<1>2. \A v \in Turns : turn'[v].polls = turn[v].polls /\ Spared(v)' = Spared(v)
  BY <1>1 DEF JobMoves, Spared
<1>3. leg.kind \in {"turn", "result"} => leg.tok \in Turns
  BY DEF LegInv
<1>4. leg.at = "following" => leg.kind = "result"
  BY DEF LegInv
<1>5. leg.kind = "turn" => turn'[leg.tok].polls = 0
  BY <1>2, <1>3 DEF PollInv
<1>6. leg.at = "following" => turn'[leg.tok].polls < MaxPolls + Spared(leg.tok)' + resends
  <2>1. ASSUME leg.at = "following"
        PROVE  turn'[leg.tok].polls < MaxPolls + Spared(leg.tok)' + resends
    <3>1. leg.tok \in Turns
      BY <1>3, <1>4, <2>1
    <3>2. Spared(leg.tok)' = Spared(leg.tok)
      BY <1>1, <3>1 DEF JobMoves, Spared
    <3>. QED  BY <1>2, <2>1, <3>1, <3>2 DEF PollInv
  <2>. QED  BY <2>1
<1>. QED  BY <1>1, <1>2, <1>5, <1>6 DEF PollInv

LEMMA JobKeepsSingle ==
  ASSUME TypeInv, SingleInv, NEW u \in Turns, JobMoves(u)
  PROVE  SingleInv'
<1>1. UNCHANGED <<leg, web, slot, resends>> /\ \A v \in Turns : v # u => turn'[v] = turn[v]
  BY DEF JobMoves
<1>2. \A v \in Turns : Own(v)' => Own(v)
  BY <1>1 DEF JobMoves, Own, Alive
<1>. QED  BY <1>1, <1>2 DEF SingleInv

LEMMA JobKeepsAsk ==
  ASSUME TypeInv, JobInv, LegInv, AskInv, NEW u \in Turns, JobMoves(u)
  PROVE  AskInv'
<1>1. /\ UNCHANGED <<leg, slot, resends, restarts>>
      /\ \A v \in Turns : v # u => turn'[v] = turn[v]
      /\ turn[u].job \in Running
  BY DEF JobMoves
<1>2. \A v \in Turns : turn'[v].dropped = turn[v].dropped
  BY <1>1 DEF JobMoves
<1>3. \A v \in Turns : turn[v].done => turn'[v] = turn[v]
  BY <1>1 DEF JobInv, Running
<1>4. leg.kind \in {"turn", "result", "again"} => leg.tok \in Turns
  BY DEF LegInv
<1>5. leg.at \in {"fetching", "following"} /\ leg.kind # "silence" => leg.kind \in {"turn", "result"}
  BY DEF LegInv
<1>. QED  BY <1>1, <1>2, <1>3, <1>4, <1>5 DEF AskInv, Calm

\* The stored sessions are few.
LEMMA RowsFinite ==
  /\ IsFiniteSet(Rows) /\ Cardinality(Rows) \in Nat
  /\ IsFiniteSet(Rows \cup {known}) /\ Cardinality(Rows \cup {known}) <= Cardinality(Rows) + 1
<1>1. IsFiniteSet(Sessions)
  BY Bounds, FS_Interval DEF Sessions
<1>2. IsFiniteSet(Rows)
  BY <1>1, FS_Subset DEF Rows
<1>3. Cardinality(Rows) \in Nat
  BY <1>2, FS_CardinalityType
<1>4. /\ IsFiniteSet(Rows \cup {known})
      /\ Cardinality(Rows \cup {known}) = IF known \in Rows THEN Cardinality(Rows)
                                         ELSE Cardinality(Rows) + 1
  BY <1>2, FS_AddElement
<1>. QED  BY <1>2, <1>3, <1>4

\* Once a job that survived recorded its turn, it did for good.
LEMMA StrayStays ==
  ASSUME TypeInv, NEW u \in Turns, JobMoves(u)
  PROVE  /\ Stray => Stray'
         /\ turn'[u].kept /\ turn[u].dropped = "running" => Stray'
         /\ (turn'[u].kept <=> turn[u].kept) => (Stray' <=> Stray)
<1>1. \A v \in Turns : v # u => turn'[v] = turn[v]
  BY DEF JobMoves
<1>. QED  BY <1>1 DEF JobMoves, Stray

\* A commit.
LEMMA CommitKeepsSession ==
  ASSUME TypeInv, JobInv, LegInv, SingleInv, SessionInv, resends = 0,
         NEW u \in Turns, JobMoves(u), NEW closes \in BOOLEAN,
         stored' = Committed(turn[u].sid, closes), known' = known,
         turn[u].job \in {"thinking", "replying"},
         turn'[u].kept, turn'[u].job \in {"closing", "ended"},
         turn'[u].job = "closing" => SameSession(u),
         turn'[u].twiml = "gather" => ~closes /\ ~turn[u].shut
  PROVE  SessionInv'
<1>1. /\ UNCHANGED <<leg, slot, resends, restarts>>
      /\ \A v \in Turns : v # u => turn'[v] = turn[v]
      /\ turn'[u].dropped = turn[u].dropped
  BY DEF JobMoves
<1>2. \A v \in Turns : Own(v)' => Own(v)
  BY <1>1 DEF JobMoves, Own, Alive
<1>3. turn[u].sid \in Sessions
  BY DEF JobInv, Running
<1>4. \A v \in Turns : Own(v)' /\ turn'[v].job # "queued" => turn'[v].sid = known
  <2>1. turn[u].job # "queued"
    OBVIOUS
  <2>2. Own(u)' => turn'[u].job = "closing"
    BY DEF Own, Alive, Running
  <2>. QED  BY <1>1, <1>2, <2>1, <2>2 DEF SessionInv, SameSession
<1>5. CASE turn[u].dropped = "running"
  <2>1. Stray'
    BY <1>5, StrayStays
  <2>. QED  BY <1>1, <1>4, <2>1 DEF SessionInv
<1>6. CASE turn[u].dropped # "running"
  <2>1. Own(u)
    BY <1>6 DEF Own, Alive, JobMoves
  <2>2. slot = u /\ turn[u].sid = known /\ known \in Sessions /\ known # None
    BY <1>3, <2>1, Bounds DEF SingleInv, SessionInv
  <2>3. /\ \A r \in Sessions : r # known => stored'[r] = stored[r]
        /\ stored'[known] = IF closes \/ stored[known] = "closed" THEN "closed" ELSE "open"
    BY <2>2, CommittedRows DEF TypeInv
  <2>4. Rows' = Rows \cup {known} /\ Found'
    BY <2>2, <2>3 DEF Rows, Found
  <2>5. (Stray \/ Cardinality(Rows) <= restarts + (IF Found THEN 1 ELSE 0))'
    <3>1. CASE Stray
      BY <3>1, StrayStays
    <3>2. CASE ~Stray /\ Found
      <4>1. Rows' = Rows
        BY <2>2, <2>4, <3>2 DEF Found, Rows
      <4>2. Cardinality(Rows) <= restarts + 1
        BY <3>2 DEF SessionInv
      <4>. QED  BY <1>1, <2>4, <4>1, <4>2
    <3>3. CASE ~Stray /\ ~Found
      <4>1. Cardinality(Rows) <= restarts + 0
        BY <3>3 DEF SessionInv
      <4>2. Cardinality(Rows') <= restarts + 1
        BY <2>4, <4>1, RowsFinite, FS_CardinalityType DEF TypeInv
      <4>. QED  BY <1>1, <2>4, <4>2
    <3>. QED  BY <3>1, <3>2, <3>3
  <2>6. \A v \in Turns : ~(Own(v)' /\ turn'[v].job \in {"thinking", "voicing", "replying"})
    BY <1>2, <2>2 DEF SingleInv
  <2>7. ASSUME leg.at \in {"fetching", "following"}, leg.kind # "silence", turn'[leg.tok].twiml = "gather"
        PROVE  GoesOn' \/ Stray'
    <3>1. leg.tok = u
      BY <2>2, <2>7, Bounds DEF SingleInv
    <3>2. ~closes /\ ~turn[u].shut
      BY <2>7, <3>1
    <3>3. GoesOn \/ Stray
      BY <2>1, <3>2 DEF SessionInv
    <3>4. GoesOn => GoesOn'
      BY <2>2, <2>3, <3>2 DEF GoesOn
    <3>. QED  BY <3>3, <3>4, StrayStays
  <2>8. leg.at # "listening"
    BY <2>2, Bounds DEF SingleInv
  <2>. QED  BY <1>1, <1>4, <2>5, <2>6, <2>7, <2>8 DEF SessionInv
<1>. QED  BY <1>5, <1>6

\* A step of a job that stores nothing and names no session.
LEMMA QuietJobKeepsSession ==
  ASSUME TypeInv, JobInv, LegInv, SingleInv, SessionInv, resends = 0,
         NEW u \in Turns, JobMoves(u), UNCHANGED <<known, stored>>,
         turn'[u].kept <=> turn[u].kept,
         turn'[u].job # "ended" => SameSession(u) /\ turn[u].job # "queued",
         turn'[u].job \in {"thinking", "voicing", "replying"}
           => turn[u].job \in {"thinking", "voicing", "replying"},
         turn'[u].twiml # "gather"
  PROVE  SessionInv'
<1>1. /\ UNCHANGED <<leg, slot, resends, restarts>>
      /\ \A v \in Turns : v # u => turn'[v] = turn[v]
      /\ turn'[u].dropped = turn[u].dropped
  BY DEF JobMoves
<1>2. \A v \in Turns : Own(v)' => Own(v)
  BY <1>1 DEF JobMoves, Own, Alive
<1>3. (Stray' <=> Stray) /\ Rows' = Rows /\ (Found' <=> Found) /\ (GoesOn' <=> GoesOn)
  BY StrayStays DEF Rows, Found, GoesOn
<1>4. Own(u)' => /\ turn'[u].sid = turn[u].sid /\ turn'[u].shut = turn[u].shut
                 /\ turn[u].job # "queued"
  BY DEF Own, Alive, SameSession, Running
<1>5. \A v \in Turns : Own(v)' /\ turn'[v].job # "queued" => turn'[v].sid = known
  BY <1>1, <1>2, <1>4 DEF SessionInv
<1>6. \A v \in Turns :
        Own(v)' /\ turn'[v].job \in {"thinking", "voicing", "replying"} /\ ~turn'[v].shut
          => GoesOn \/ Stray
  <2>1. ASSUME NEW v \in Turns, Own(v)', ~turn'[v].shut,
               turn'[v].job \in {"thinking", "voicing", "replying"}
        PROVE  ~turn[v].shut /\ turn[v].job \in {"thinking", "voicing", "replying"}
    <3>1. CASE v = u
      BY <1>4, <2>1, <3>1
    <3>2. CASE v # u
      BY <1>1, <2>1, <3>2
    <3>. QED  BY <3>1, <3>2
  <2>. QED  BY <1>2, <2>1 DEF SessionInv
<1>7. leg.at \in {"fetching", "following"} /\ leg.kind # "silence" /\ turn'[leg.tok].twiml = "gather"
        => GoesOn \/ Stray
  <2>1. leg.at \in {"fetching", "following"} /\ leg.kind # "silence" => leg.tok \in Turns
    BY DEF LegInv
  <2>. QED  BY <1>1, <2>1 DEF SessionInv
<1>. QED  BY <1>1, <1>3, <1>5, <1>6, <1>7 DEF SessionInv

LEMMA BeginKeepsSession ==
  ASSUME TypeInv, JobInv, LegInv, SingleInv, SessionInv, resends = 0,
         NEW u \in Turns, JobMoves(u), BeginJob(u)
  PROVE  SessionInv'
<1>1. /\ UNCHANGED <<leg, slot, resends, restarts>> /\ stored' = stored
      /\ \A v \in Turns : v # u => turn'[v] = turn[v]
      /\ turn'[u].dropped = turn[u].dropped
  BY DEF JobMoves, BeginJob
<1>2. /\ turn[u].job = "queued"
      /\ Becomes(u, "thinking", turn[u].early, turn[u].trimmed, turn[u].done, turn[u].twiml, turn[u].kept)
      /\ turn'[u].sid \in Sessions /\ known' = turn'[u].sid
      /\ (turn'[u].shut <=> stored[turn'[u].sid] = "closed")
      /\ turn'[u].sid \in (IF Found THEN {known} ELSE FreshSessions)
  BY BeginJobEffect
<1>3. Own(u) /\ slot = u
  BY <1>2 DEF Own, Alive, Running, JobInv, SingleInv
<1>4. \A v \in Turns : Own(v)' => v = u
  <2>1. \A v \in Turns : v # u => (Own(v)' <=> Own(v))
    BY <1>1 DEF Own, Alive
  <2>. QED  BY <1>3, <2>1 DEF SingleInv
<1>5. Rows' = Rows /\ (Found' <=> Found)
  <2>1. Rows' = Rows
    BY <1>1 DEF Rows
  <2>2. Found' <=> Found
    <3>1. CASE Found
      BY <1>1, <1>2, <3>1 DEF Found
    <3>2. CASE ~Found
      <4>1. stored[turn'[u].sid] = "none"
        BY <1>2, <3>2 DEF FreshSessions
      <4>. QED  BY <1>1, <1>2, <3>2, <4>1 DEF Found
    <3>. QED  BY <3>1, <3>2
  <2>. QED  BY <2>1, <2>2
<1>6. Stray' <=> Stray
  BY <1>2, StrayStays DEF Becomes
<1>7. ~turn'[u].shut => GoesOn'
  BY <1>1, <1>2 DEF GoesOn
<1>8. leg.at \in {"fetching", "following"} /\ leg.kind # "silence" => turn'[leg.tok].twiml # "gather"
  <2>1. leg.at \in {"fetching", "following"} => leg.tok = u
    BY <1>3, Bounds DEF SingleInv
  <2>2. turn'[u].twiml = "none"
    BY <1>2 DEF Becomes, JobInv
  <2>. QED  BY <2>1, <2>2
<1>9. leg.at # "listening"
  BY <1>3, Bounds DEF SingleInv
<1>. QED  BY <1>1, <1>2, <1>4, <1>5, <1>6, <1>7, <1>8, <1>9 DEF SessionInv

TurnInv ==
  TypeInv /\ JobInv /\ LegInv /\ PollInv /\ SingleInv /\ AskInv /\ SessionInv /\ FreezeInv

LEMMA JobKeepsSession ==
  ASSUME TurnInv, NEW u \in Turns, RunJob(u), ~Freeze(u)
  PROVE  SessionInv'
<1>. USE DEF TurnInv
<1>1. JobMoves(u)
  BY JobsMove
<1>2. CASE resends # 0
  <2>1. resends' # 0
    BY <1>1, <1>2 DEF JobMoves
  <2>. QED  BY <2>1 DEF SessionInv
<1>3. CASE resends = 0
  <2>1. CASE BeginJob(u)
    BY <1>1, <1>3, <2>1, BeginKeepsSession
  <2>t. turn[u].job \in Running => turn[u].twiml = "none"
    BY DEF JobInv, Running
  <2>2. CASE BeginEarly(u)
    <3>1. UNCHANGED <<known, stored>>
      BY <2>2 DEF BeginEarly
    <3>2. /\ turn[u].job = "thinking" /\ SameSession(u) /\ turn'[u].job = "voicing"
          /\ turn'[u].twiml # "gather" /\ (turn'[u].kept <=> turn[u].kept)
      BY <2>2, <2>t, BeginEarlyEffect DEF Becomes, Running
    <3>. QED  BY <1>1, <1>3, <3>1, <3>2, QuietJobKeepsSession
  <2>3. CASE \E a \in BOOLEAN : EndEarly(u, a)
    <3>1. UNCHANGED <<known, stored>>
      BY <2>3 DEF EndEarly
    <3>2. /\ turn[u].job = "voicing" /\ SameSession(u) /\ turn'[u].job = "thinking"
          /\ turn'[u].twiml # "gather" /\ (turn'[u].kept <=> turn[u].kept)
      BY <2>3, <2>t, EndEarlyEffect DEF Becomes, Running
    <3>. QED  BY <1>1, <1>3, <3>1, <3>2, QuietJobKeepsSession
  <2>4. CASE Answer(u)
    <3>0. known' = known /\ turn[u].job = "thinking" /\ turn[u].twiml = "none"
      BY <2>4, <2>t DEF Answer, Running
    <3>1. PICK trims \in IF turn[u].early = "none" THEN {FALSE} ELSE BOOLEAN :
            \/ /\ stored' = Committed(turn[u].sid, TRUE) /\ SameSession(u)
               /\ Becomes(u, "closing", turn[u].early, trims, turn[u].done, turn[u].twiml, TRUE)
            \/ /\ ~turn[u].shut /\ stored' = stored /\ SameSession(u)
               /\ Becomes(u, "replying", turn[u].early, trims, turn[u].done, turn[u].twiml, turn[u].kept)
            \/ /\ ~turn[u].shut /\ trims /\ stored' = Committed(turn[u].sid, FALSE)
               /\ Becomes(u, "ended", turn[u].early, TRUE, TRUE, "gather", TRUE)
      BY <2>4, AnswerEffect
    <3>2. CASE /\ stored' = Committed(turn[u].sid, TRUE) /\ SameSession(u)
               /\ Becomes(u, "closing", turn[u].early, trims, turn[u].done, turn[u].twiml, TRUE)
      <4>1. turn'[u].job = "closing" /\ turn'[u].kept /\ turn'[u].twiml # "gather"
        BY <3>0, <3>2 DEF Becomes
      <4>. QED  BY <1>1, <1>3, <3>0, <3>2, <4>1, CommitKeepsSession
    <3>3. CASE /\ ~turn[u].shut /\ stored' = stored /\ SameSession(u)
               /\ Becomes(u, "replying", turn[u].early, trims, turn[u].done, turn[u].twiml, turn[u].kept)
      <4>1. turn'[u].job = "replying" /\ turn'[u].twiml # "gather" /\ (turn'[u].kept <=> turn[u].kept)
        BY <3>0, <3>3 DEF Becomes
      <4>. QED  BY <1>1, <1>3, <3>0, <3>3, <4>1, QuietJobKeepsSession
    <3>4. CASE /\ ~turn[u].shut /\ stored' = Committed(turn[u].sid, FALSE)
               /\ Becomes(u, "ended", turn[u].early, TRUE, TRUE, "gather", TRUE)
      <4>1. turn'[u].job = "ended" /\ turn'[u].kept
        BY <3>4 DEF Becomes
      <4>. QED  BY <1>1, <1>3, <3>0, <3>4, <4>1, CommitKeepsSession
    <3>. QED  BY <3>1, <3>2, <3>3, <3>4
  <2>5. CASE EndReply(u)
    <3>1. known' = known
      BY <2>5 DEF EndReply
    <3>2. turn[u].job = "replying" /\ stored' = Committed(turn[u].sid, FALSE)
          /\ turn'[u].job = "ended" /\ turn'[u].kept /\ ~turn[u].shut
      BY <2>5, EndReplyEffect DEF Becomes, JobInv
    <3>. QED  BY <1>1, <1>3, <3>1, <3>2, CommitKeepsSession
  <2>6. CASE EndClosing(u)
    <3>1. UNCHANGED <<known, stored>>
      BY <2>6 DEF EndClosing
    <3>2. /\ turn[u].job = "closing" /\ turn'[u].job = "ended"
          /\ turn'[u].twiml # "gather" /\ (turn'[u].kept <=> turn[u].kept)
      BY <2>6, EndClosingEffect DEF Becomes
    <3>. QED  BY <1>1, <1>3, <3>1, <3>2, QuietJobKeepsSession
  <2>7. CASE FailJob(u)
    <3>1. UNCHANGED <<known, stored>> /\ turn[u].job \in Running
      BY <2>7 DEF FailJob
    <3>2. /\ turn'[u].job = "ended"
          /\ turn'[u].twiml # "gather" /\ (turn'[u].kept <=> turn[u].kept)
      BY <2>7, <2>t, <3>1, FailJobEffect DEF Becomes
    <3>. QED  BY <1>1, <1>3, <3>1, <3>2, QuietJobKeepsSession
  <2>. QED  BY <2>1, <2>2, <2>3, <2>4, <2>5, <2>6, <2>7 DEF RunJob
<1>4. resends \in Nat
  BY DEF TypeInv
<1>. QED  BY <1>2, <1>3, <1>4

\* Two jobs at the rows of one session: one of them survived its cancellation.
LEMMA FreezeKeeps ==
  ASSUME TurnInv, NEW u \in Turns, Freeze(u)
  PROVE  TurnInv'
<1>1. frozen' = TRUE /\ turn[u].job = "thinking"
      /\ UNCHANGED <<leg, web, slot, turn, known, stored, empties, resends, restarts>>
  BY DEF Freeze
<1>2. PICK v \in Turns \ {u} : turn[v].job = "replying"
  BY DEF Freeze, RowsHeld
<1>3. resends = 0 => Survivor(u) \/ Survivor(v)
  <2>1. Alive(u) /\ Alive(v)
    BY <1>1, <1>2 DEF Alive, Running
  <2>2. resends = 0 => ~(Own(u) /\ Own(v))
    BY <1>2 DEF TurnInv, SingleInv
  <2>. QED  BY <2>1, <2>2 DEF Own, Survivor
<1>4. FreezeInv'
  BY <1>1, <1>2, <1>3 DEF FreezeInv, Survivor, Alive
<1>5. TypeInv'
  BY <1>1 DEF TurnInv, TypeInv, LegTypes, SessionTypes
<1>6. (JobInv /\ LegInv /\ PollInv)'
  BY <1>1 DEF TurnInv, JobInv, LegInv, PollInv, Spared
<1>7. (SingleInv /\ AskInv /\ SessionInv)'
  BY <1>1 DEF TurnInv, SingleInv, AskInv, SessionInv, Own, Alive, Stray, Found, GoesOn, Rows, Calm
<1>. QED  BY <1>4, <1>5, <1>6, <1>7 DEF TurnInv

LEMMA JobStep ==
  ASSUME TurnInv, NEW u \in Turns, RunJob(u)
  PROVE  TurnInv'
<1>1. CASE Freeze(u)
  BY <1>1, FreezeKeeps
<1>2. CASE ~Freeze(u)
  <2>1. JobMoves(u) /\ JobInv' /\ UNCHANGED frozen
    BY <1>2, JobsMove DEF TurnInv
  <2>2. ~frozen
    BY <1>2 DEF RunJob, BeginJob, BeginEarly, EndEarly, Answer, EndReply, EndClosing, FailJob
  <2>3. TypeInv'
    BY JobKeepsTypes DEF TurnInv
  <2>4. LegInv' /\ PollInv' /\ SingleInv' /\ AskInv'
    BY <2>1, JobKeepsLeg, JobKeepsPolls, JobKeepsSingle, JobKeepsAsk DEF TurnInv
  <2>5. SessionInv'
    BY <1>2, JobKeepsSession
  <2>6. FreezeInv'
    BY <2>1, <2>2 DEF FreezeInv
  <2>. QED  BY <2>1, <2>3, <2>4, <2>5, <2>6 DEF TurnInv
<1>. QED  BY <1>1, <1>2

-----------------------------------------------------------------------------
(* The steps of handlers and of Twilio *)

\* A turn that is served, counted or dropped: it keeps what it said and recorded,
\* and its job goes on as it is, ends, or is no longer its own.
MildAt(v) ==
  /\ turn'[v].trimmed = turn[v].trimmed /\ turn'[v].twiml = turn[v].twiml
  /\ turn'[v].kept = turn[v].kept
  /\ turn'[v].early = turn[v].early \/ turn'[v].early = "taken"
  /\ turn'[v].job = turn[v].job \/ (turn[v].job \in Running /\ turn'[v].job = "ended")
  /\ turn[v].done => turn'[v].done
  /\ turn[v].dropped # "no" => turn'[v].dropped = turn[v].dropped
  /\ Own(v)' => /\ Own(v) /\ turn'[v].job = turn[v].job /\ turn'[v].sid = turn[v].sid
                /\ turn'[v].shut = turn[v].shut
JobFacts(t) ==
  /\ t.trimmed => t.early # "none"
  /\ t.job \in {"queued", "thinking", "voicing"} => ~t.trimmed
  /\ t.job = "voicing" => t.early = "none"
  /\ t.done => t.job = "ended"
  /\ t.twiml # "none" => t.done
  /\ t.job = "queued" => t.dropped # "running"
  /\ t.job \in Running \ {"queued"} => t.sid \in Sessions
  /\ t.job = "replying" => ~t.shut

LEMMA JobFactsHold == JobInv <=> \A v \in Turns : JobFacts(turn[v])
BY DEF JobInv, JobFacts

\* A turn that is dropped.
LEMMA DropIsMild ==
  ASSUME TypeInv, JobInv, LegInv, NEW v \in Turns, turn'[v] = turn[v] \/ (v = slot /\ DroppedTo(turn[v], turn'[v]))
  PROVE  /\ MildAt(v) /\ turn'[v].polls = turn[v].polls /\ JobFacts(turn'[v])
         /\ v = slot /\ turn'[v] # turn[v] => turn'[v].dropped # "no" /\ ~Own(v)'
<1>0. JobFacts(turn[v]) /\ turn[v] \in AnyTurn
  BY JobFactsHold DEF TypeInv
<1>1. CASE turn'[v] = turn[v]
  BY <1>0, <1>1 DEF MildAt, Own, Alive
<1>2. CASE v = slot /\ DroppedTo(turn[v], turn'[v])
  <2>1. turn[v].dropped = "no"
    BY <1>2, Bounds DEF LegInv
  <2>2. ~Own(v)' /\ turn'[v].dropped # "no"
    BY <1>2 DEF DroppedTo, Own, Alive, Running
  <2>3. turn'[v].twiml = "none" \/ turn'[v].done
    BY <1>0, <1>2 DEF JobFacts, DroppedTo, Running
  <2>4. turn[v].done => turn'[v].done
    BY <1>0, <1>2 DEF JobFacts, DroppedTo, Running, InSpeech
  <2>5. JobFacts(turn'[v])
    BY <1>0, <1>2, <2>3 DEF JobFacts, DroppedTo, Running, InSpeech
  <2>6. MildAt(v) /\ turn'[v].polls = turn[v].polls
    BY <1>0, <1>2, <2>1, <2>2, <2>4 DEF MildAt, DroppedTo, Running, InSpeech
  <2>. QED  BY <2>2, <2>5, <2>6
<1>. QED  BY <1>1, <1>2

\* Turns that a step serves, drops or leaves alone.
Mild ==
  /\ turn' \in [Turns -> AnyTurn]
  /\ \A v \in Turns : MildAt(v) /\ turn'[v].polls = turn[v].polls

LEMMA MildFacts ==
  ASSUME TypeInv, Mild
  PROVE  /\ \A v \in Turns : turn[v].job # "unused" => turn'[v].job # "unused"
         /\ \A v \in Turns : turn[v].job = "ended" => turn'[v].job = "ended"
         /\ \A v \in Turns : Spared(v) <= Spared(v)' /\ Spared(v) \in Nat /\ Spared(v)' \in Nat
         /\ Stray => Stray'
BY DEF Mild, MildAt, Running, Spared, Stray

\* The handler in w answers, with the document Twilio waits for or with one that
\* nobody executes any more.
Answered(w, at, kind, tok) ==
  /\ LegTypes'
  /\ web'[w] = Idle /\ \A x \in Webhooks : x # w => web'[x] = web[x]
  /\ \/ leg' = leg /\ ~(leg.at = "fetching" /\ leg.web = w)
     \/ /\ leg.at = "fetching" /\ leg.web = w /\ web[w] = Handling(leg.kind, leg.tok)
        /\ leg'.at = at /\ leg'.kind = kind /\ leg'.tok = tok /\ leg'.web = None

LEMMA RespondAnswers ==
  ASSUME TypeInv, LegInv, NEW w \in Webhooks,
         NEW at \in {"listening", "following", "over"},
         NEW kind \in {"idle", "result", "answer", "again"}, NEW tok \in Turns \cup {None},
         Respond(w, Leg(at, kind, tok, None))
  PROVE  Answered(w, at, kind, tok)
<1>1. web' = [web EXCEPT ![w] = Idle]
  BY DEF Respond
<1>2. Idle \in [kind : {"idle", "turn", "silence", "result"}, tok : Turns \cup {None}]
  BY DEF Idle
<1>3. web' \in [Webhooks -> [kind : {"idle", "turn", "silence", "result"}, tok : Turns \cup {None}]]
      /\ web'[w] = Idle /\ \A x \in Webhooks : x # w => web'[x] = web[x]
  BY <1>1, <1>2 DEF TypeInv, LegTypes
<1>4. Leg(at, kind, tok, None) \in
        [at : {"ringing", "listening", "fetching", "following", "over"},
         kind : {"idle", "turn", "silence", "result", "answer", "again"},
         tok : Turns \cup {None}, web : Webhooks \cup {None}]
  BY DEF Leg
<1>5. CASE leg.at = "fetching" /\ leg.web = w
  <2>1. leg' = Leg(at, kind, tok, None)
    BY <1>5 DEF Respond
  <2>2. web[w] = Handling(leg.kind, leg.tok)
    BY <1>5, Bounds DEF LegInv
  <2>3. leg'.at = at /\ leg'.kind = kind /\ leg'.tok = tok /\ leg'.web = None
    BY <2>1 DEF Leg
  <2>. QED  BY <1>3, <1>4, <1>5, <2>1, <2>2, <2>3 DEF Answered, LegTypes
<1>6. CASE ~(leg.at = "fetching" /\ leg.web = w)
  <2>1. leg' = leg
    BY <1>6 DEF Respond
  <2>. QED  BY <1>3, <1>6, <2>1 DEF Answered, LegTypes, TypeInv
<1>. QED  BY <1>5, <1>6

\* What an answer keeps, given what its document says: the turn it names is the
\* handler's, one that goes on is polled again, one that is asked for was dropped or
\* failed, one that is answered can go on.
AnswerFits(w, at, kind, tok) ==
  /\ at = "following" => kind = "result" /\ slot' = slot
  /\ at = "listening" => kind # "result"
  /\ at = "over" => kind = "answer"
  /\ kind # "idle" => tok = web[w].tok /\ web[w].kind \in {"turn", "result"}
  /\ kind = "answer" => turn'[tok].job = "ended" /\ (turn'[tok].trimmed => turn'[tok].early = "taken")
  /\ kind = "answer" /\ at = "listening" => turn'[tok].twiml = "gather"
  /\ leg.at = "fetching" /\ leg.web = w =>
       /\ at = "listening" /\ resends = 0 => slot' = None
       /\ at = "following" => turn'[tok].polls < MaxPolls + Spared(tok)' + resends
       /\ kind = "again" /\ Calm
            => turn'[tok].dropped # "no" \/ (turn'[tok].done /\ turn'[tok].twiml = "none")

LEMMA AnsweredKeeps ==
  ASSUME TurnInv, Mild, JobInv', UNCHANGED <<known, stored, empties, resends, restarts>>,
         slot' \in {slot, None}, slot' = slot => slot = None \/ turn'[slot].dropped = "no",
         ~frozen, frozen' = frozen,
         resends = 0 => \A v \in Turns : Own(v)' => slot' = v,
         NEW w \in Webhooks, web[w] # Idle,
         NEW at \in {"listening", "following", "over"},
         NEW kind \in {"idle", "result", "answer", "again"}, NEW tok \in Turns \cup {None},
         Answered(w, at, kind, tok), AnswerFits(w, at, kind, tok)
  PROVE  TurnInv'
<1>. DEFINE mine == leg.at = "fetching" /\ leg.web = w
<1>0. /\ TypeInv /\ JobInv /\ LegInv /\ PollInv /\ SingleInv /\ AskInv /\ SessionInv
      /\ resends' = resends /\ restarts' = restarts
  BY DEF TurnInv
<1>1. TypeInv'
  BY <1>0 DEF TypeInv, Answered, SessionTypes, Mild
<1>2. LegInv'
  <2>1. slot' # None => turn'[slot'].job # "unused" /\ turn'[slot'].dropped = "no"
    BY <1>0, MildFacts DEF LegInv, TypeInv
  <2>2. \A x \in Webhooks : web'[x].kind \in {"turn", "result"}
          => web'[x].tok \in Turns /\ turn'[web'[x].tok].job # "unused"
    BY <1>0, MildFacts DEF LegInv, Answered, Idle
  <2>3. CASE leg' = leg /\ ~mine
    <3>1. leg.kind \in {"turn", "result", "answer", "again"}
            => leg.tok \in Turns /\ turn'[leg.tok].job # "unused"
      BY <1>0, MildFacts DEF LegInv
    <3>2. leg.kind = "answer" => turn'[leg.tok].job = "ended"
      BY <1>0, MildFacts DEF LegInv
    <3>3. leg.kind = "answer" /\ turn'[leg.tok].trimmed => turn'[leg.tok].early = "taken"
      BY <1>0 DEF LegInv, Mild, MildAt
    <3>4. leg.at = "fetching" /\ leg.web # None => web'[leg.web] = Handling(leg.kind, leg.tok)
      BY <1>0, <2>3 DEF LegInv, Answered, TypeInv, LegTypes
    <3>. QED  BY <1>0, <2>1, <2>2, <2>3, <3>1, <3>2, <3>3, <3>4 DEF LegInv
  <2>4. CASE mine /\ leg'.at = at /\ leg'.kind = kind /\ leg'.tok = tok /\ leg'.web = None
    <3>1. kind # "idle" => tok \in Turns /\ turn'[tok].job # "unused"
      BY <1>0, MildFacts DEF AnswerFits, LegInv
    <3>. QED  BY <2>1, <2>2, <2>4, <3>1 DEF LegInv, AnswerFits
  <2>. QED  BY <2>3, <2>4 DEF Answered
<1>3. PollInv'
  <2>1. \A v \in Turns : turn'[v].polls <= MaxPolls + Spared(v)' + resends
    <3>1. ASSUME NEW v \in Turns
          PROVE  turn'[v].polls <= MaxPolls + Spared(v)' + resends
      <4>1. turn'[v].polls = turn[v].polls /\ turn[v].polls \in Nat
        BY <1>0 DEF Mild, TypeInv, AnyTurn
      <4>2. Spared(v) <= Spared(v)' /\ Spared(v) \in Nat /\ Spared(v)' \in Nat
        BY <1>0, MildFacts
      <4>3. turn[v].polls <= MaxPolls + Spared(v) + resends /\ resends \in Nat
        BY <1>0 DEF PollInv, TypeInv
      <4>. QED  BY <4>1, <4>2, <4>3, Bounds
    <3>. QED  BY <3>1
  <2>2. CASE leg' = leg
    <3>1. leg.kind \in {"turn", "result"} => leg.tok \in Turns
      BY <1>0 DEF LegInv
    <3>2. leg.kind = "turn" => turn'[leg.tok].polls = 0
      BY <1>0, <3>1 DEF PollInv, Mild
    <3>3. leg.at = "following" => turn'[leg.tok].polls < MaxPolls + Spared(leg.tok)' + resends
      <4>1. ASSUME leg.at = "following"
            PROVE  turn'[leg.tok].polls < MaxPolls + Spared(leg.tok)' + resends
        <5>1. leg.tok \in Turns
          BY <1>0, <3>1, <4>1 DEF LegInv
        <5>2. turn'[leg.tok].polls = turn[leg.tok].polls /\ turn[leg.tok].polls \in Nat
          BY <1>0, <5>1 DEF Mild, TypeInv, AnyTurn
        <5>3. \A v \in Turns : Spared(v) <= Spared(v)' /\ Spared(v) \in Nat /\ Spared(v)' \in Nat
          BY <1>0, MildFacts
        <5>4. turn[leg.tok].polls < MaxPolls + Spared(leg.tok) + resends /\ resends \in Nat
          BY <1>0, <4>1 DEF PollInv, TypeInv
        <5>. DEFINE k == leg.tok
        <5>5. Spared(k) <= Spared(k)' /\ Spared(k) \in Nat /\ Spared(k)' \in Nat
          BY <2>2, <5>1, <5>3 DEF Spared
        <5>. QED  BY <2>2, <5>2, <5>4, <5>5, Bounds DEF Spared
      <4>. QED  BY <4>1
    <3>. QED  BY <1>0, <2>1, <2>2, <3>2, <3>3 DEF PollInv
  <2>3. CASE leg' # leg
    <3>1. mine /\ leg'.at = at /\ leg'.kind = kind /\ leg'.tok = tok
      BY <2>3 DEF Answered
    <3>2. leg'.at = "following" => turn'[leg'.tok].polls < MaxPolls + Spared(leg.tok)' + resends
      BY <3>1 DEF AnswerFits, Spared
    <3>. QED  BY <1>0, <2>1, <3>1, <3>2 DEF PollInv
  <2>. QED  BY <2>2, <2>3
<1>m. resends = 0 =>
        \/ leg.at = "over" /\ leg' = leg
        \/ mine /\ leg'.at = at /\ leg'.kind = kind /\ leg'.tok = tok
  BY <1>0 DEF SingleInv, Answered
<1>t. leg.kind = "result" \/ leg.kind = "turn" => leg.tok \in Turns
  BY <1>0 DEF LegInv
<1>k. mine => web[w].kind = leg.kind /\ web[w].tok = leg.tok
  BY <1>0, Bounds DEF LegInv, Handling
<1>4. SingleInv'
  <2>1. ASSUME resends = 0, NEW x \in Webhooks, web'[x] # Idle
        PROVE  leg'.at = "over" \/ (leg'.at = "fetching" /\ leg'.web = x)
    <3>1. x # w /\ web[x] # Idle
      BY <2>1 DEF Answered
    <3>. QED  BY <1>0, <1>m, <2>1, <3>1 DEF SingleInv
  <2>2. ASSUME resends = 0, NEW x \in Webhooks, web'[x].kind \in {"turn", "result"}
        PROVE  slot' \in {web'[x].tok, None}
    <3>1. x # w
      BY <2>2 DEF Answered, Idle
    <3>. QED  BY <1>0, <2>2, <3>1 DEF SingleInv, Answered
  <2>3. ASSUME resends = 0
        PROVE  /\ leg'.at # "over" => slot' \in {leg'.tok, None}
               /\ leg'.at \in {"ringing", "listening"} \/ leg'.kind = "silence" => slot' = None
    <3>1. CASE leg.at = "over" /\ leg' = leg
      BY <1>0, <3>1 DEF LegInv
    <3>2. CASE mine /\ leg'.at = at /\ leg'.kind = kind /\ leg'.tok = tok
      BY <1>0, <1>k, <2>3, <3>2 DEF SingleInv, AnswerFits
    <3>. QED  BY <1>m, <2>3, <3>1, <3>2
  <2>. QED  BY <1>0, <2>1, <2>2, <2>3 DEF SingleInv
<1>5. AskInv'
  <2>1. ASSUME Calm
        PROVE  /\ leg'.at \in {"fetching", "following"} /\ leg'.kind # "silence"
                    => slot' = leg'.tok \/ turn'[leg'.tok].dropped # "no"
               /\ leg'.kind = "again"
                    => turn'[leg'.tok].dropped # "no" \/ (turn'[leg'.tok].done /\ turn'[leg'.tok].twiml = "none")
    <3>0. resends = 0
      BY <2>1 DEF Calm
    <3>1. CASE leg.at = "over" /\ leg' = leg
      BY <1>0, <3>1 DEF LegInv
    <3>2. CASE mine /\ leg'.at = at /\ leg'.kind = kind /\ leg'.tok = tok
      <4>1. CASE at = "following"
        <5>1. slot = leg.tok \/ turn[leg.tok].dropped # "no"
          BY <1>0, <1>k, <2>1, <3>2, <4>1 DEF AskInv, AnswerFits
        <5>2. tok = leg.tok /\ slot' = slot /\ leg.tok \in Turns
          BY <1>k, <1>t, <3>2, <4>1 DEF AnswerFits
        <5>3. slot' = tok \/ turn'[tok].dropped # "no"
          BY <5>1, <5>2 DEF Mild, MildAt
        <5>. QED  BY <3>2, <4>1, <5>3 DEF AnswerFits
      <4>2. CASE at # "following"
        BY <2>1, <3>2, <4>2 DEF AnswerFits
      <4>. QED  BY <4>1, <4>2
    <3>. QED  BY <1>m, <3>0, <3>1, <3>2
  <2>. QED  BY <1>0, <2>1 DEF AskInv, Calm
<1>6. SessionInv'
  <2>1. ASSUME resends = 0
        PROVE  /\ \A v \in Turns : Own(v)' /\ turn'[v].job # "queued" => turn'[v].sid = known
               /\ Stray' \/ Cardinality(Rows) <= restarts + (IF Found THEN 1 ELSE 0)
               /\ \A v \in Turns :
                    Own(v)' /\ turn'[v].job \in {"thinking", "voicing", "replying"} /\ ~turn'[v].shut
                      => GoesOn \/ Stray'
    BY <1>0, <2>1, MildFacts DEF SessionInv, Mild, MildAt
  <2>2. ASSUME resends = 0
        PROVE  /\ leg'.at \in {"fetching", "following"} /\ leg'.kind # "silence"
                    /\ turn'[leg'.tok].twiml = "gather" => GoesOn \/ Stray'
               /\ leg'.at = "listening" /\ leg'.kind = "answer" => GoesOn \/ Stray'
    <3>1. CASE leg.at = "over" /\ leg' = leg
      BY <3>1
    <3>2. CASE mine /\ leg'.at = at /\ leg'.kind = kind /\ leg'.tok = tok
      <4>1. CASE kind = "idle"
        BY <3>2, <4>1 DEF AnswerFits
      <4>2. CASE kind # "idle"
        <5>1. tok = leg.tok /\ leg.kind \in {"turn", "result"} /\ tok \in Turns
          BY <1>k, <1>t, <3>2, <4>2 DEF AnswerFits
        <5>2. turn'[tok].twiml = turn[tok].twiml
          BY <5>1 DEF Mild, MildAt
        <5>3. turn[tok].twiml = "gather" => GoesOn \/ Stray
          BY <1>0, <2>2, <3>2, <5>1 DEF SessionInv
        <5>4. Stray => Stray'
          BY <1>0, MildFacts
        <5>. QED  BY <3>2, <5>2, <5>3, <5>4 DEF AnswerFits
      <4>. QED  BY <4>1, <4>2
    <3>. QED  BY <1>m, <2>2, <3>1, <3>2
  <2>3. Rows' = Rows /\ (Found' <=> Found) /\ (GoesOn' <=> GoesOn)
    BY DEF Rows, Found, GoesOn
  <2>. QED  BY <1>0, <2>1, <2>2, <2>3 DEF SessionInv
<1>7. FreezeInv'
  BY DEF FreezeInv
<1>. QED  BY <1>1, <1>2, <1>3, <1>4, <1>5, <1>6, <1>7 DEF TurnInv

\* A step that leaves the turns alone.
LEMMA SameTurns ==
  ASSUME TypeInv, JobInv, turn' = turn
  PROVE  Mild /\ JobInv' /\ \A v \in Turns : Own(v)' <=> Own(v)
BY DEF TypeInv, Mild, MildAt, JobInv, Own, Alive

\* The pending turn is dropped.
LEMMA DropTurn ==
  ASSUME TypeInv, JobInv, LegInv, SingleInv, turn' \in Dropped
  PROVE  /\ Mild /\ JobInv'
         /\ slot # None => turn'[slot].dropped # "no"
         /\ resends = 0 => \A v \in Turns : ~Own(v)'
<1>1. /\ turn' \in [Turns -> AnyTurn] /\ \A u \in Turns : u # slot => turn'[u] = turn[u]
      /\ slot # None => DroppedTo(turn[slot], turn'[slot])
  <2>. DEFINE rest == turn'
  <2>1. rest \in Dropped
    OBVIOUS
  <2>. HIDE DEF rest
  <2>2. /\ rest \in [Turns -> AnyTurn]
        /\ \A u \in Turns : u # slot => rest[u] = turn[u]
        /\ slot # None => DroppedTo(turn[slot], rest[slot])
    BY <2>1, DroppedTurns
  <2>. QED  BY <2>2 DEF rest
<1>2. \A v \in Turns : turn'[v] = turn[v] \/ (v = slot /\ DroppedTo(turn[v], turn'[v]))
  BY <1>1, Bounds
<1>3. \A v \in Turns : /\ MildAt(v) /\ turn'[v].polls = turn[v].polls /\ JobFacts(turn'[v])
                       /\ v = slot /\ turn'[v] # turn[v] => turn'[v].dropped # "no" /\ ~Own(v)'
  BY <1>2, DropIsMild
<1>4. slot # None => turn'[slot].dropped # "no"
  BY <1>1 DEF DroppedTo
<1>5. resends = 0 => \A v \in Turns : ~Own(v)'
  <2>1. ASSUME resends = 0, NEW v \in Turns, Own(v)'
        PROVE  FALSE
    <3>1. Own(v)
      BY <1>3, <2>1 DEF MildAt
    <3>2. slot = v
      BY <2>1, <3>1 DEF SingleInv
    <3>. QED  BY <1>1, <2>1, <3>2, Bounds DEF DroppedTo, Own, Alive, Running
  <2>. QED  BY <2>1
<1>6. JobInv'
  BY <1>3 DEF JobInv, JobFacts
<1>. QED  BY <1>1, <1>3, <1>4, <1>5, <1>6 DEF Mild

LEMMA TimeOutKeeps ==
  ASSUME TurnInv, NEW w \in Webhooks, TimeOut(w)
  PROVE  TurnInv'
<1>. DEFINE mine == leg.at = "fetching" /\ leg.web = w
<1>0. /\ TypeInv /\ JobInv /\ LegInv /\ PollInv /\ SingleInv /\ AskInv /\ SessionInv
      /\ ~frozen /\ web[w].kind \in {"turn", "result"} /\ web[w] # Idle
      /\ UNCHANGED <<known, stored, empties, frozen, resends, restarts>>
  BY DEF TurnInv, TimeOut, Idle
<1>1. PICK u \in Turns : u = web[w].tok
  BY <1>0 DEF LegInv
<1>2. mine => leg.tok = u /\ leg.kind = web[w].kind
  BY <1>0, <1>1, Bounds DEF LegInv, Handling
<1>3. turn[u].polls \in Nat /\ Spared(u) \in Nat /\ resends \in Nat
  BY <1>0, <1>1 DEF TypeInv, AnyTurn, Spared
<1>4. CASE web[w].kind = "result" /\ Exhausted(turn[u])
  <2>1. Respond(w, Leg("listening", "again", u, None)) /\ turn' \in Dropped /\ slot' = None
    BY <1>1, <1>4 DEF TimeOut, Playing
  <2>2. Answered(w, "listening", "again", u)
    BY <1>0, <1>1, <2>1, RespondAnswers
  <2>3. /\ Mild /\ JobInv' /\ (slot # None => turn'[slot].dropped # "no")
        /\ (resends = 0 => \A v \in Turns : ~Own(v)')
    BY <1>0, <2>1, DropTurn
  <2>4. mine /\ Calm => turn'[u].dropped # "no"
    <3>1. mine /\ Calm => slot = u \/ turn[u].dropped # "no"
      BY <1>0, <1>2 DEF AskInv
    <3>. QED  BY <1>1, <2>3, <3>1, Bounds DEF Mild, MildAt
  <2>5. AnswerFits(w, "listening", "again", u)
    BY <1>0, <1>1, <2>1, <2>4 DEF AnswerFits
  <2>. QED  BY <1>0, <1>1, <2>1, <2>2, <2>3, <2>5, AnsweredKeeps
<1>5. CASE ~(web[w].kind = "result" /\ Exhausted(turn[u]))
  <2>1. Respond(w, Leg("following", "result", u, None)) /\ UNCHANGED <<turn, slot>>
    BY <1>1, <1>5 DEF TimeOut, Following
  <2>2. Answered(w, "following", "result", u)
    BY <1>0, <1>1, <2>1, RespondAnswers
  <2>3. Mild /\ JobInv' /\ \A v \in Turns : Own(v)' <=> Own(v)
    BY <1>0, <2>1, SameTurns
  <2>4. mine => turn'[u].polls < MaxPolls + Spared(u)' + resends
    <3>1. Spared(u)' = Spared(u) /\ turn'[u].polls = turn[u].polls
      BY <2>1 DEF Spared
    <3>2. CASE web[w].kind = "turn"
      BY <1>0, <1>2, <1>3, <3>1, <3>2, Bounds DEF PollInv
    <3>3. CASE web[w].kind = "result"
      BY <1>0, <1>2, <1>3, <1>5, <3>1, <3>3, Bounds DEF Exhausted
    <3>. QED  BY <1>0, <3>2, <3>3
  <2>5. AnswerFits(w, "following", "result", u)
    BY <1>0, <1>1, <2>1, <2>4 DEF AnswerFits
  <2>6. slot' = slot /\ (slot = None \/ turn'[slot].dropped = "no")
    BY <1>0, <2>1 DEF LegInv
  <2>7. resends = 0 => \A v \in Turns : Own(v)' => slot' = v
    BY <1>0, <2>1, <2>3 DEF SingleInv
  <2>. QED  BY <1>0, <1>1, <2>2, <2>3, <2>5, <2>6, <2>7, AnsweredKeeps
<1>. QED  BY <1>4, <1>5

LEMMA SpeakEarlyKeeps ==
  ASSUME TurnInv, NEW w \in Webhooks, SpeakEarly(w)
  PROVE  TurnInv'
<1>. DEFINE mine == leg.at = "fetching" /\ leg.web = w
<1>i. TypeInv /\ JobInv /\ LegInv /\ PollInv /\ SingleInv /\ web[w].kind \in {"turn", "result"}
  BY DEF TurnInv, SpeakEarly
<1>p. PICK u \in Turns : u = web[w].tok
  BY <1>i DEF LegInv
<1>0. /\ TypeInv /\ JobInv /\ LegInv /\ PollInv /\ SingleInv
      /\ ~frozen /\ web[w].kind \in {"turn", "result"} /\ web[w] # Idle
      /\ turn[u].early = "ready" /\ Respond(w, Leg("following", "result", u, None))
      /\ UNCHANGED <<slot, known, stored, empties, frozen, resends, restarts>>
  BY <1>i, <1>p DEF SpeakEarly, Idle, Following
<1>1. u \in Turns /\ turn[u] \in AnyTurn
  BY <1>0 DEF TypeInv
<1>2. mine => leg.tok = u /\ leg.kind = web[w].kind
  BY <1>0, <1>p, Bounds DEF LegInv, Handling
<1>3. /\ turn' \in [Turns -> AnyTurn] /\ \A v \in Turns : v # u => turn'[v] = turn[v]
      /\ turn'[u].early = "taken" /\ turn'[u].job = turn[u].job /\ turn'[u].sid = turn[u].sid
      /\ turn'[u].shut = turn[u].shut /\ turn'[u].trimmed = turn[u].trimmed
      /\ turn'[u].done = turn[u].done /\ turn'[u].twiml = turn[u].twiml
      /\ turn'[u].polls = turn[u].polls /\ turn'[u].kept = turn[u].kept
      /\ turn'[u].dropped = turn[u].dropped
  <2>. DEFINE t == [turn[u] EXCEPT !.early = "taken"]
  <2>1. t \in AnyTurn
    BY <1>1 DEF AnyTurn
  <2>2. turn' = [turn EXCEPT ![u] = t]
    BY <1>p DEF SpeakEarly
  <2>3. turn' \in [Turns -> AnyTurn] /\ turn'[u] = t /\ \A v \in Turns : v # u => turn'[v] = turn[v]
    BY <1>0, <1>1, <2>1, <2>2, Update
  <2>. QED  BY <1>1, <2>3 DEF AnyTurn
<1>4. Answered(w, "following", "result", u)
  BY <1>0, <1>1, RespondAnswers
<1>5. \A v \in Turns : MildAt(v) /\ turn'[v].polls = turn[v].polls /\ (Own(v)' <=> Own(v))
  BY <1>3 DEF MildAt, Own, Alive
<1>6. JobInv'
  BY <1>0, <1>1, <1>3 DEF JobInv
<1>7. mine => turn'[u].polls < MaxPolls + Spared(u)' + resends
  <2>1. Spared(u) = 0 /\ Spared(u)' = 1
    BY <1>0, <1>3 DEF Spared
  <2>2. turn'[u].polls = turn[u].polls /\ turn[u].polls \in Nat /\ resends \in Nat
    BY <1>0, <1>1, <1>3 DEF AnyTurn, TypeInv
  <2>3. turn[u].polls <= MaxPolls + Spared(u) + resends
    BY <1>0, <1>1 DEF PollInv
  <2>. QED  BY <2>1, <2>2, <2>3, Bounds
<1>8. AnswerFits(w, "following", "result", u)
  BY <1>0, <1>p, <1>7 DEF AnswerFits
<1>9. slot = None \/ turn'[slot].dropped = "no"
  BY <1>0, <1>3 DEF LegInv, TypeInv
<1>10. resends = 0 => \A v \in Turns : Own(v)' => slot' = v
  BY <1>0, <1>5 DEF SingleInv
<1>. QED  BY <1>0, <1>1, <1>3, <1>4, <1>5, <1>6, <1>8, <1>9, <1>10, AnsweredKeeps DEF Mild

LEMMA ServeAnswerKeeps ==
  ASSUME TurnInv, NEW w \in Webhooks, ServeAnswer(w)
  PROVE  TurnInv'
<1>i. TypeInv /\ JobInv /\ LegInv /\ SingleInv /\ web[w].kind \in {"turn", "result"}
  BY DEF TurnInv, ServeAnswer
<1>p. PICK u \in Turns : u = web[w].tok
  BY <1>i DEF LegInv
<1>0. /\ TypeInv /\ JobInv /\ LegInv /\ SingleInv
      /\ ~frozen /\ web[w].kind \in {"turn", "result"} /\ web[w] # Idle
      /\ turn[u].done /\ turn[u].early # "ready" /\ slot' = None
      /\ UNCHANGED <<turn, known, stored, empties, frozen, resends, restarts>>
  BY <1>i, <1>p DEF ServeAnswer, Progressed, Idle
<1>1. u \in Turns /\ turn[u] \in AnyTurn
  BY <1>0 DEF TypeInv
<1>2. turn[u].job = "ended" /\ (turn[u].trimmed => turn[u].early = "taken")
  BY <1>0, <1>1 DEF JobInv, AnyTurn
<1>3. Mild /\ JobInv' /\ \A v \in Turns : Own(v)' <=> Own(v)
  BY <1>0, SameTurns
<1>4. resends = 0 => \A v \in Turns : ~Own(v)'
  BY <1>0, <1>p, <1>1, <1>2, <1>3, Bounds DEF SingleInv, Own, Alive, Running
<1>5. CASE turn[u].twiml = "none"
  <2>1. Respond(w, Leg("listening", "again", u, None))
    BY <1>p, <1>5 DEF ServeAnswer, Playing
  <2>2. Answered(w, "listening", "again", u)
    BY <1>0, <1>1, <2>1, RespondAnswers
  <2>3. AnswerFits(w, "listening", "again", u)
    BY <1>0, <1>p, <1>5 DEF AnswerFits
  <2>. QED  BY <1>0, <1>1, <1>3, <1>4, <2>2, <2>3, AnsweredKeeps
<1>6. CASE turn[u].twiml = "gather"
  <2>1. Respond(w, Leg("listening", "answer", u, None))
    BY <1>p, <1>6 DEF ServeAnswer, Playing
  <2>2. Answered(w, "listening", "answer", u)
    BY <1>0, <1>1, <2>1, RespondAnswers
  <2>3. AnswerFits(w, "listening", "answer", u)
    BY <1>0, <1>p, <1>2, <1>6 DEF AnswerFits
  <2>. QED  BY <1>0, <1>1, <1>3, <1>4, <2>2, <2>3, AnsweredKeeps
<1>7. CASE turn[u].twiml \notin {"none", "gather"}
  <2>1. Respond(w, Leg("over", "answer", u, None))
    BY <1>p, <1>7 DEF ServeAnswer
  <2>2. Answered(w, "over", "answer", u)
    BY <1>0, <1>1, <2>1, RespondAnswers
  <2>3. AnswerFits(w, "over", "answer", u)
    BY <1>0, <1>p, <1>2 DEF AnswerFits
  <2>. QED  BY <1>0, <1>1, <1>3, <1>4, <2>2, <2>3, AnsweredKeeps
<1>. QED  BY <1>5, <1>6, <1>7

LEMMA SpeakPromptKeeps ==
  ASSUME TurnInv, NEW w \in Webhooks, SpeakPrompt(w)
  PROVE  TurnInv'
<1>0. /\ TypeInv /\ JobInv /\ LegInv /\ SingleInv
      /\ ~frozen /\ web[w].kind = "silence" /\ web[w] # Idle
      /\ Respond(w, Leg("listening", "idle", None, None))
      /\ UNCHANGED <<slot, turn, known, stored, empties, frozen, resends, restarts>>
  BY DEF TurnInv, SpeakPrompt, Idle, Silent, Playing
<1>1. Mild /\ JobInv' /\ \A v \in Turns : Own(v)' <=> Own(v)
  BY <1>0, SameTurns
<1>2. Answered(w, "listening", "idle", None)
  BY <1>0, RespondAnswers
<1>3. leg.at = "fetching" /\ leg.web = w /\ resends = 0 => slot = None
  BY <1>0, Bounds DEF LegInv, Handling, SingleInv
<1>4. AnswerFits(w, "listening", "idle", None)
  BY <1>0, <1>3 DEF AnswerFits
<1>5. slot' = slot /\ (slot = None \/ turn'[slot].dropped = "no")
  BY <1>0 DEF LegInv
<1>6. resends = 0 => \A v \in Turns : Own(v)' => slot' = v
  BY <1>0, <1>1 DEF SingleInv
<1>. QED  BY <1>0, <1>1, <1>2, <1>4, <1>5, <1>6, AnsweredKeeps

\* A new turn, silence, or a poll.

\* The sessions after the record's one was found or another was stored.
LEMMA StoreEffect ==
  ASSUME TypeInv, StoreSession
  PROVE  /\ SessionTypes'
         /\ \/ Found /\ UNCHANGED <<known, stored>>
            \/ /\ ~Found /\ Rows' = Rows \cup {known'} /\ Found' /\ stored'[known'] = "open"
<1>1. CASE Found
  BY <1>1 DEF StoreSession, TypeInv, SessionTypes
<1>2. CASE ~Found
  <2>1. PICK s \in FreshSessions : known' = s /\ stored' = [stored EXCEPT ![s] = "open"]
    BY <1>2 DEF StoreSession
  <2>2. s \in Sessions /\ s # None
    BY <2>1, FreshAreSessions, Bounds
  <2>3. SessionTypes' /\ stored'[s] = "open" /\ \A r \in Sessions : r # s => stored'[r] = stored[r]
    BY <2>1, <2>2 DEF TypeInv, SessionTypes
  <2>4. Rows' = Rows \cup {s}
    BY <2>2, <2>3 DEF Rows
  <2>. QED  BY <1>2, <2>1, <2>2, <2>3, <2>4 DEF Found
<1>. QED  BY <1>1, <1>2

\* No job runs that is pending: the session can be stored.
LEMMA StoreKeepsSession ==
  ASSUME TypeInv, LegInv, SingleInv, SessionInv, StoreSession, turn' = turn,
         UNCHANGED restarts, resends' = 0 => resends = 0 /\ slot = None,
         \/ leg'.at = "listening" /\ leg'.kind = "idle"
         \/ leg'.at = "fetching" /\ leg'.kind = "silence"
  PROVE  SessionInv'
<1>. SUFFICES ASSUME resends' = 0
              PROVE  SessionInv'
  BY DEF SessionInv
<1>1. resends = 0 /\ slot = None
  OBVIOUS
<1>2. \A v \in Turns : ~Own(v)'
  BY <1>1, Bounds DEF SingleInv, Own, Alive
<1>3. Stray' <=> Stray
  BY DEF Stray
<1>4. (Stray \/ Cardinality(Rows) <= restarts + (IF Found THEN 1 ELSE 0))'
  <2>1. CASE Found /\ UNCHANGED <<known, stored>>
    BY <1>1, <1>3, <2>1 DEF SessionInv, Rows, Found
  <2>2. CASE ~Found /\ Rows' = Rows \cup {known'} /\ Found'
    <3>1. CASE Stray
      BY <1>3, <3>1
    <3>2. CASE ~Stray
      <4>1. Cardinality(Rows) <= restarts + 0
        BY <1>1, <2>2, <3>2 DEF SessionInv
      <4>2. IsFiniteSet(Rows) /\ Cardinality(Rows) \in Nat
        BY RowsFinite
      <4>3. Cardinality(Rows \cup {known'}) = IF known' \in Rows THEN Cardinality(Rows)
                                              ELSE Cardinality(Rows) + 1
        BY <4>2, FS_AddElement
      <4>4. Cardinality(Rows') <= restarts + 1
        BY <2>2, <4>1, <4>2, <4>3 DEF TypeInv
      <4>. QED  BY <2>2, <4>4
    <3>. QED  BY <3>1, <3>2
  <2>. QED  BY <2>1, <2>2, StoreEffect
<1>. QED  BY <1>2, <1>4 DEF SessionInv

\* The greeting, or silence of the caller: Twilio listens, or a prompt is made.
LEMMA SilenceKeeps ==
  ASSUME TurnInv, StoreSession, ~frozen, UNCHANGED <<frozen, restarts, slot, turn>>,
         empties' \in 0..(PromptAfter - 1),
         resends' \in Nat, resends <= resends', resends' + restarts <= MaxTroubles,
         resends' = 0 => resends = 0 /\ slot = None /\ \A x \in Webhooks : web[x] = Idle,
         NEW w \in Webhooks \cup {None},
         \/ leg' = Silent /\ web' = web
         \/ /\ w # None /\ leg' = Fetching("silence", None, w)
            /\ web' = [web EXCEPT ![w] = Handling("silence", None)]
  PROVE  TurnInv'
<1>0. /\ TypeInv /\ JobInv /\ LegInv /\ PollInv /\ SingleInv /\ AskInv /\ SessionInv
      /\ LegTypes /\ SessionTypes'
  BY StoreEffect DEF TurnInv, TypeInv
<1>1. /\ LegTypes'
      /\ \/ leg'.at = "listening" /\ leg'.kind = "idle" /\ web' = web
         \/ /\ w \in Webhooks /\ leg'.at = "fetching" /\ leg'.kind = "silence"
            /\ leg'.web = w /\ web'[w] = Handling(leg'.kind, leg'.tok)
            /\ web'[w].kind = "silence"
            /\ \A x \in Webhooks : x # w => web'[x] = web[x]
  <2>1. CASE leg' = Silent /\ web' = web
    BY <1>0, <2>1 DEF LegTypes, Silent, Playing, Leg
  <2>2. CASE /\ w # None /\ leg' = Fetching("silence", None, w)
             /\ web' = [web EXCEPT ![w] = Handling("silence", None)]
    BY <1>0, <2>2 DEF LegTypes, Fetching, Leg, Handling
  <2>. QED  BY <2>1, <2>2
<1>2. TypeInv'
  BY <1>0, <1>1 DEF TypeInv
<1>3. JobInv' /\ \A v \in Turns : Own(v)' <=> Own(v)
  BY <1>0, SameTurns
<1>4. LegInv'
  BY <1>0, <1>1, Bounds DEF LegInv
<1>5. PollInv'
  <2>1. \A v \in Turns : turn[v].polls <= MaxPolls + Spared(v) + resends'
    BY <1>0, Bounds DEF PollInv, TypeInv, AnyTurn, Spared
  <2>2. \A v \in Turns : Spared(v)' = Spared(v)
    BY DEF Spared
  <2>. QED  BY <1>0, <1>1, <2>1, <2>2 DEF PollInv
<1>6. SingleInv'
  BY <1>0, <1>1, <1>3 DEF SingleInv, Idle, Handling
<1>7. AskInv'
  BY <1>1 DEF AskInv
<1>8. SessionInv'
  BY <1>0, <1>1, StoreKeepsSession
<1>9. FreezeInv'
  BY DEF FreezeInv
<1>. QED  BY <1>2, <1>3, <1>4, <1>5, <1>6, <1>7, <1>8, <1>9 DEF TurnInv

\* A transcript: the pending turn gives way to a new one.
LEMMA StartTurnKeeps ==
  ASSUME TurnInv, NEW w \in Webhooks, StartTurn(w), ~frozen, UNCHANGED <<frozen, restarts>>,
         resends' \in Nat, resends <= resends', resends' + restarts <= MaxTroubles,
         resends' = 0 => resends = 0 /\ slot = None /\ \A x \in Webhooks : web[x] = Idle
  PROVE  TurnInv'
<1>0. /\ TypeInv /\ JobInv /\ LegInv /\ PollInv /\ SingleInv /\ AskInv /\ SessionInv
      /\ LegTypes /\ SessionTypes /\ SessionTypes' /\ UNCHANGED <<known, stored>>
  BY DEF TurnInv, TypeInv, StartTurn, SessionTypes
<1>1. PICK u \in Turns :
        /\ turn[u] = Unused
        /\ \E rest \in Dropped : turn' = [rest EXCEPT ![u] = NewTurn]
        /\ slot' = u /\ empties' = 0
        /\ web' = [web EXCEPT ![w] = Handling("turn", u)]
        /\ leg' = Fetching("turn", u, w)
  BY DEF StartTurn
<1>2. PICK rest \in Dropped : turn' = [rest EXCEPT ![u] = NewTurn]
  BY <1>1
<1>3. /\ rest \in [Turns -> AnyTurn]
      /\ \A v \in Turns : v # slot => rest[v] = turn[v]
      /\ slot # None => DroppedTo(turn[slot], rest[slot])
  BY <1>0, DroppedTurns
<1>4. u # slot
  BY <1>0, <1>1, NewTurnTyped, Bounds DEF LegInv
<1>5. /\ turn' \in [Turns -> AnyTurn] /\ turn'[u] = NewTurn
      /\ \A v \in Turns : v # u => turn'[v] = turn[v] \/ (v = slot /\ DroppedTo(turn[v], turn'[v]))
  BY <1>2, <1>3, NewTurnTyped, Bounds
<1>6. \A v \in Turns : v # u => MildAt(v) /\ turn'[v].polls = turn[v].polls /\ JobFacts(turn'[v])
  BY <1>0, <1>5, DropIsMild
<1>7. /\ LegTypes' /\ leg'.at = "fetching" /\ leg'.kind = "turn" /\ leg'.tok = u /\ leg'.web = w
      /\ web'[w] = Handling("turn", u) /\ web'[w].tok = u
      /\ \A x \in Webhooks : x # w => web'[x] = web[x]
  BY <1>0, <1>1 DEF LegTypes, Fetching, Leg, Handling
<1>8. TypeInv'
  BY <1>0, <1>1, <1>5, <1>7, Bounds DEF TypeInv
<1>9. JobInv'
  <2>1. JobFacts(NewTurn)
    BY NewTurnTyped DEF JobFacts, Running
  <2>2. \A v \in Turns : JobFacts(turn'[v])
    BY <1>5, <1>6, <2>1
  <2>. QED  BY <2>2 DEF JobInv, JobFacts
<1>10. LegInv'
  <2>1. \A v \in Turns : turn[v].job # "unused" => turn'[v].job # "unused"
    BY <1>1, <1>5, <1>6, NewTurnTyped DEF MildAt
  <2>. QED  BY <1>0, <1>1, <1>5, <1>7, <2>1, NewTurnTyped DEF LegInv
<1>11. PollInv'
  <2>1. ASSUME NEW v \in Turns
        PROVE  turn'[v].polls <= MaxPolls + Spared(v)' + resends'
    <3>1. Spared(v)' \in Nat /\ Spared(v) \in Nat
      BY DEF Spared
    <3>2. CASE v = u
      BY <1>5, <3>1, <3>2, NewTurnTyped, Bounds
    <3>3. CASE v # u
      <4>1. Spared(v) <= Spared(v)' /\ turn'[v].polls = turn[v].polls /\ turn[v].polls \in Nat
        BY <1>0, <1>6, <3>3 DEF Spared, MildAt, TypeInv, AnyTurn
      <4>2. turn[v].polls <= MaxPolls + Spared(v) + resends /\ resends \in Nat
        BY <1>0 DEF PollInv, TypeInv
      <4>. QED  BY <3>1, <4>1, <4>2, Bounds
    <3>. QED  BY <3>2, <3>3
  <2>. QED  BY <1>0, <1>5, <1>7, <2>1, NewTurnTyped DEF PollInv
<1>12. resends' = 0 => \A v \in Turns : Own(v)' => v = u
  <2>1. ASSUME resends' = 0, NEW v \in Turns, v # u, Own(v)'
        PROVE  FALSE
    <3>1. Own(v)
      BY <1>6, <2>1 DEF MildAt
    <3>. QED  BY <1>0, <2>1, <3>1, Bounds DEF SingleInv
  <2>. QED  BY <2>1
<1>13. SingleInv'
  BY <1>0, <1>1, <1>7, <1>12 DEF SingleInv, Idle
<1>14. AskInv'
  BY <1>1, <1>7 DEF AskInv
<1>15. SessionInv'
  <2>1. Stray => Stray'
    BY <1>1, <1>6, NewTurnTyped DEF Stray, MildAt, Unused
  <2>2. (Rows' = Rows) /\ (Found' <=> Found)
    BY <1>0 DEF Rows, Found
  <2>. QED  BY <1>0, <1>5, <1>7, <1>12, <2>1, <2>2, NewTurnTyped DEF SessionInv
<1>16. FreezeInv'
  BY DEF FreezeInv
<1>. QED  BY <1>8, <1>9, <1>10, <1>11, <1>13, <1>14, <1>15, <1>16 DEF TurnInv

\* The result of a turn is asked for.
LEMMA StartPollKeeps ==
  ASSUME TurnInv, NEW w \in Webhooks, StartPoll(w, leg.tok), leg.kind = "result",
         ~frozen, UNCHANGED <<frozen, restarts>>,
         resends' \in Nat, resends' + restarts <= MaxTroubles,
         \/ /\ leg.at = "following" /\ resends' = resends
            /\ resends = 0 => \A x \in Webhooks : web[x] = Idle
         \/ leg.at = "fetching" /\ resends' = resends + 1
  PROVE  TurnInv'
<1>0. /\ TypeInv /\ JobInv /\ LegInv /\ PollInv /\ SingleInv /\ AskInv /\ SessionInv
      /\ LegTypes /\ SessionTypes' /\ UNCHANGED <<slot, known, stored, empties>>
      /\ resends \in Nat
  BY DEF TurnInv, TypeInv, StartPoll, SessionTypes
<1>1. PICK u \in Turns : u = leg.tok
  BY <1>0 DEF LegInv
<1>2. resends' = 0 => /\ resends = 0 /\ leg.at = "following"
                      /\ slot \in {u, None} /\ \A x \in Webhooks : web[x] = Idle
  BY <1>0, <1>1 DEF SingleInv
<1>3. turn[u].job # "unused" /\ turn[u] \in AnyTurn
  BY <1>0, <1>1 DEF LegInv, TypeInv
<1>4. (Rows' = Rows) /\ (Found' <=> Found) /\ (GoesOn' <=> GoesOn)
  BY <1>0 DEF Rows, Found, GoesOn
<1>5. CASE slot = u
  <2>1. /\ turn' = [turn EXCEPT ![u] = Polled(@)]
        /\ web' = [web EXCEPT ![w] = Handling("result", u)]
        /\ leg' = Fetching("result", u, w)
    BY <1>1, <1>5 DEF StartPoll
  <2>2. /\ turn' \in [Turns -> AnyTurn] /\ \A v \in Turns : v # u => turn'[v] = turn[v]
        /\ turn'[u].early = turn[u].early /\ turn'[u].job = turn[u].job
        /\ turn'[u].sid = turn[u].sid /\ turn'[u].shut = turn[u].shut
        /\ turn'[u].trimmed = turn[u].trimmed /\ turn'[u].done = turn[u].done
        /\ turn'[u].twiml = turn[u].twiml /\ turn'[u].kept = turn[u].kept
        /\ turn'[u].dropped = turn[u].dropped /\ turn'[u].polls = turn[u].polls + 1
    <3>. DEFINE t == [turn[u] EXCEPT !.polls = @ + 1]
    <3>1. t \in AnyTurn
      BY <1>3 DEF AnyTurn
    <3>2. turn' = [turn EXCEPT ![u] = t]
      BY <2>1 DEF Polled
    <3>3. turn' \in [Turns -> AnyTurn] /\ turn'[u] = t /\ \A v \in Turns : v # u => turn'[v] = turn[v]
      BY <1>0, <3>1, <3>2, Update
    <3>. QED  BY <1>3, <3>3 DEF AnyTurn
  <2>3. \A v \in Turns : MildAt(v) /\ (Own(v)' <=> Own(v)) /\ Spared(v)' = Spared(v)
    BY <2>2 DEF MildAt, Own, Alive, Spared
  <2>4. /\ LegTypes' /\ leg'.at = "fetching" /\ leg'.kind = "result" /\ leg'.tok = u /\ leg'.web = w
        /\ web'[w] = Handling("result", u) /\ web'[w].tok = u
        /\ \A x \in Webhooks : x # w => web'[x] = web[x]
    BY <1>0, <2>1 DEF LegTypes, Fetching, Leg, Handling
  <2>5. TypeInv'
    BY <1>0, <2>2, <2>4 DEF TypeInv
  <2>6. JobInv'
    BY <1>0, <2>2 DEF JobInv
  <2>7. LegInv'
    BY <1>0, <1>3, <1>5, <2>2, <2>4 DEF LegInv, TypeInv
  <2>8. PollInv'
    <3>1. ASSUME NEW v \in Turns
          PROVE  turn'[v].polls <= MaxPolls + Spared(v)' + resends'
      <4>1. Spared(v)' = Spared(v) /\ Spared(v) \in Nat /\ turn[v].polls \in Nat
        BY <1>0, <2>3 DEF Spared, TypeInv, AnyTurn
      <4>2. turn[v].polls <= MaxPolls + Spared(v) + resends
        BY <1>0 DEF PollInv
      <4>3. CASE v # u
        BY <1>0, <2>2, <4>1, <4>2, <4>3, Bounds
      <4>4. CASE v = u
        <5>1. leg.at = "following" => turn[u].polls < MaxPolls + Spared(u) + resends
          BY <1>0, <1>1 DEF PollInv
        <5>. QED  BY <1>0, <2>2, <4>1, <4>2, <4>4, <5>1, Bounds
      <4>. QED  BY <4>3, <4>4
    <3>. QED  BY <1>0, <2>4, <3>1 DEF PollInv
  <2>9. SingleInv'
    BY <1>0, <1>2, <1>5, <2>3, <2>4 DEF SingleInv, Idle
  <2>10. AskInv'
    BY <1>0, <1>5, <2>4 DEF AskInv
  <2>11. SessionInv'
    <3>1. Stray => Stray'
      BY <2>3 DEF Stray, MildAt
    <3>2. turn'[u].twiml = turn[u].twiml
      BY <2>2
    <3>3. \A v \in Turns : Own(v)' => Own(v) /\ turn'[v].job = turn[v].job
                                     /\ turn'[v].sid = turn[v].sid /\ turn'[v].shut = turn[v].shut
      BY <2>3 DEF MildAt
    <3>. QED  BY <1>0, <1>1, <1>2, <1>4, <2>4, <3>1, <3>2, <3>3 DEF SessionInv
  <2>12. FreezeInv'
    BY DEF FreezeInv
  <2>. QED  BY <2>5, <2>6, <2>7, <2>8, <2>9, <2>10, <2>11, <2>12 DEF TurnInv
<1>6. CASE slot # u
  <2>1. leg' = Playing("again", u) /\ web' = web /\ turn' = turn
    BY <1>1, <1>6 DEF StartPoll
  <2>2. LegTypes' /\ leg'.at = "listening" /\ leg'.kind = "again" /\ leg'.tok = u /\ leg'.web = None
    BY <1>0, <2>1 DEF LegTypes, Playing, Leg
  <2>3. JobInv' /\ \A v \in Turns : Own(v)' <=> Own(v)
    BY <1>0, <2>1, SameTurns
  <2>4. TypeInv'
    BY <1>0, <2>1, <2>2 DEF TypeInv
  <2>5. LegInv'
    BY <1>0, <1>3, <2>1, <2>2 DEF LegInv
  <2>6. PollInv'
    <3>1. ASSUME NEW v \in Turns
          PROVE  turn'[v].polls <= MaxPolls + Spared(v)' + resends'
      <4>1. Spared(v)' = Spared(v) /\ Spared(v) \in Nat /\ turn[v].polls \in Nat
        BY <1>0, <2>1 DEF Spared, TypeInv, AnyTurn
      <4>2. turn[v].polls <= MaxPolls + Spared(v) + resends
        BY <1>0 DEF PollInv
      <4>. QED  BY <1>0, <2>1, <4>1, <4>2, Bounds
    <3>. QED  BY <1>0, <2>2, <3>1 DEF PollInv
  <2>7. SingleInv'
    BY <1>0, <1>2, <1>6, <2>1, <2>2, <2>3 DEF SingleInv
  <2>8. AskInv'
    <3>1. Calm' => turn[u].dropped # "no"
      BY <1>0, <1>1, <1>2, <1>6 DEF AskInv, Calm
    <3>. QED  BY <2>1, <2>2, <3>1 DEF AskInv
  <2>9. SessionInv'
    <3>1. Stray' <=> Stray
      BY <2>1 DEF Stray
    <3>. QED  BY <1>0, <1>2, <1>4, <2>1, <2>2, <2>3, <3>1 DEF SessionInv
  <2>10. FreezeInv'
    BY DEF FreezeInv
  <2>. QED  BY <2>3, <2>4, <2>5, <2>6, <2>7, <2>8, <2>9, <2>10 DEF TurnInv
<1>. QED  BY <1>5, <1>6

\* As long as no request is sent twice, a request is sent when no handler works.
LEMMA NobodyWorks ==
  ASSUME TurnInv, resends = 0, leg.at \in {"ringing", "listening", "following"}
  PROVE  /\ \A x \in Webhooks : web[x] = Idle
         /\ leg.at \in {"ringing", "listening"} => slot = None
BY DEF TurnInv, SingleInv

LEMMA GreetKeeps ==
  ASSUME TurnInv, Greet
  PROVE  TurnInv'
<1>1. /\ StoreSession /\ ~frozen /\ leg.at = "ringing" /\ leg' = Silent
      /\ UNCHANGED <<web, slot, turn, empties, frozen, resends, restarts>>
  BY DEF Greet
<1>2. /\ empties \in 0..(PromptAfter - 1) /\ resends \in Nat /\ resends + restarts <= MaxTroubles
  BY DEF TurnInv, TypeInv, PollInv
<1>3. resends = 0 => slot = None /\ \A x \in Webhooks : web[x] = Idle
  BY <1>1, NobodyWorks
<1>4. None \in Webhooks \cup {None}
  OBVIOUS
<1>. QED  BY <1>1, <1>2, <1>3, <1>4, SilenceKeeps

\* Silence, heard for the first time or in a request that was sent again.
LEMMA HearSilenceKeeps ==
  ASSUME TurnInv, NEW w \in Webhooks, HearSilence(w), ~frozen, UNCHANGED <<frozen, restarts>>,
         resends' \in Nat, resends <= resends', resends' + restarts <= MaxTroubles,
         resends' = 0 => resends = 0 /\ slot = None /\ \A x \in Webhooks : web[x] = Idle
  PROVE  TurnInv'
<1>1. empties \in 0..(PromptAfter - 1) /\ w # None /\ PromptAfter \in Nat
  BY Bounds DEF TurnInv, TypeInv
<1>2. StoreSession /\ UNCHANGED <<slot, turn>>
  BY DEF HearSilence
<1>3. CASE empties' = empties + 1 /\ leg' = Silent /\ web' = web /\ empties + 1 < PromptAfter
  <2>1. empties' \in 0..(PromptAfter - 1)
    BY <1>1, <1>3
  <2>. QED  BY <1>1, <1>2, <1>3, <2>1, SilenceKeeps
<1>4. CASE /\ empties' = empties /\ leg' = Fetching("silence", None, w)
           /\ web' = [web EXCEPT ![w] = Handling("silence", None)]
  BY <1>1, <1>2, <1>4, SilenceKeeps
<1>. QED  BY <1>3, <1>4 DEF HearSilence

LEMMA SpeakKeeps ==
  ASSUME TurnInv, NEW w \in Webhooks, Speak(w)
  PROVE  TurnInv'
<1>1. /\ ~frozen /\ leg.at = "listening" /\ UNCHANGED <<frozen, resends, restarts>>
      /\ StartTurn(w) \/ HearSilence(w)
  BY DEF Speak
<1>2. resends \in Nat /\ resends + restarts <= MaxTroubles
  BY DEF TurnInv, TypeInv, PollInv
<1>3. resends = 0 => slot = None /\ \A x \in Webhooks : web[x] = Idle
  BY <1>1, NobodyWorks
<1>. QED  BY <1>1, <1>2, <1>3, StartTurnKeeps, HearSilenceKeeps

LEMMA FollowKeeps ==
  ASSUME TurnInv, NEW w \in Webhooks, Follow(w)
  PROVE  TurnInv'
<1>1. /\ ~frozen /\ leg.at = "following" /\ UNCHANGED <<frozen, resends, restarts>>
      /\ StartPoll(w, leg.tok)
  BY DEF Follow
<1>2. leg.kind = "result" /\ resends \in Nat /\ resends + restarts <= MaxTroubles
  BY <1>1 DEF TurnInv, TypeInv, PollInv, LegInv
<1>3. resends = 0 => \A x \in Webhooks : web[x] = Idle
  BY <1>1, NobodyWorks
<1>. QED  BY <1>1, <1>2, <1>3, StartPollKeeps

LEMMA ResendKeeps ==
  ASSUME TurnInv, NEW w \in Webhooks, Resend(w)
  PROVE  TurnInv'
<1>1. /\ ~frozen /\ leg.at = "fetching" /\ UNCHANGED <<frozen, restarts>>
      /\ resends + restarts < MaxTroubles /\ resends' = resends + 1
      /\ StartTurn(w) \/ HearSilence(w) \/ (leg.kind = "result" /\ StartPoll(w, leg.tok))
  BY DEF Resend
<1>2. resends \in Nat /\ restarts \in Nat
  BY DEF TurnInv, TypeInv
<1>3. resends' \in Nat /\ resends <= resends' /\ resends' + restarts <= MaxTroubles /\ resends' # 0
  BY <1>1, <1>2, Bounds
<1>. QED  BY <1>1, <1>3, StartTurnKeeps, HearSilenceKeeps, StartPollKeeps

LEMMA DiscardKeeps ==
  ASSUME TurnInv, Discard
  PROVE  TurnInv'
<1>0. /\ TypeInv /\ JobInv /\ LegInv /\ PollInv /\ SingleInv /\ AskInv /\ SessionInv
      /\ ~frozen /\ turn' \in Dropped /\ slot # None /\ slot' = None
      /\ UNCHANGED <<leg, web, known, stored, empties, frozen, resends, restarts>>
  BY DEF TurnInv, Discard
<1>1. /\ Mild /\ JobInv' /\ turn'[slot].dropped # "no"
      /\ resends = 0 => \A v \in Turns : ~Own(v)'
  BY <1>0, DropTurn
<1>2. TypeInv'
  BY <1>0, <1>1 DEF TypeInv, LegTypes, SessionTypes, Mild
<1>3. LegInv'
  <2>1. leg.kind = "answer" /\ turn'[leg.tok].trimmed => turn'[leg.tok].early = "taken"
    BY <1>0, <1>1 DEF LegInv, Mild, MildAt
  <2>. QED  BY <1>0, <1>1, <2>1, MildFacts DEF LegInv
<1>4. PollInv'
  <2>1. ASSUME NEW v \in Turns
        PROVE  /\ turn'[v].polls <= MaxPolls + Spared(v)' + resends
               /\ turn[v].polls < MaxPolls + Spared(v) + resends
                    => turn'[v].polls < MaxPolls + Spared(v)' + resends
    <3>1. turn'[v].polls = turn[v].polls /\ turn[v].polls \in Nat /\ resends \in Nat
      BY <1>0, <1>1 DEF Mild, TypeInv, AnyTurn
    <3>2. Spared(v) <= Spared(v)' /\ Spared(v) \in Nat /\ Spared(v)' \in Nat
      BY <1>0, <1>1, MildFacts
    <3>3. turn[v].polls <= MaxPolls + Spared(v) + resends
      BY <1>0 DEF PollInv
    <3>. QED  BY <3>1, <3>2, <3>3, Bounds
  <2>2. leg.kind = "turn" => turn'[leg.tok].polls = 0
    BY <1>0, <1>1 DEF LegInv, PollInv, Mild
  <2>3. leg.at = "following" => turn'[leg.tok].polls < MaxPolls + Spared(leg.tok)' + resends
    <3>1. SUFFICES ASSUME leg.at = "following"
                   PROVE  turn'[leg.tok].polls < MaxPolls + Spared(leg.tok)' + resends
      OBVIOUS
    <3>2. PICK v \in Turns : v = leg.tok
      BY <1>0, <3>1 DEF LegInv
    <3>3. Spared(leg.tok)' = Spared(v)'
      BY <1>0, <3>2 DEF Spared
    <3>. QED  BY <1>0, <2>1, <3>1, <3>2, <3>3 DEF PollInv
  <2>. QED  BY <1>0, <2>1, <2>2, <2>3 DEF PollInv
<1>5. SingleInv'
  BY <1>0, <1>1 DEF SingleInv
<1>6. AskInv'
  BY <1>0, <1>1 DEF AskInv, LegInv, Mild, MildAt, Calm
<1>7. SessionInv'
  <2>1. (Rows' = Rows) /\ (Found' <=> Found) /\ (GoesOn' <=> GoesOn) /\ (Stray => Stray')
    BY <1>0, <1>1, MildFacts DEF Rows, Found, GoesOn
  <2>2. leg.at \in {"fetching", "following"} /\ leg.kind # "silence"
          => turn'[leg.tok].twiml = turn[leg.tok].twiml
    BY <1>0, <1>1 DEF LegInv, Mild, MildAt
  <2>. QED  BY <1>0, <1>1, <2>1, <2>2 DEF SessionInv
<1>8. FreezeInv'
  BY <1>0 DEF FreezeInv
<1>. QED  BY <1>1, <1>2, <1>3, <1>4, <1>5, <1>6, <1>7, <1>8 DEF TurnInv

\* The call ends: of the handlers and jobs nothing changes.
LEMMA OverKeeps ==
  ASSUME TurnInv, leg' = Over,
         UNCHANGED <<web, slot, turn, known, stored, empties, frozen, resends, restarts>>
  PROVE  TurnInv'
<1>0. /\ TypeInv /\ JobInv /\ LegInv /\ PollInv /\ SingleInv /\ AskInv /\ SessionInv /\ FreezeInv
  BY DEF TurnInv
<1>1. LegTypes' /\ leg'.at = "over" /\ leg'.kind = "idle"
  BY <1>0 DEF TypeInv, LegTypes, Over, Leg
<1>2. TypeInv'
  BY <1>0, <1>1 DEF TypeInv, SessionTypes
<1>3. JobInv' /\ \A v \in Turns : Own(v)' <=> Own(v)
  BY <1>0, SameTurns
<1>4. LegInv'
  BY <1>0, <1>1 DEF LegInv
<1>5. PollInv'
  BY <1>0, <1>1 DEF PollInv, Spared
<1>6. SingleInv' /\ AskInv'
  BY <1>0, <1>1, <1>3 DEF SingleInv, AskInv
<1>7. SessionInv'
  <2>1. (Rows' = Rows) /\ (Found' <=> Found) /\ (GoesOn' <=> GoesOn) /\ (Stray' <=> Stray)
    BY DEF Rows, Found, GoesOn, Stray
  <2>. QED  BY <1>0, <1>1, <1>3, <2>1 DEF SessionInv
<1>8. FreezeInv'
  BY <1>0 DEF FreezeInv, Survivor, Alive
<1>. QED  BY <1>2, <1>3, <1>4, <1>5, <1>6, <1>7, <1>8 DEF TurnInv

\* After a restart no job runs and no handler answers.
LEMMA RestartKeeps ==
  ASSUME TurnInv, Restart
  PROVE  TurnInv'
<1>0. /\ TypeInv /\ LegInv /\ PollInv /\ SessionInv /\ resends \in Nat /\ restarts \in Nat
      /\ resends + restarts < MaxTroubles /\ restarts' = restarts + 1
      /\ web' = [w \in Webhooks |-> Idle] /\ leg' = [leg EXCEPT !.web = None]
      /\ slot' = None /\ known' = None /\ empties' = 0 /\ frozen' = FALSE
      /\ turn' = [u \in Turns |-> IF turn[u] = Unused THEN Unused
            ELSE [Unused EXCEPT !.job = "ended", !.kept = turn[u].kept,
                                !.dropped = turn[u].dropped]]
      /\ UNCHANGED <<stored, resends>>
  BY DEF TurnInv, TypeInv, Restart
<1>1. ASSUME NEW v \in Turns
      PROVE  /\ turn'[v] \in AnyTurn /\ turn'[v].job \in {"unused", "ended"}
             /\ turn[v].job # "unused" => turn'[v].job = "ended"
             /\ ~turn'[v].trimmed /\ ~turn'[v].done /\ turn'[v].twiml = "none" /\ turn'[v].polls = 0
             /\ turn'[v].kept = turn[v].kept /\ turn'[v].dropped = turn[v].dropped
  <2>1. turn[v] \in AnyTurn
    BY <1>0 DEF TypeInv
  <2>2. CASE turn[v] = Unused
    BY <1>0, <2>1, <2>2, NewTurnTyped DEF Unused
  <2>3. CASE turn[v] # Unused
    <3>1. turn'[v] = [Unused EXCEPT !.job = "ended", !.kept = turn[v].kept,
                                    !.dropped = turn[v].dropped]
      BY <1>0, <2>3
    <3>2. turn'[v] = [job |-> "ended", sid |-> None, shut |-> FALSE, early |-> "none",
                      trimmed |-> FALSE, done |-> FALSE, twiml |-> "none", polls |-> 0,
                      kept |-> turn[v].kept, dropped |-> turn[v].dropped]
      BY <3>1 DEF Unused
    <3>3. turn[v].kept \in BOOLEAN /\ turn[v].dropped \in {"no", "ended", "running"}
      BY <2>1 DEF AnyTurn
    <3>. QED  BY <3>2, <3>3 DEF AnyTurn
  <2>. QED  BY <2>2, <2>3
<1>2. LegTypes' /\ leg'.at = leg.at /\ leg'.kind = leg.kind /\ leg'.tok = leg.tok /\ leg'.web = None
  BY <1>0 DEF TypeInv, LegTypes, Idle
<1>3. turn' \in [Turns -> AnyTurn] /\ \A v \in Turns : ~Own(v)'
  BY <1>0, <1>1 DEF Own, Alive, Running
<1>a. /\ resends' = resends /\ stored' = stored /\ restarts' \in Nat /\ restarts' # 0
      /\ resends + restarts' <= MaxTroubles /\ frozen' = FALSE /\ slot' = None /\ known' = None
      /\ empties' \in 0..(PromptAfter - 1)
  <2>1. empties' = 0 /\ resends' = resends /\ restarts' = restarts + 1 /\ stored' = stored
    BY <1>0
  <2>2. resends + restarts < MaxTroubles /\ resends \in Nat /\ restarts \in Nat
    BY <1>0
  <2>3. empties' \in 0..(PromptAfter - 1) /\ restarts' \in Nat /\ restarts' # 0
        /\ resends + restarts' <= MaxTroubles
    BY <2>1, <2>2, Bounds
  <2>. QED  BY <1>0, <2>1, <2>3
<1>4. TypeInv'
  <2>1. SessionTypes'
    BY <1>0, <1>a DEF TypeInv, SessionTypes
  <2>2. resends' \in Nat
    BY <1>0, <1>a
  <2>. QED  BY <1>2, <1>3, <1>a, <2>1, <2>2 DEF TypeInv
<1>5. JobInv'
  BY <1>1 DEF JobInv, Running
<1>6. LegInv'
  <2>1. \A w \in Webhooks : web'[w].kind = "idle"
    BY <1>0 DEF Idle
  <2>2. /\ leg.kind \in {"turn", "result", "answer", "again"}
             => leg.tok \in Turns /\ turn[leg.tok].job # "unused"
        /\ leg.kind = "answer" => turn[leg.tok].job = "ended"
    BY <1>0 DEF LegInv
  <2>3. leg'.kind \in {"turn", "result", "answer", "again"}
             => leg'.tok \in Turns /\ turn'[leg'.tok].job = "ended" /\ ~turn'[leg'.tok].trimmed
    BY <1>1, <1>2, <2>2
  <2>4. /\ leg'.at = "ringing" => leg'.kind = "idle"
        /\ leg'.at = "listening" => leg'.kind \in {"idle", "answer", "again"}
        /\ leg'.at = "fetching" => leg'.kind \in {"turn", "silence", "result"}
        /\ leg'.at = "following" => leg'.kind = "result"
        /\ leg'.at = "over" => leg'.kind \in {"idle", "answer"}
    BY <1>0, <1>2 DEF LegInv
  <2>5. slot' = None /\ leg'.web = None
    BY <1>0, <1>2
  <2>. QED  BY <2>1, <2>3, <2>4, <2>5 DEF LegInv
<1>7. PollInv'
  <2>1. ASSUME NEW v \in Turns
        PROVE  /\ turn'[v].polls <= MaxPolls + Spared(v)' + resends'
               /\ turn'[v].polls < MaxPolls + Spared(v)' + resends'
    <3>1. turn'[v].polls = 0 /\ Spared(v)' \in Nat
      BY <1>1 DEF Spared
    <3>2. resends' \in Nat
      BY <1>0, <1>a
    <3>. QED  BY <3>1, <3>2, Bounds
  <2>2. leg.kind = "turn" => turn'[leg.tok].polls = 0
    BY <1>0, <1>1 DEF LegInv
  <2>3. leg.at = "following"
          => turn'[leg'.tok].polls < MaxPolls + (IF turn'[leg'.tok].early = "taken" THEN 1 ELSE 0) + resends'
    BY <1>0, <1>2, <2>1 DEF LegInv, Spared
  <2>4. resends' + restarts' <= MaxTroubles
    BY <1>a
  <2>. QED  BY <1>2, <2>1, <2>2, <2>3, <2>4 DEF PollInv, Spared
<1>8. SingleInv'
  BY <1>0, <1>3 DEF SingleInv, Idle
<1>9. AskInv'
  BY <1>a DEF AskInv, Calm
<1>10. SessionInv'
  <2>1. (Rows' = Rows) /\ ~Found' /\ GoesOn'
    BY <1>a DEF Rows, Found, GoesOn
  <2>2. Stray => Stray'
    BY <1>1 DEF Stray
  <2>3. resends = 0 /\ ~Stray => Cardinality(Rows) <= restarts'
    <3>1. Cardinality(Rows) \in Nat /\ restarts \in Nat /\ restarts' = restarts + 1
      BY <1>0, RowsFinite
    <3>2. resends = 0 /\ ~Stray => \/ Cardinality(Rows) <= restarts + 1
                                   \/ Cardinality(Rows) <= restarts + 0
      BY <1>0 DEF SessionInv
    <3>. QED  BY <3>1, <3>2
  <2>4. resends' = 0 => (Stray \/ Cardinality(Rows) <= restarts + (IF Found THEN 1 ELSE 0))'
    BY <1>a, <2>1, <2>2, <2>3
  <2>5. leg.at \in {"fetching", "following"} /\ leg.kind # "silence" => turn'[leg.tok].twiml = "none"
    BY <1>0, <1>1 DEF LegInv
  <2>. QED  BY <1>2, <1>3, <2>1, <2>4, <2>5 DEF SessionInv
<1>11. FreezeInv'
  BY <1>0 DEF FreezeInv
<1>. QED  BY <1>4, <1>5, <1>6, <1>7, <1>8, <1>9, <1>10, <1>11 DEF TurnInv

-----------------------------------------------------------------------------
(* The theorems *)

LEMMA TurnInit == Init => TurnInv
<1>. SUFFICES ASSUME Init
              PROVE  TurnInv
  OBVIOUS
<1>1. /\ leg = Leg("ringing", "idle", None, None) /\ web = [w \in Webhooks |-> Idle]
      /\ slot = None /\ turn = [u \in Turns |-> Unused]
      /\ known = None /\ stored = [s \in Sessions |-> "none"]
      /\ empties = 0 /\ frozen = FALSE /\ resends = 0 /\ restarts = 0
  BY DEF Init
<1>2. LegTypes /\ leg.at = "ringing" /\ leg.kind = "idle"
  BY <1>1 DEF LegTypes, Leg, Idle
<1>3. TypeInv
  <2>1. turn \in [Turns -> AnyTurn] /\ SessionTypes
    BY <1>1, NewTurnTyped DEF SessionTypes
  <2>2. empties \in 0..(PromptAfter - 1) /\ resends \in Nat /\ restarts \in Nat
    BY <1>1, Bounds
  <2>. QED  BY <1>1, <1>2, <2>1, <2>2 DEF TypeInv
<1>4. JobInv
  BY <1>1 DEF JobInv, Unused, Running
<1>5. LegInv
  BY <1>1, <1>2 DEF LegInv, Idle
<1>6. \A v \in Turns : ~Own(v)
  BY <1>1 DEF Own, Alive, Unused, Running
<1>7. PollInv
  BY <1>1, <1>2, Bounds DEF PollInv, Unused, Spared
<1>8. SingleInv /\ AskInv
  BY <1>1, <1>2, <1>6 DEF SingleInv, AskInv
<1>9. SessionInv
  <2>1. Rows = {} /\ ~Found
    BY <1>1 DEF Rows, Found
  <2>2. Cardinality(Rows) = 0
    BY <2>1, FS_EmptySet
  <2>. QED  BY <1>1, <1>2, <1>6, <2>1, <2>2 DEF SessionInv
<1>10. FreezeInv
  BY <1>1 DEF FreezeInv
<1>. QED  BY <1>3, <1>4, <1>5, <1>7, <1>8, <1>9, <1>10 DEF TurnInv

LEMMA TurnStep == TurnInv /\ [Next]_vars => TurnInv'
<1>. SUFFICES ASSUME TurnInv, [Next]_vars
              PROVE  TurnInv'
  OBVIOUS
<1>1. ASSUME NEW w \in Webhooks, Speak(w) \/ Follow(w) \/ Resend(w) \/ Progress(w)
      PROVE  TurnInv'
  BY <1>1, SpeakKeeps, FollowKeeps, ResendKeeps, TimeOutKeeps, SpeakEarlyKeeps,
     ServeAnswerKeeps, SpeakPromptKeeps DEF Progress
<1>2. ASSUME NEW u \in Turns, RunJob(u)
      PROVE  TurnInv'
  BY <1>2, JobStep
<1>3. CASE Greet \/ Discard
  BY <1>3, GreetKeeps, DiscardKeeps
<1>4. CASE GiveUp \/ HangUp
  BY <1>4, OverKeeps DEF GiveUp, HangUp
<1>5. CASE Restart
  BY <1>5, RestartKeeps
<1>6. CASE UNCHANGED vars
  <2>1. (TypeInv /\ JobInv /\ LegInv)'
    BY <1>6 DEF TurnInv, TypeInv, JobInv, LegInv, LegTypes, SessionTypes, vars
  <2>2. (PollInv /\ SingleInv /\ AskInv)'
    BY <1>6 DEF TurnInv, PollInv, SingleInv, AskInv, Spared, Own, Alive, Calm, vars
  <2>3. (SessionInv /\ FreezeInv)'
    BY <1>6 DEF TurnInv, SessionInv, FreezeInv, Own, Survivor, Alive, Stray, Rows, Found, GoesOn, vars
  <2>. QED  BY <2>1, <2>2, <2>3 DEF TurnInv
<1>. QED  BY <1>1, <1>2, <1>3, <1>4, <1>5, <1>6 DEF Next

\* The inductive invariant of the call: while no request is sent twice, the turn that
\* waits in the table is the one Twilio waits for, the job that runs is that turn's,
\* and it works on the session the call's record names.
THEOREM TurnInvariant == Spec => []TurnInv
<1>1. Init => TurnInv
  BY TurnInit
<1>2. TurnInv /\ [Next]_vars => TurnInv'
  BY TurnStep
<1>. QED  BY <1>1, <1>2, PTL DEF Spec

\* TypeOK: every value has its type; a turn is polled MaxPolls times at most, once more when
\* its first sentence came with the last poll, and once per request sent again.
THEOREM TypeCorrect == Spec => []TypeOK
<1>1. TurnInv => TypeOK
  <2>. SUFFICES ASSUME TurnInv
                PROVE  TypeOK
    OBVIOUS
  <2>1. TypeInv /\ PollInv
    BY DEF TurnInv
  <2>2. resends \in 0..MaxTroubles /\ restarts \in 0..MaxTroubles
    BY <2>1, Bounds DEF TypeInv, PollInv
  <2>3. ASSUME NEW u \in Turns
        PROVE  turn[u] \in TurnStates
    <3>1. turn[u] \in AnyTurn /\ turn[u].polls \in Nat
      BY <2>1 DEF TypeInv, AnyTurn
    <3>2. turn[u].polls <= MaxPolls + 1 + MaxTroubles
      BY <2>1, <2>2, <3>1, Bounds DEF PollInv, Spared
    <3>3. turn[u].polls \in 0..(MaxPolls + 1 + MaxTroubles)
      BY <3>1, <3>2, Bounds
    <3>. QED  BY <3>1, <3>3 DEF AnyTurn, TurnStates
  <2>4. turn \in [Turns -> TurnStates]
    BY <2>1, <2>3 DEF TypeInv
  <2>. QED  BY <2>1, <2>2, <2>4 DEF TypeOK, TypeInv, LegTypes, SessionTypes
<1>. QED  BY <1>1, TurnInvariant, PTL

\* HeadBeforeTail: the rest of an answer is never played before its first sentence
\* was taken, not even when requests are sent twice.
THEOREM HeadsComeFirst == Spec => []HeadBeforeTail
<1>1. TurnInv => HeadBeforeTail
  BY DEF TurnInv, LegInv, HeadBeforeTail
<1>. QED  BY <1>1, TurnInvariant, PTL

\* AnswerNotWithheld: the caller is asked to repeat a recorded turn only after it
\* was dropped or its speech failed.
THEOREM AnswersReachTheCaller == Spec => []AnswerNotWithheld
<1>1. TurnInv => AnswerNotWithheld
  BY DEF TurnInv, AskInv, AnswerNotWithheld
<1>. QED  BY <1>1, TurnInvariant, PTL

\* OneJobAtATime: of two jobs that run, one outlived its cancellation.
THEOREM JobsDoNotOverlap == Spec => []OneJobAtATime
<1>1. TurnInv => OneJobAtATime
  BY DEF TurnInv, SingleInv, Own, Survivor, OneJobAtATime
<1>. QED  BY <1>1, TurnInvariant, PTL

\* OneSession: a conversation is in one session, and one more for each restart of
\* the server, for every number of turns.
THEOREM SessionsDoNotSplit == Spec => []OneSession
<1>1. TurnInv => OneSession
  <2>. SUFFICES ASSUME TurnInv, resends = 0, ~(\E u \in Turns : Survivor(u))
                PROVE  Cardinality({s \in Sessions : stored[s] # "none"}) <= 1 + restarts
    BY DEF OneSession
  <2>1. ~Stray
    BY DEF Stray, Survivor
  <2>2. Cardinality(Rows) <= restarts + (IF Found THEN 1 ELSE 0)
    BY <2>1 DEF TurnInv, SessionInv
  <2>3. Cardinality(Rows) \in Nat /\ restarts \in Nat
    BY RowsFinite DEF TurnInv, TypeInv
  <2>. QED  BY <2>2, <2>3 DEF Rows
<1>. QED  BY <1>1, TurnInvariant, PTL

\* OpenWhileListening: after an answer that goes on the conversation is recorded as
\* open.
THEOREM NoTalkAfterTheEnd == Spec => []OpenWhileListening
<1>1. TurnInv => OpenWhileListening
  <2>. SUFFICES ASSUME TurnInv, leg.at = "listening", leg.kind = "answer", Found, resends = 0,
                       ~(\E u \in Turns : Survivor(u))
                PROVE  stored[known] = "open"
    BY DEF OpenWhileListening
  <2>1. ~Stray
    BY DEF Stray, Survivor
  <2>2. GoesOn
    BY <2>1 DEF TurnInv, SessionInv
  <2>. QED  BY <2>2 DEF GoesOn, Found, TurnInv, TypeInv, SessionTypes
<1>. QED  BY <1>1, TurnInvariant, PTL

\* FreezeNeedsSurvivor: the event loop blocks on the call's own locks only beside a
\* job that outlived its cancellation.
THEOREM FreezesAreForeseen == Spec => []FreezeNeedsSurvivor
<1>1. TurnInv => FreezeNeedsSurvivor
  BY DEF TurnInv, FreezeInv, FreezeNeedsSurvivor
<1>. QED  BY <1>1, TurnInvariant, PTL

=============================================================================

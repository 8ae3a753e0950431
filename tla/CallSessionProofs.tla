-------------------------- MODULE CallSessionProofs --------------------------
(***************************************************************************)
(* Proofs about CallSession, for every number of responses.                *)
(***************************************************************************)
EXTENDS CallSession, FiniteSetTheorems, SequenceTheorems, TLAPS

-----------------------------------------------------------------------------
(* Types *)

ActPcs == {"accept", "greet", "listen", "cancelling", "clearing", "teardown",
           "stopping", "waiting", "cleanup", "ended"}
ActStates == [pc : ActPcs, victim : Tasks \cup {None}, plan : Plans]
RespStates == [pc : Pcs, kind : {"unused", "greeting", "turn", "utterance"},
               doomed : BOOLEAN, session : Tasks \cup {None},
               part : {"reply", "bye"}, then : {"done", "speak"},
               ends : {"no", "completed", "abandoned"},
               fate : {"open", "heard", "wiped", "met"}, unheard : BOOLEAN]
ConsStates == {"none", "speaking", "marked", "ended", "failed"}
Items == [of : Tasks, part : {"reply", "bye"}, mark : BOOLEAN]
Marks == {x \in Items : x.mark}

TypeInv ==
  /\ act \in [Actors -> ActStates] /\ resp \in [Tasks -> RespStates]
  /\ cons \in [Tasks -> ConsStates] /\ cur \in Tasks \cup {None}
  /\ playing \in BOOLEAN /\ talking \in BOOLEAN /\ completed \in BOOLEAN
  /\ ready \in {"none", "stored", "late"}
  /\ latest \in SUBSET Marks /\ acks \in SUBSET Marks
  /\ \A m, n \in latest : m = n
  /\ waiters \in SUBSET Tasks /\ closed \in SUBSET Tasks /\ tts \in Tasks \cup {None}
  /\ line \in Seq(Items) /\ carrier \in {"up", "gone"}

-----------------------------------------------------------------------------
(* The inductive invariant *)

Going(t) == Alive(t) /\ ~resp[t].doomed
Busy(a) == act[a].pc \in {"cancelling", "clearing"}
Leaving == act["main"].pc \in {"stopping", "waiting", "cleanup", "ended"}

\* The two loops.  The receive loop leaves only when the caller has left and waits
\* for the transcription task first; an utterance is stored for a transcription task
\* that will still look for it.
ActInv ==
  /\ act["main"].pc # "teardown"
  /\ act["main"].plan \in {"listen", "greeting", "utterance"}
  /\ act["main"].pc = "greet" => act["main"].plan = "greeting"
  /\ act["main"].pc \notin {"greet", "cancelling", "clearing"} => act["main"].plan = "listen"
  /\ act["main"].plan = "utterance" => SttDone
  /\ act["stt"].pc \in {"listen", "cancelling", "clearing", "teardown", "ended"}
  /\ act["stt"].plan \in {"listen", "turn", "fallback"}
  /\ ~Busy("stt") => act["stt"].plan = "listen"
  /\ act["main"].pc = "accept" => SttDone /\ ready = "none" /\ cur = None
  /\ Leaving => carrier = "gone" /\ ready = "none"
  /\ act["main"].pc \in {"waiting", "cleanup", "ended"} => SttDone /\ cur = None
  /\ carrier = "gone" => line = <<>>
  /\ ready = "stored" => Busy("stt") \/ act["stt"].pc = "listen"
  /\ ready = "stored" => act["stt"].plan # "fallback"

\* The responses, in the order of their creation: one that is cancelled and runs is
\* awaited by the actor that cancelled it, and is not the current one any more.
TaskInv ==
  /\ \A t, u \in Tasks : t < u /\ resp[t].pc = "unused" => resp[u].pc = "unused"
  /\ \A t \in Tasks : resp[t].pc = "unused"
       => ~resp[t].doomed /\ resp[t].session = None /\ resp[t].kind = "unused"
  /\ \A t \in Tasks : resp[t].kind = "greeting" => resp[t].pc \in {"queued", "speak", "pace", "done"}
  /\ cur # None => resp[cur].pc # "unused" /\ ~resp[cur].doomed
  /\ \A t \in Tasks : Alive(t) /\ resp[t].doomed
       => \E a \in Actors : act[a].victim = t /\ act[a].pc \in {"cancelling", "waiting"}
  /\ \A a \in Actors : act[a].victim # None => resp[act[a].victim].doomed
  /\ \A a \in Actors : act[a].pc = "clearing" /\ act[a].victim # None => ~Alive(act[a].victim)

\* Only the greeting meets a second response: until it is created the transcription
\* task replaces what it cancelled, afterwards only the transcription task creates
\* responses beside a receive loop that merely cancels.
ToGreet == act["main"].pc \in {"accept", "greet"} \/ act["main"].plan = "greeting"
OrphanInv ==
  /\ ToGreet => /\ Orphans = {} /\ \A t \in Tasks : resp[t].kind # "greeting"
                /\ Busy("stt") => ~Running(cur)
  /\ Busy("stt") /\ Running(cur) => resp[cur].kind = "greeting" /\ Orphans = {}
  /\ act["main"].plan = "utterance" => ~Running(cur)
  /\ \A g \in Tasks : resp[g].kind = "greeting" => cur = None \/ g <= cur
  /\ \A o, p \in Orphans : o = p
  /\ \A o \in Orphans : resp[o].kind = "greeting" \/ Passed(o)

\* Unless a greeting passed a response, every speech session that was opened is the
\* active one or closed.
SessionInv == (\E o \in Tasks : Passed(o)) \/
  /\ \A t \in Tasks : resp[t].session \in closed \cup {tts, None}
  /\ \A t \in Tasks : Going(t) /\ resp[t].pc = "switch" => tts \in closed \cup {None}
  /\ \A t \in Tasks : Going(t) /\ resp[t].pc = "open" => tts = None

\* A first response that was cancelled is silent as soon as its audio is cleared.
Alone(t) == \A u \in Tasks \ {t} : resp[u].pc \in {"unused", "queued"}
Hushed == ~playing /\ (line = <<>> \/ \E a \in Actors : act[a].pc = "clearing")
SilenceInv ==
  \A t \in Tasks : resp[t].pc = "done" /\ resp[t].doomed /\ Alone(t) =>
    \/ carrier = "gone" \/ Hushed
    \/ \E a \in Actors : act[a].pc = "cancelling" /\ act[a].victim = t

\* What may be at the carrier, on its way back, or awaited, of a response that got as
\* far as it did: its reply, the reply's mark, the goodbye, its mark, in this order.
Early == {"unused", "queued", "hear", "switch", "open", "voice"}
Allowed(x) ==
  LET r == resp[x.of] IN
  /\ r.pc \notin Early
  /\ r.pc \in {"think", "play"} => /\ x.part = "reply" /\ cons[x.of] # "none"
                                   /\ x.mark => cons[x.of] # "speaking"
  /\ r.pc = "unwind" => r.then = "done"
  /\ r.pc = "speak" => r.part = "bye" /\ x.part = "reply"
  /\ r.pc = "pace" => /\ r.part = "reply" => x.part = "reply" /\ ~x.mark
                      /\ x.part = "bye" => ~x.mark
OnLine == {line[i] : i \in DOMAIN line}
Distinct == \A i, j \in DOMAIN line : line[i] = line[j] => i = j
SoundInv == Distinct /\ \A x \in OnLine \cup latest \cup acks : Allowed(x)

\* A reply that was streamed to its end was heard, or met by what was meant for
\* another response: who stops a playback task's frames leaves a trace.
HeardAt(t) ==
  /\ ~resp[t].unheard /\ resp[t].fate # "wiped"
  /\ resp[t].session = None => cons[t] = "none"
  /\ resp[t].pc \in Early => resp[t].session = None
  /\ resp[t].then = "speak" => resp[t].pc \in {"unwind", "speak", "pace"} /\ resp[t].session = None
  /\ cons[t] = "speaking" => resp[t].pc \in {"think", "play", "unwind", "done"}
  /\ cons[t] = "marked" => resp[t].pc = "play"
  /\ t \in waiters => cons[t] = "marked"
  /\ Going(t) /\ resp[t].pc \in {"think", "play"} =>
       /\ cons[t] = "speaking" /\ ~playing => resp[t].fate = "met"
       /\ cons[t] = "ended" => resp[t].fate \in {"heard", "met"}
       /\ t \in waiters /\ Mark(t, "reply") \in acks => resp[t].fate \in {"heard", "met"}
HeardInv == \A t \in Tasks : HeardAt(t)

CallInv == /\ TypeInv /\ ActInv /\ TaskInv /\ OrphanInv /\ SessionInv /\ SilenceInv
           /\ SoundInv /\ HeardInv

LEMMA Bounds == MaxTasks \in Nat /\ None \notin Tasks /\ None = 0 /\ Tasks \subseteq Nat
BY BoundAssumption DEF Tasks, None

-----------------------------------------------------------------------------
(* What is said, and in which order *)

\* An item that waits at the carrier is not sent again, and is sent by a response that
\* got that far.
LEMMA SoundStep ==
  ASSUME TypeInv, SoundInv, line' \in Seq(Items),
         \A x \in Items : Allowed(x) => Allowed(x)',
         \/ line' = line \/ line' = <<>>
         \/ \E i \in Items : i \notin OnLine /\ Allowed(i)' /\ line' = Append(line, i),
         \A x \in latest' \cup acks' : x \in OnLine \cup latest \cup acks \/ Allowed(x)'
  PROVE  SoundInv'
<1>1. OnLine \subseteq Items /\ latest \subseteq Items /\ acks \subseteq Items
  BY DEF TypeInv, OnLine, Marks
<1>2. \A x \in latest' \cup acks' : Allowed(x)'
  BY <1>1 DEF SoundInv
<1>3. Distinct' /\ \A x \in OnLine' : Allowed(x)'
  <2>1. CASE line' = line
    BY <1>1, <2>1 DEF SoundInv, Distinct, OnLine
  <2>2. CASE line' = <<>>
    BY <2>2 DEF Distinct, OnLine
  <2>3. CASE \E i \in Items : i \notin OnLine /\ Allowed(i)' /\ line' = Append(line, i)
    <3>1. PICK i \in Items : i \notin OnLine /\ Allowed(i)' /\ line' = Append(line, i)
      BY <2>3
    <3>2. line \in Seq(Items) /\ i \notin OnLine
      BY <3>1 DEF TypeInv
    <3>3. /\ DOMAIN line' = 1..(Len(line) + 1) /\ DOMAIN line = 1..Len(line) /\ Len(line) \in Nat
          /\ \A j \in 1..Len(line) : line'[j] = line[j]
          /\ line'[Len(line) + 1] = i
      BY <3>1, <3>2
    <3>4. \A j \in 1..Len(line) : line[j] \in OnLine
      BY <3>3 DEF OnLine
    <3>5. ASSUME NEW j \in DOMAIN line', NEW k \in DOMAIN line', line'[j] = line'[k]
          PROVE  j = k
      <4>1. CASE j \in 1..Len(line) /\ k \in 1..Len(line)
        BY <4>1, <3>3, <3>5 DEF SoundInv, Distinct
      <4>2. CASE j = Len(line) + 1 \/ k = Len(line) + 1
        BY <4>2, <3>2, <3>3, <3>4, <3>5
      <4>. QED  BY <4>1, <4>2, <3>3
    <3>6. \A x \in OnLine' : x \in OnLine \/ x = i
      BY <3>3, <3>4 DEF OnLine
    <3>7. Distinct'
      BY <3>5 DEF Distinct
    <3>. QED  BY <1>1, <3>1, <3>6, <3>7 DEF SoundInv
  <2>. QED  BY <2>1, <2>2, <2>3
<1>. QED  BY <1>2, <1>3 DEF SoundInv

\* What is allowed depends on the stage of the response and of its playback task.
SameStage(u) == /\ resp'[u].pc = resp[u].pc /\ resp'[u].part = resp[u].part
                /\ resp'[u].then = resp[u].then /\ cons'[u] = cons[u]

LEMMA StageAllows ==
  ASSUME NEW x \in Items, SameStage(x.of)
  PROVE  Allowed(x)' <=> Allowed(x)
BY DEF SameStage, Allowed

-----------------------------------------------------------------------------
(* A step of one response *)

LEMMA RespUpdate ==
  ASSUME TypeInv, NEW t \in Tasks, NEW r \in RespStates, resp' = [resp EXCEPT ![t] = r]
  PROVE  /\ resp' \in [Tasks -> RespStates] /\ resp'[t] = r
         /\ \A u \in Tasks : u # t => resp'[u] = resp[u]
BY DEF TypeInv

LEMMA EndedFields ==
  ASSUME NEW r \in RespStates
  PROVE  /\ Ended(r) \in RespStates /\ Ended(r).pc = "done" /\ Ended(r).part = "reply"
         /\ Ended(r).then = "done" /\ Ended(r).session = r.session /\ Ended(r).doomed = r.doomed
         /\ Ended(r).kind = "greeting" <=> r.kind = "greeting"
         /\ Ended(r).kind # "unused" /\ Ended(r).fate = "open" /\ Ended(r).unheard = r.unheard
<1>. DEFINE k == IF r.kind = "greeting" THEN r.kind ELSE "turn"
            q == Response(k)
<1>1. k \in {"greeting", "turn"} /\ (k = "greeting" <=> r.kind = "greeting")
  OBVIOUS
<1>2. Ended(r) = [q EXCEPT !.pc = "done", !.doomed = r.doomed, !.session = r.session,
                           !.unheard = r.unheard]
  BY DEF Ended
<1>. HIDE DEF k
<1>3. /\ q \in RespStates /\ q.kind = k /\ q.part = "reply" /\ q.then = "done"
      /\ q.fate = "open"
  BY <1>1, Bounds DEF Response, RespStates, Pcs, InTransaction
<1>4. r.doomed \in BOOLEAN /\ r.session \in Tasks \cup {None} /\ r.unheard \in BOOLEAN
  BY DEF RespStates
<1>5. "done" \in Pcs
  BY DEF Pcs, InTransaction
<1>. HIDE DEF q
<1>. DEFINE e == [q EXCEPT !.pc = "done", !.doomed = r.doomed, !.session = r.session,
                           !.unheard = r.unheard]
<1>6. e \in RespStates
  BY <1>3, <1>4, <1>5 DEF RespStates
<1>7. /\ e.pc = "done" /\ e.doomed = r.doomed /\ e.session = r.session /\ e.unheard = r.unheard
      /\ e.kind = q.kind /\ e.part = q.part /\ e.then = q.then /\ e.fate = q.fate
  BY <1>3 DEF RespStates
<1>8. Ended(r) = e
  BY <1>2
<1>. HIDE DEF e
<1>9. e.kind # "unused" /\ (e.kind = "greeting" <=> r.kind = "greeting")
  BY <1>1, <1>3, <1>7
<1>. QED  BY <1>3, <1>6, <1>7, <1>8, <1>9, Zenon

\* Response t, and with it its playback task, is the one that takes a step.
TaskStep(t) ==
  /\ Alive(t)
  /\ resp' \in [Tasks -> RespStates] /\ \A u \in Tasks : u # t => resp'[u] = resp[u]
  /\ cons' \in [Tasks -> ConsStates] /\ \A u \in Tasks : u # t => cons'[u] = cons[u]
  /\ resp'[t].pc \notin {"unused", "queued"} /\ resp'[t].doomed = resp[t].doomed
  /\ resp'[t].kind = "greeting" <=> resp[t].kind = "greeting"
  /\ resp[t].kind = "greeting" => resp'[t].pc \in {"speak", "pace", "done"}
  /\ act' = act /\ cur' = cur /\ talking' = talking /\ ready' = ready /\ carrier' = carrier
  /\ completed' \in BOOLEAN /\ playing' \in {playing, TRUE}
  /\ waiters' \in SUBSET waiters /\ acks' \in SUBSET acks
  /\ \A m, n \in latest' : m = n
  /\ tts' \in Tasks \cup {None} /\ closed' \in SUBSET Tasks

\* The speech sessions it leaves open, the items it sends, and what it knows of them.
SessionFits(t) == (\E o \in Tasks : Passed(o)) \/
  /\ closed \subseteq closed' /\ tts \in closed' \cup {tts', None}
  /\ resp'[t].session \in {resp[t].session, tts', None}
  /\ tts' \in {tts, None} \/ (resp[t].pc = "open" /\ ~resp[t].doomed)
  /\ Going(t)' /\ resp'[t].pc = "switch" => tts' \in closed' \cup {None}
  /\ Going(t)' /\ resp'[t].pc = "open" => tts' = None
SoundFits(t) ==
  /\ \A x \in Items : x.of = t /\ Allowed(x) => Allowed(x)'
  /\ \/ line' = line
     \/ \E i \in Items : /\ i.of = t /\ ~Allowed(i) /\ Allowed(i)' /\ line' = Append(line, i)
                         /\ carrier = "up"
  /\ \A x \in latest' : x \in latest \/ (x \in Marks /\ Allowed(x)')

LEMMA TaskStepSound ==
  ASSUME CallInv, NEW t \in Tasks, TaskStep(t), SoundFits(t)
  PROVE  TypeInv' /\ SoundInv' /\ (carrier = "gone" => line' = line)
<1>1. line' \in Seq(Items) /\ (carrier = "gone" => line' = line)
  <2>1. line \in Seq(Items)
    BY DEF CallInv, TypeInv
  <2>2. line' = line \/ \E i \in Items : line' = Append(line, i) /\ carrier = "up"
    BY Zenon DEF SoundFits
  <2>3. ASSUME NEW i \in Items PROVE Append(line, i) \in Seq(Items)
    BY <2>1, AppendProperties
  <2>. QED  BY <2>1, <2>2, <2>3
<1>2. \A x \in Items : Allowed(x) => Allowed(x)'
  <2>1. ASSUME NEW x \in Items, Allowed(x), x.of # t
        PROVE  Allowed(x)'
    <3>1. x.of \in Tasks
      BY DEF Items
    <3>2. SameStage(x.of)
      BY <3>1, <2>1 DEF TaskStep, SameStage
    <3>. QED  BY <3>2, <2>1, StageAllows
  <2>. QED  BY <2>1 DEF SoundFits
<1>3. latest' \in SUBSET Marks /\ acks' \in SUBSET Marks
  BY DEF CallInv, TypeInv, SoundFits, TaskStep
<1>4. TypeInv'
  BY <1>1, <1>3 DEF CallInv, TypeInv, TaskStep
<1>5. \A x \in latest' \cup acks' : x \in OnLine \cup latest \cup acks \/ Allowed(x)'
  BY DEF SoundFits, TaskStep
<1>6. SoundInv'
  BY <1>1, <1>2, <1>5, SoundStep DEF CallInv, SoundFits, SoundInv
<1>. QED  BY <1>1, <1>4, <1>6

LEMMA TaskStepTasks ==
  ASSUME CallInv, NEW t \in Tasks, TaskStep(t), carrier = "gone" => line' = line
  PROVE  ActInv' /\ TaskInv' /\ OrphanInv' /\ SilenceInv'
<1>1. ActInv'
  BY DEF CallInv, ActInv, TaskStep, SttDone, Busy, Leaving
<1>2. \A u \in Tasks : /\ Alive(u)' => Alive(u)
                       /\ resp'[u].doomed = resp[u].doomed
                       /\ resp'[u].kind = "greeting" <=> resp[u].kind = "greeting"
                       /\ resp'[u].pc = "unused" <=> resp[u].pc = "unused"
  BY DEF TaskStep, Alive
<1>3. TaskInv'
  <2>1. \A u \in Tasks : resp'[u].pc = "unused" => resp'[u] = resp[u]
    BY DEF TaskStep
  <2>2. \A u \in Tasks : resp'[u].kind = "greeting" => resp'[u].pc \in {"queued", "speak", "pace", "done"}
    BY DEF TaskStep, CallInv, TaskInv
  <2>3. \A u, v \in Tasks : u < v /\ resp'[u].pc = "unused" => resp'[v].pc = "unused"
    BY <1>2 DEF CallInv, TaskInv
  <2>4. \A u \in Tasks : resp'[u].pc = "unused"
          => ~resp'[u].doomed /\ resp'[u].session = None /\ resp'[u].kind = "unused"
    BY <2>1 DEF CallInv, TaskInv
  <2>5. cur' # None => resp'[cur'].pc # "unused" /\ ~resp'[cur'].doomed
    BY <1>2 DEF CallInv, TaskInv, TypeInv, TaskStep
  <2>6. \A u \in Tasks : Alive(u)' /\ resp'[u].doomed
          => \E a \in Actors : act'[a].victim = u /\ act'[a].pc \in {"cancelling", "waiting"}
    BY <1>2 DEF CallInv, TaskInv, TaskStep
  <2>7. \A a \in Actors : act'[a].victim # None => resp'[act'[a].victim].doomed
    BY <1>2 DEF CallInv, TaskInv, TypeInv, ActStates, TaskStep
  <2>8. \A a \in Actors : (act[a].pc = "clearing" /\ act[a].victim # None => ~Alive(act[a].victim))'
    <3>. SUFFICES ASSUME NEW a \in Actors, act[a].pc = "clearing", act[a].victim # None
                  PROVE  ~Alive(act[a].victim)'
      BY DEF TaskStep
    <3>1. PICK v \in Tasks : v = act[a].victim /\ ~Alive(v)
      BY DEF CallInv, TaskInv, TypeInv, ActStates
    <3>2. ~Alive(v)' /\ act' = act
      BY <1>2, <3>1 DEF TaskStep
    <3>. QED  BY <3>1, <3>2 DEF Alive
  <2>. QED  BY <2>2, <2>3, <2>4, <2>5, <2>6, <2>7, <2>8 DEF TaskInv, Alive
<1>4. OrphanInv'
  <2>1. Orphans' \subseteq Orphans
    BY <1>2 DEF Orphans, TaskStep
  <2>2. Running(cur)' => Running(cur)
    BY <1>2 DEF Running, CallInv, TypeInv, TaskStep
  <2>3. \A o \in Tasks : Passed(o)' <=> Passed(o)
    BY <1>2 DEF Passed
  <2>4. ToGreet' <=> ToGreet
    BY DEF ToGreet, TaskStep
  <2>5. Busy("stt")' <=> Busy("stt")
    BY DEF Busy, TaskStep
  <2>6. Orphans \subseteq Tasks /\ (cur # None => cur \in Tasks)
    BY DEF Orphans, CallInv, TypeInv
  <2>. QED  BY <1>2, <2>1, <2>2, <2>3, <2>4, <2>5, <2>6 DEF CallInv, OrphanInv, TaskStep, Running
<1>5. SilenceInv'
  <2>. SUFFICES ASSUME NEW u \in Tasks, resp'[u].pc = "done", resp'[u].doomed, Alone(u)',
                       carrier' # "gone"
                PROVE  \E a \in Actors : act'[a].pc = "cancelling" /\ act'[a].victim = u
    BY DEF SilenceInv
  <2>1. u = t
    BY DEF Alone, TaskStep
  <2>2. PICK a \in Actors : act[a].victim = t /\ act[a].pc \in {"cancelling", "waiting"}
    BY <2>1 DEF TaskStep, CallInv, TaskInv
  <2>3. act[a].pc # "waiting"
    BY <2>2 DEF TaskStep, CallInv, ActInv, Leaving, Actors, TypeInv
  <2>. QED  BY <2>1, <2>2, <2>3 DEF TaskStep
<1>. QED  BY <1>1, <1>3, <1>4, <1>5

\* A response that goes on and is not the greeting is the current one, unless a
\* greeting passed it.
LEMMA OnlyCurrent ==
  ASSUME CallInv, NEW u \in Tasks, Going(u), resp[u].kind # "greeting",
         \A o \in Tasks : ~Passed(o)
  PROVE  u = cur
BY DEF CallInv, OrphanInv, Orphans, Going

LEMMA TaskStepSessions ==
  ASSUME CallInv, NEW t \in Tasks, TaskStep(t), SessionFits(t)
  PROVE  SessionInv'
<1>1. \A u \in Tasks : /\ resp'[u].doomed = resp[u].doomed
                       /\ resp'[u].kind = "greeting" <=> resp[u].kind = "greeting"
  BY DEF TaskStep
<1>2. \A o \in Tasks : Passed(o)' <=> Passed(o)
  BY <1>1 DEF Passed
<1>3. CASE \E o \in Tasks : Passed(o)
  BY <1>2, <1>3 DEF SessionInv
<1>4. CASE \A o \in Tasks : ~Passed(o)
  <2>1. \A u \in Tasks : resp[u].session \in closed \cup {tts, None}
    BY <1>4 DEF CallInv, SessionInv
  <2>2. \A u \in Tasks : Going(u) /\ resp[u].pc = "switch" => tts \in closed \cup {None}
    BY <1>4 DEF CallInv, SessionInv
  <2>3. \A u \in Tasks : Going(u) /\ resp[u].pc = "open" => tts = None
    BY <1>4 DEF CallInv, SessionInv
  <2>4. \A u \in Tasks : u # t /\ Going(u) /\ resp[u].pc \in {"switch", "open"}
                           => tts' \in {tts, None}
    <3>. SUFFICES ASSUME NEW u \in Tasks, u # t, Going(u), resp[u].pc \in {"switch", "open"},
                         resp[t].pc = "open", ~resp[t].doomed
                  PROVE  FALSE
      BY <1>4 DEF SessionFits
    <3>1. resp[u].kind # "greeting" /\ resp[t].kind # "greeting" /\ Going(t)
      BY DEF CallInv, TaskInv, Going, Alive
    <3>. QED  BY <1>4, <3>1, OnlyCurrent
  <2>5. \A u \in Tasks : resp'[u].session \in closed' \cup {tts', None}
    BY <1>4, <2>1 DEF TaskStep, SessionFits
  <2>6. \A u \in Tasks : u # t => (Going(u)' <=> Going(u)) /\ resp'[u].pc = resp[u].pc
    BY DEF TaskStep, Going, Alive
  <2>7. \A u \in Tasks : Going(u)' /\ resp'[u].pc = "switch" => tts' \in closed' \cup {None}
    BY <1>4, <2>2, <2>4, <2>6 DEF SessionFits
  <2>8. \A u \in Tasks : Going(u)' /\ resp'[u].pc = "open" => tts' = None
    BY <1>4, <2>3, <2>4, <2>6 DEF SessionFits
  <2>. QED  BY <2>5, <2>7, <2>8 DEF SessionInv
<1>. QED  BY <1>3, <1>4

\* What holds of a response that does nothing goes on to hold as long as playback is
\* not stopped and no mark is sent back.
LEMMA HeardStays ==
  ASSUME NEW u \in Tasks, HeardAt(u), resp'[u] = resp[u], cons'[u] = cons[u],
         playing' \in {playing, TRUE}, u \in waiters' => u \in waiters,
         acks' \subseteq acks
  PROVE  HeardAt(u)'
BY DEF HeardAt, Going, Alive

LEMMA TaskStepKeeps ==
  ASSUME CallInv, NEW t \in Tasks, TaskStep(t), SessionFits(t), SoundFits(t), HeardAt(t)'
  PROVE  CallInv'
<1>1. TypeInv' /\ SoundInv' /\ (carrier = "gone" => line' = line)
  BY TaskStepSound
<1>2. ActInv' /\ TaskInv' /\ OrphanInv' /\ SilenceInv'
  BY <1>1, TaskStepTasks
<1>3. SessionInv'
  BY TaskStepSessions
<1>4. HeardInv'
  <2>1. ASSUME NEW u \in Tasks, u # t
        PROVE  HeardAt(u)'
    BY <2>1, HeardStays DEF CallInv, HeardInv, TaskStep
  <2>. QED  BY <2>1 DEF HeardInv
<1>. QED  BY <1>1, <1>2, <1>3, <1>4 DEF CallInv

-----------------------------------------------------------------------------
(* The stages of a response *)

Fits(t) == TaskStep(t) /\ SessionFits(t) /\ SoundFits(t) /\ HeardAt(t)'

\* Only the stage changes.
LEMMA StageOnly ==
  ASSUME TypeInv, NEW t \in Tasks, NEW p \in Pcs, resp' = [resp EXCEPT ![t].pc = p]
  PROVE  /\ resp' \in [Tasks -> RespStates] /\ \A u \in Tasks : u # t => resp'[u] = resp[u]
         /\ resp'[t].pc = p /\ resp'[t].doomed = resp[t].doomed /\ resp'[t].kind = resp[t].kind
         /\ resp'[t].session = resp[t].session /\ resp'[t].part = resp[t].part
         /\ resp'[t].then = resp[t].then /\ resp'[t].fate = resp[t].fate
         /\ resp'[t].unheard = resp[t].unheard
<1>1. resp[t] \in RespStates
  BY DEF TypeInv
<1>. DEFINE r == [resp[t] EXCEPT !.pc = p]
<1>2. r \in RespStates /\ r.pc = p /\ r.doomed = resp[t].doomed /\ r.kind = resp[t].kind
      /\ r.session = resp[t].session /\ r.part = resp[t].part /\ r.then = resp[t].then
      /\ r.fate = resp[t].fate /\ r.unheard = resp[t].unheard
  BY <1>1 DEF RespStates
<1>3. resp' = [resp EXCEPT ![t] = r]
  OBVIOUS
<1>. HIDE DEF r
<1>. QED  BY <1>2, <1>3, RespUpdate

\* It streams to a session.
LEMMA StreamToParts ==
  ASSUME TypeInv, NEW t \in Tasks, NEW s \in Tasks, StreamTo(t, s)
  PROVE  /\ resp' \in [Tasks -> RespStates] /\ \A u \in Tasks : u # t => resp'[u] = resp[u]
         /\ resp'[t].pc = "think" /\ resp'[t].doomed = resp[t].doomed
         /\ resp'[t].kind = resp[t].kind /\ resp'[t].session = s /\ resp'[t].part = resp[t].part
         /\ resp'[t].then = resp[t].then /\ resp'[t].fate = resp[t].fate
         /\ resp'[t].unheard = resp[t].unheard
         /\ cons' \in [Tasks -> ConsStates] /\ \A u \in Tasks : u # t => cons'[u] = cons[u]
         /\ cons'[t] = "speaking" /\ playing' = TRUE
<1>1. resp[t] \in RespStates
  BY DEF TypeInv
<1>. DEFINE r == [resp[t] EXCEPT !.pc = "think", !.session = s]
<1>2. r \in RespStates /\ r.pc = "think" /\ r.doomed = resp[t].doomed /\ r.kind = resp[t].kind
      /\ r.session = s /\ r.part = resp[t].part /\ r.then = resp[t].then
      /\ r.fate = resp[t].fate /\ r.unheard = resp[t].unheard
  BY <1>1 DEF RespStates, Pcs, InTransaction
<1>3. resp' = [resp EXCEPT ![t] = r]
  BY DEF StreamTo
<1>. HIDE DEF r
<1>4. /\ cons' \in [Tasks -> ConsStates] /\ \A u \in Tasks : u # t => cons'[u] = cons[u]
      /\ cons'[t] = "speaking" /\ playing' = TRUE
  BY DEF StreamTo, TypeInv, ConsStates
<1>. QED  BY <1>2, <1>3, <1>4, RespUpdate

\* Before it streams or speaks, nothing of a response is on its way.
LEMMA EarlyFacts ==
  ASSUME CallInv, NEW t \in Tasks, Alive(t), resp[t].pc \in Early
  PROVE  /\ resp[t].session = None /\ cons[t] = "none" /\ t \notin waiters
         /\ resp[t].then = "done" /\ resp[t].fate # "wiped" /\ ~resp[t].unheard
         /\ \A x \in Items : x.of = t => ~Allowed(x)
BY DEF CallInv, HeardInv, HeardAt, Early, Allowed, TypeInv, RespStates

LEMMA StreamHeard ==
  ASSUME CallInv, NEW t \in Tasks, Alive(t), resp[t].pc \in Early, NEW s \in Tasks,
         StreamTo(t, s), waiters' = waiters
  PROVE  HeardAt(t)'
<1>1. t \notin waiters' /\ resp[t].then = "done" /\ resp[t].fate # "wiped" /\ ~resp[t].unheard
  BY EarlyFacts
<1>2. TypeInv /\ s # None
  BY Bounds DEF CallInv
<1>3. /\ resp'[t].pc = "think" /\ resp'[t].session = s /\ resp'[t].then = resp[t].then
      /\ resp'[t].fate = resp[t].fate /\ resp'[t].unheard = resp[t].unheard
      /\ cons'[t] = "speaking" /\ playing' = TRUE
  BY <1>2, StreamToParts
<1>. QED  BY <1>1, <1>2, <1>3 DEF HeardAt, Early

\* The turn-taking stays as it is.
LEMMA TurningStays ==
  ASSUME TypeInv, UNCHANGED Turning
  PROVE  /\ act' = act /\ cur' = cur /\ talking' = talking /\ ready' = ready /\ carrier' = carrier
         /\ waiters' = waiters /\ acks' = acks /\ latest' = latest /\ line' = line
         /\ waiters' \in SUBSET waiters /\ acks' \in SUBSET acks
         /\ \A m, n \in latest' : m = n
BY DEF Turning, TypeInv

\* A response streams to a session, and nothing else changes.
LEMMA StreamSteps ==
  ASSUME CallInv, NEW t \in Tasks, Going(t), resp[t].pc # "unused", resp[t].kind # "greeting",
         NEW s \in Tasks, StreamTo(t, s), tts' \in Tasks \cup {None}, closed' = closed,
         completed' = completed, UNCHANGED Turning
  PROVE  TaskStep(t)
<1>1. TypeInv
  BY DEF CallInv
<1>2. /\ resp' \in [Tasks -> RespStates] /\ \A u \in Tasks : u # t => resp'[u] = resp[u]
      /\ cons' \in [Tasks -> ConsStates] /\ \A u \in Tasks : u # t => cons'[u] = cons[u]
      /\ resp'[t].pc = "think" /\ resp'[t].doomed = resp[t].doomed
      /\ resp'[t].kind = resp[t].kind /\ playing' = TRUE
  BY <1>1, StreamToParts
<1>3. completed' \in BOOLEAN /\ closed' \in SUBSET Tasks /\ playing' \in {playing, TRUE}
  BY <1>1, <1>2 DEF TypeInv
<1>4. Alive(t) /\ resp'[t].pc \notin {"unused", "queued"}
  BY <1>2 DEF Going
<1>5. /\ act' = act /\ cur' = cur /\ talking' = talking /\ ready' = ready /\ carrier' = carrier
      /\ waiters' \in SUBSET waiters /\ acks' \in SUBSET acks
      /\ \A m, n \in latest' : m = n
  BY <1>1, TurningStays
<1>6. /\ resp'[t].kind = "greeting" <=> resp[t].kind = "greeting"
      /\ resp[t].kind = "greeting" => resp'[t].pc \in {"speak", "pace", "done"}
  BY <1>2
<1>. QED  BY <1>2, <1>3, <1>4, <1>5, <1>6, Zenon DEF TaskStep

\* A response moves to another early stage, or thinks, and its playback task does nothing.
LEMMA StageSteps ==
  ASSUME CallInv, NEW t \in Tasks, Alive(t),
         NEW p \in Pcs, p \notin {"unused", "queued"}, resp' = [resp EXCEPT ![t].pc = p],
         resp[t].kind = "greeting" => p = "speak",
         cons' = cons, playing' = playing, tts' \in Tasks \cup {None}, closed' \in SUBSET Tasks,
         completed' = completed, UNCHANGED Turning
  PROVE  TaskStep(t)
<1>1. TypeInv
  BY DEF CallInv
<1>2. /\ resp' \in [Tasks -> RespStates] /\ \A u \in Tasks : u # t => resp'[u] = resp[u]
      /\ resp'[t].pc = p /\ resp'[t].doomed = resp[t].doomed /\ resp'[t].kind = resp[t].kind
  BY <1>1, StageOnly, Zenon
<1>3. /\ cons' \in [Tasks -> ConsStates] /\ \A u \in Tasks : u # t => cons'[u] = cons[u]
      /\ completed' \in BOOLEAN /\ playing' \in {playing, TRUE}
  BY <1>1 DEF TypeInv
<1>4. /\ act' = act /\ cur' = cur /\ talking' = talking /\ ready' = ready /\ carrier' = carrier
      /\ waiters' \in SUBSET waiters /\ acks' \in SUBSET acks
      /\ \A m, n \in latest' : m = n
  BY <1>1, TurningStays
<1>5. /\ resp'[t].pc \notin {"unused", "queued"}
      /\ resp'[t].kind = "greeting" <=> resp[t].kind = "greeting"
      /\ resp[t].kind = "greeting" => resp'[t].pc \in {"speak", "pace", "done"}
  BY <1>2
<1>. QED  BY <1>2, <1>3, <1>4, <1>5, Zenon DEF TaskStep

LEMMA JoinFits ==
  ASSUME CallInv, NEW t \in Tasks, Going(t), resp[t].pc \in {"queued", "hear"},
         resp[t].kind # "greeting", JoinSession(t), UNCHANGED <<tts, completed, Turning>>
  PROVE  Fits(t)
<1>1. TypeInv /\ Alive(t) /\ resp[t].pc \in Early
  BY DEF CallInv, Going, Early
<1>2. CASE tts # None /\ StreamTo(t, tts) /\ closed' = closed
  <2>1. tts \in Tasks
    BY <1>1, <1>2 DEF TypeInv
  <2>2. TaskStep(t)
    BY <1>1, <1>2, <2>1, StreamSteps
  <2>3. SessionFits(t)
    <3>1. resp'[t].session = tts /\ resp'[t].pc = "think" /\ tts' = tts
      BY <1>1, <1>2, <2>1, StreamToParts
    <3>. QED  BY <1>2, <3>1 DEF SessionFits
  <2>4. SoundFits(t)
    BY <1>1, EarlyFacts DEF SoundFits, Turning
  <2>5. HeardAt(t)'
    BY <1>1, <1>2, <2>1, StreamHeard DEF Turning
  <2>. QED  BY <2>2, <2>3, <2>4, <2>5 DEF Fits
<1>3. CASE ~(tts # None /\ StreamTo(t, tts) /\ closed' = closed)
  <2>1. PICK p \in {"switch", "open"} :
          /\ resp' = [resp EXCEPT ![t].pc = p] /\ cons' = cons /\ playing' = playing
          /\ closed' \in SUBSET Tasks /\ closed \subseteq closed'
          /\ p = "switch" => tts \in closed'
          /\ p = "open" => tts = None
    BY <1>1, <1>3 DEF JoinSession, TypeInv
  <2>2. p \in Pcs /\ p \in Early /\ p \notin {"think", "play"}
    BY DEF Pcs, InTransaction, Early
  <2>3. TaskStep(t)
    <3>1. p \notin {"unused", "queued"} /\ tts' \in Tasks \cup {None}
      BY <1>1 DEF TypeInv
    <3>. QED  BY <1>1, <2>1, <2>2, <3>1, StageSteps
  <2>4. SessionFits(t)
    BY <1>1, <2>1, <2>2, StageOnly DEF SessionFits
  <2>5. SoundFits(t)
    BY <1>1, EarlyFacts DEF SoundFits, Turning
  <2>6. HeardAt(t)'
    BY <1>1, <2>1, <2>2, StageOnly, EarlyFacts DEF HeardAt, Turning
  <2>. QED  BY <2>3, <2>4, <2>5, <2>6 DEF Fits
<1>. QED  BY <1>2, <1>3

\* From one early stage to another, or to a line of its own.
LEMMA EarlyFits ==
  ASSUME CallInv, NEW t \in Tasks, Going(t), resp[t].pc \in Early,
         NEW p \in {"hear", "speak", "open", "think"}, resp' = [resp EXCEPT ![t].pc = p],
         resp[t].kind = "greeting" => p = "speak",
         cons' = cons, closed' = closed, playing' = playing, tts' \in {tts, None},
         (\E o \in Tasks : Passed(o)) \/ tts \in closed \cup {tts', None},
         p = "open" => tts' = None,
         UNCHANGED <<completed, Turning>>
  PROVE  Fits(t)
<1>1. TypeInv /\ Alive(t) /\ p \in Pcs
  BY DEF CallInv, Going, Pcs, InTransaction
<1>2. TaskStep(t)
  <2>1. /\ p \notin {"unused", "queued"} /\ tts' \in Tasks \cup {None}
        /\ closed' \in SUBSET Tasks
    BY <1>1 DEF TypeInv
  <2>. QED  BY <1>1, <2>1, StageSteps
<1>3. SessionFits(t)
  BY <1>1, StageOnly DEF SessionFits
<1>4. SoundFits(t)
  BY <1>1, EarlyFacts DEF SoundFits, Turning
<1>5. HeardAt(t)'
  BY <1>1, StageOnly, EarlyFacts DEF HeardAt, Turning
<1>. QED  BY <1>2, <1>3, <1>4, <1>5 DEF Fits

LEMMA BeginFits ==
  ASSUME CallInv, NEW t \in Tasks, Begin(t)
  PROVE  Fits(t)
<1>1. Going(t) /\ resp[t].pc = "queued" /\ resp[t].pc \in Early
  BY DEF Begin, Working, Going, Alive, Early
<1>2. CASE resp[t].kind = "turn" /\ JoinSession(t)
  BY <1>1, <1>2, JoinFits DEF Begin
<1>3. CASE resp[t].kind # "turn"
  <2>1. PICK p \in {"hear", "speak"} : /\ resp' = [resp EXCEPT ![t].pc = p]
                                       /\ resp[t].kind = "greeting" => p = "speak"
    BY <1>3 DEF Begin
  <2>. QED  BY <1>1, <1>3, <2>1, EarlyFits DEF Begin
<1>. QED  BY <1>2, <1>3 DEF Begin

LEMMA HearFits ==
  ASSUME CallInv, NEW t \in Tasks, Hear(t)
  PROVE  Fits(t)
<1>1. Going(t) /\ resp[t].pc = "hear" /\ resp[t].pc \in Early
  BY DEF Hear, Working, Going, Alive, Early
<1>2. resp[t].kind # "greeting"
  BY <1>1 DEF CallInv, TaskInv
<1>3. CASE JoinSession(t)
  BY <1>1, <1>2, <1>3, JoinFits DEF Hear
<1>4. CASE ~JoinSession(t)
  BY <1>1, <1>2, <1>4, EarlyFits DEF Hear
<1>. QED  BY <1>3, <1>4

LEMMA OldSessionClosedFits ==
  ASSUME CallInv, NEW t \in Tasks, OldSessionClosed(t)
  PROVE  Fits(t)
<1>1. Going(t) /\ resp[t].pc = "switch" /\ resp[t].pc \in Early
  BY DEF OldSessionClosed, Working, Going, Alive, Early
<1>2. resp[t].kind # "greeting"
  BY <1>1 DEF CallInv, TaskInv
<1>3. (\E o \in Tasks : Passed(o)) \/ tts \in closed \cup {None}
  BY <1>1 DEF CallInv, SessionInv
<1>. QED  BY <1>1, <1>2, <1>3, EarlyFits DEF OldSessionClosed

LEMMA OpenSessionFits ==
  ASSUME CallInv, NEW t \in Tasks, OpenSession(t)
  PROVE  Fits(t)
<1>1. Going(t) /\ resp[t].pc = "open" /\ resp[t].pc \in Early /\ TypeInv /\ Alive(t)
  BY DEF OpenSession, Working, Going, Alive, Early, CallInv
<1>2. resp[t].kind # "greeting"
  BY <1>1 DEF CallInv, TaskInv
<1>3. CASE tts' = t /\ StreamTo(t, t)
  <2>1. (\E o \in Tasks : Passed(o)) \/ tts = None
    BY <1>1 DEF CallInv, SessionInv
  <2>2. TaskStep(t)
    BY <1>1, <1>2, <1>3, StreamSteps DEF OpenSession
  <2>3. SessionFits(t)
    <3>1. resp'[t].session = t /\ resp'[t].pc = "think"
      <4>1. DOMAIN resp = Tasks /\ {"pc", "session"} \subseteq DOMAIN resp[t]
        BY <1>1 DEF TypeInv, RespStates
      <4>2. resp' = [resp EXCEPT ![t] = [resp[t] EXCEPT !.pc = "think", !.session = t]]
        BY <1>3 DEF StreamTo
      <4>. QED  BY <4>1, <4>2
    <3>2. closed' = closed
      BY DEF OpenSession
    <3>. QED  BY <1>1, <1>3, <2>1, <3>1, <3>2 DEF SessionFits, Going
  <2>4. SoundFits(t)
    BY <1>1, EarlyFacts DEF SoundFits, OpenSession, Turning
  <2>5. HeardAt(t)'
    BY <1>1, <1>3, StreamHeard DEF OpenSession, Turning
  <2>. QED  BY <2>2, <2>3, <2>4, <2>5 DEF Fits
<1>4. CASE ~(tts' = t /\ StreamTo(t, t))
  BY <1>1, <1>2, <1>4, EarlyFits DEF OpenSession
<1>. QED  BY <1>3, <1>4

LEMMA ThinkFits ==
  ASSUME CallInv, NEW t \in Tasks, Think(t)
  PROVE  Fits(t)
<1>1. Going(t) /\ resp[t].pc = "think" /\ TypeInv /\ Alive(t) /\ resp[t] \in RespStates
  BY DEF Think, Working, Going, Alive, CallInv, TypeInv
<1>2. resp[t].kind # "greeting"
  BY <1>1 DEF CallInv, TaskInv
<1>3. PICK e \in {"no", "completed", "abandoned"} :
        resp' = [resp EXCEPT ![t].pc = IF resp[t].session = None THEN "voice" ELSE "play",
                             ![t].ends = e]
  BY DEF Think
<1>. DEFINE r == [resp[t] EXCEPT !.pc = IF resp[t].session = None THEN "voice" ELSE "play",
                                 !.ends = e]
<1>4. resp' = [resp EXCEPT ![t] = r]
  BY <1>3
<1>5. /\ r \in RespStates /\ r.pc = (IF resp[t].session = None THEN "voice" ELSE "play")
      /\ r.doomed = resp[t].doomed /\ r.kind = resp[t].kind
      /\ r.session = resp[t].session /\ r.part = resp[t].part /\ r.then = resp[t].then
      /\ r.fate = resp[t].fate /\ r.unheard = resp[t].unheard
  BY <1>1 DEF RespStates, Pcs, InTransaction
<1>. HIDE DEF r
<1>6. resp' \in [Tasks -> RespStates] /\ resp'[t] = r
      /\ \A u \in Tasks : u # t => resp'[u] = resp[u]
  BY <1>1, <1>4, <1>5, RespUpdate
<1>7. TaskStep(t)
  BY <1>1, <1>2, <1>5, <1>6 DEF TaskStep, Think, Turning, TypeInv
<1>8. SessionFits(t)
  BY <1>1, <1>5, <1>6 DEF SessionFits, Think
<1>9. HeardAt(t)
  BY DEF CallInv, HeardInv
<1>10. SoundFits(t)
  <2>1. ASSUME NEW x \in Items, x.of = t, Allowed(x)
        PROVE  Allowed(x)'
    <3>1. cons[t] # "none" /\ resp[t].session # None /\ cons' = cons
      BY <1>1, <1>9, <2>1 DEF Allowed, HeardAt, Think
    <3>. QED  BY <1>1, <1>5, <1>6, <2>1, <3>1 DEF Allowed, Early
  <2>. QED  BY <2>1 DEF SoundFits, Think, Turning
<1>11. HeardAt(t)'
  <2>1. cons' = cons /\ playing' = playing /\ waiters' = waiters /\ acks' = acks
    BY DEF Think, Turning
  <2>. QED  BY <1>1, <1>5, <1>6, <1>9, <2>1 DEF HeardAt, Early, Going
<1>. QED  BY <1>7, <1>8, <1>10, <1>11 DEF Fits

\* The end of a response: whatever it said may be on its way.
Closing == \/ tts' = tts /\ closed' = closed
           \/ tts' = None /\ closed' = closed \cup ({tts} \ {None})
EndStep(t, r) ==
  /\ resp' = [resp EXCEPT ![t] = Ended(r)]
  /\ r \in RespStates /\ r.session = resp[t].session /\ r.doomed = resp[t].doomed
  /\ r.kind = resp[t].kind /\ ~r.unheard
  /\ cons' \in [Tasks -> ConsStates] /\ \A u \in Tasks : u # t => cons'[u] = cons[u]
  /\ cons'[t] \in {"none", cons[t]} \ {"marked"} /\ t \notin waiters'
  /\ waiters' \in SUBSET waiters /\ Closing
  /\ \/ line' = line
     \/ \E i \in Items : i.of = t /\ ~Allowed(i) /\ line' = Append(line, i) /\ carrier = "up"
  /\ \A x \in latest' : x \in latest \/ (x \in Marks /\ x.of = t)
  /\ \A m, n \in latest' : m = n
  /\ act' = act /\ cur' = cur /\ acks' = acks /\ talking' = talking /\ ready' = ready
  /\ carrier' = carrier /\ playing' = playing /\ completed' \in BOOLEAN

LEMMA ClosingParts ==
  ASSUME TypeInv, Closing
  PROVE  /\ tts' \in Tasks \cup {None} /\ closed' \in SUBSET Tasks
         /\ closed \subseteq closed' /\ tts \in closed' \cup {tts', None} /\ tts' \in {tts, None}
BY DEF TypeInv, Closing

LEMMA EndFits ==
  ASSUME CallInv, NEW t \in Tasks, Alive(t), NEW r, EndStep(t, r)
  PROVE  Fits(t)
<1>1. TypeInv /\ HeardAt(t) /\ Ended(r) \in RespStates
  BY EndedFields DEF CallInv, HeardInv, EndStep
<1>2. resp' \in [Tasks -> RespStates] /\ resp'[t] = Ended(r)
      /\ \A u \in Tasks : u # t => resp'[u] = resp[u]
  BY <1>1, RespUpdate DEF EndStep
<1>3. /\ resp'[t].pc = "done" /\ resp'[t].then = "done" /\ resp'[t].session = resp[t].session
      /\ resp'[t].doomed = resp[t].doomed
      /\ resp'[t].kind = "greeting" <=> resp[t].kind = "greeting"
      /\ resp'[t].fate = "open" /\ ~resp'[t].unheard
  BY <1>2, EndedFields DEF EndStep
<1>4. TaskStep(t)
  BY <1>1, <1>2, <1>3, ClosingParts DEF TaskStep, EndStep
<1>5. SessionFits(t)
  BY <1>1, <1>3, ClosingParts DEF SessionFits, EndStep, Going, Alive
<1>6. \A x \in Items : x.of = t => Allowed(x)'
  BY <1>3 DEF Allowed, Early
<1>7. SoundFits(t)
  BY <1>6 DEF SoundFits, EndStep, Marks
<1>8. HeardAt(t)'
  BY <1>1, <1>3 DEF HeardAt, Early, EndStep
<1>. QED  BY <1>4, <1>5, <1>7, <1>8 DEF Fits

\* The finally of the transaction.
LEMMA UnwoundParts ==
  ASSUME TypeInv, NEW t \in Tasks, NEW r \in RespStates, Unwound(t, r)
  PROVE  /\ Closing /\ tts' = None
         /\ \/ resp' = [resp EXCEPT ![t] = Ended(r)] /\ r.then = "done"
            \/ /\ resp' \in [Tasks -> RespStates]
               /\ \A u \in Tasks : u # t => resp'[u] = resp[u]
               /\ resp'[t].pc = "unwind" \/ (resp'[t].pc = "speak" /\ r.then = "speak")
               /\ resp'[t].doomed = r.doomed /\ resp'[t].kind = r.kind
               /\ resp'[t].session = r.session /\ resp'[t].part = r.part
               /\ resp'[t].then = r.then /\ resp'[t].fate = r.fate
               /\ resp'[t].unheard = r.unheard
<1>1. Closing /\ tts' = None
  BY DEF Unwound, Closing
<1>2. CASE tts = None /\ r.then = "done"
  BY <1>1, <1>2 DEF Unwound
<1>3. CASE tts # None \/ r.then # "done"
  <2>. DEFINE p == IF tts # None THEN "unwind" ELSE r.then
              q == [r EXCEPT !.pc = p]
  <2>1. p = "unwind" \/ (p = "speak" /\ r.then = "speak")
    BY <1>3 DEF RespStates
  <2>2. resp' = [resp EXCEPT ![t] = q]
    BY <1>3 DEF Unwound
  <2>. HIDE DEF p
  <2>3. /\ q \in RespStates /\ q.pc = p /\ q.doomed = r.doomed /\ q.kind = r.kind
        /\ q.session = r.session /\ q.part = r.part /\ q.then = r.then /\ q.fate = r.fate
        /\ q.unheard = r.unheard
    BY <2>1 DEF RespStates, Pcs
  <2>. HIDE DEF q
  <2>4. resp' \in [Tasks -> RespStates] /\ resp'[t] = q
        /\ \A u \in Tasks : u # t => resp'[u] = resp[u]
    BY <2>2, <2>3, RespUpdate
  <2>. QED  BY <1>1, <2>1, <2>3, <2>4
<1>. QED  BY <1>2, <1>3

LEMMA CommitBufferedFits ==
  ASSUME CallInv, NEW t \in Tasks, CommitBuffered(t)
  PROVE  Fits(t)
<1>1. Going(t) /\ resp[t].pc = "voice" /\ resp[t].pc \in Early /\ Alive(t)
      /\ TypeInv /\ resp[t] \in RespStates
  BY DEF CommitBuffered, Working, Going, Alive, Early, CallInv, TypeInv
<1>2. resp[t].kind # "greeting"
  BY <1>1 DEF CallInv, TaskInv
<1>3. PICK p \in {"reply", "bye"} : Unwound(t, [resp[t] EXCEPT !.part = p, !.then = "speak"])
  BY DEF CommitBuffered
<1>. DEFINE r == [resp[t] EXCEPT !.part = p, !.then = "speak"]
<1>4. /\ r \in RespStates /\ r.then = "speak" /\ r.doomed = resp[t].doomed
      /\ r.kind = resp[t].kind /\ r.session = resp[t].session
      /\ r.fate = resp[t].fate /\ r.unheard = resp[t].unheard
  BY <1>1 DEF RespStates
<1>5. Unwound(t, r)
  BY <1>3
<1>. HIDE DEF r
<1>6. /\ Closing /\ tts' = None
      /\ resp' \in [Tasks -> RespStates] /\ \A u \in Tasks : u # t => resp'[u] = resp[u]
      /\ resp'[t].pc \in {"unwind", "speak"}
      /\ resp'[t].doomed = resp[t].doomed /\ resp'[t].kind = resp[t].kind
      /\ resp'[t].session = resp[t].session /\ resp'[t].then = "speak"
      /\ resp'[t].fate = resp[t].fate /\ resp'[t].unheard = resp[t].unheard
  BY <1>1, <1>4, <1>5, UnwoundParts
<1>7. TaskStep(t)
  BY <1>1, <1>2, <1>6, ClosingParts DEF TaskStep, CommitBuffered, Turning, TypeInv
<1>8. SessionFits(t)
  BY <1>1, <1>6, ClosingParts DEF SessionFits
<1>9. SoundFits(t)
  BY <1>1, EarlyFacts DEF SoundFits, CommitBuffered, Turning
<1>10. HeardAt(t)'
  BY <1>1, <1>6, EarlyFacts DEF HeardAt, CommitBuffered, Turning, Early
<1>. QED  BY <1>7, <1>8, <1>9, <1>10 DEF Fits

\* The transaction is left without a commit.
LEMMA RolledBackFits ==
  ASSUME CallInv, NEW t \in Tasks, Alive(t), resp[t].kind # "greeting", NEW r \in RespStates,
         Unwound(t, r), r.then = "done", r.session = resp[t].session,
         r.doomed = resp[t].doomed, r.kind = resp[t].kind, r.fate = resp[t].fate,
         r.unheard = resp[t].unheard,
         cons' \in [Tasks -> ConsStates], \A u \in Tasks : u # t => cons'[u] = cons[u],
         cons'[t] \in {"none", cons[t]} \cap {"none", "speaking"}, t \notin waiters',
         waiters' \in SUBSET waiters, UNCHANGED <<act, cur, playing, latest, line, acks,
                                                  talking, ready, completed, carrier>>
  PROVE  Fits(t)
<1>1. TypeInv /\ HeardAt(t) /\ Closing
  BY UnwoundParts DEF CallInv, HeardInv
<1>2. CASE resp' = [resp EXCEPT ![t] = Ended(r)]
  <2>1. EndStep(t, r)
    BY <1>1, <1>2 DEF EndStep, HeardAt, TypeInv
  <2>. QED  BY <2>1, EndFits
<1>3. CASE ~(resp' = [resp EXCEPT ![t] = Ended(r)])
  <2>1. /\ resp' \in [Tasks -> RespStates] /\ \A u \in Tasks : u # t => resp'[u] = resp[u]
        /\ resp'[t].pc = "unwind" /\ resp'[t].then = "done"
        /\ resp'[t].doomed = resp[t].doomed /\ resp'[t].kind = resp[t].kind
        /\ resp'[t].session = resp[t].session
        /\ resp'[t].fate = resp[t].fate /\ resp'[t].unheard = resp[t].unheard
    BY <1>1, <1>3, UnwoundParts
  <2>2. TaskStep(t)
    BY <1>1, <2>1, ClosingParts DEF TaskStep, TypeInv
  <2>3. SessionFits(t)
    BY <1>1, <2>1, ClosingParts, UnwoundParts DEF SessionFits
  <2>4. \A x \in Items : x.of = t => Allowed(x)'
    BY <2>1 DEF Allowed, Early
  <2>5. SoundFits(t)
    BY <2>4 DEF SoundFits
  <2>6. HeardAt(t)'
    BY <1>1, <2>1 DEF HeardAt, Early
  <2>. QED  BY <2>2, <2>3, <2>5, <2>6 DEF Fits
<1>. QED  BY <1>2, <1>3

LEMMA FailTurnFits ==
  ASSUME CallInv, NEW t \in Tasks, FailTurn(t)
  PROVE  Fits(t)
<1>1. Going(t) /\ resp[t].pc \in {"think", "play"} /\ Alive(t) /\ TypeInv
      /\ resp[t] \in RespStates /\ HeardAt(t)
  BY DEF FailTurn, Working, Going, Alive, CallInv, TypeInv, HeardInv
<1>2. resp[t].kind # "greeting" /\ resp[t].then = "done"
  BY <1>1 DEF CallInv, TaskInv, HeardAt, RespStates
<1>3. cons[t] # "marked" /\ t \notin waiters
  BY <1>1 DEF HeardAt, FailTurn, Working
<1>4. /\ cons' \in [Tasks -> ConsStates] /\ \A u \in Tasks : u # t => cons'[u] = cons[u]
      /\ cons'[t] \in {"none", cons[t]} \cap {"none", "speaking"}
  BY <1>1, <1>3 DEF FailTurn, TypeInv, Outcome, ConsStates
<1>. QED  BY <1>1, <1>2, <1>3, <1>4, RolledBackFits DEF FailTurn, Turning, TypeInv

LEMMA CancelledFits ==
  ASSUME CallInv, NEW t \in Tasks, Cancelled(t)
  PROVE  Fits(t)
<1>1. TypeInv /\ resp[t] \in RespStates /\ HeardAt(t) /\ resp[t].doomed
      /\ resp[t].pc \notin {"unwind", "done"}
  BY DEF Cancelled, CallInv, TypeInv, HeardInv
<1>2. Alive(t)
  BY <1>1 DEF CallInv, TaskInv, Alive
<1>3. /\ cons' \in [Tasks -> ConsStates] /\ \A u \in Tasks : u # t => cons'[u] = cons[u]
      /\ cons'[t] \in {"none", cons[t]} \cap {"none", "speaking"}
  BY <1>1 DEF Cancelled, TypeInv, Outcome, ConsStates
<1>4. t \notin waiters' /\ waiters' \in SUBSET waiters
  BY <1>1 DEF Cancelled, HeardAt, TypeInv
<1>5. CASE resp[t].pc \in InTransaction
  <2>1. resp[t].kind # "greeting"
    BY <1>5 DEF CallInv, TaskInv, InTransaction
  <2>. DEFINE r == [resp[t] EXCEPT !.then = "done"]
  <2>2. /\ r \in RespStates /\ r.then = "done" /\ r.session = resp[t].session
        /\ r.doomed = resp[t].doomed /\ r.kind = resp[t].kind /\ r.fate = resp[t].fate
        /\ r.unheard = resp[t].unheard
    BY <1>1 DEF RespStates
  <2>3. Unwound(t, r)
    BY <1>5 DEF Cancelled
  <2>. HIDE DEF r
  <2>. QED  BY <1>2, <1>3, <1>4, <2>1, <2>2, <2>3, RolledBackFits DEF Cancelled
<1>6. CASE resp[t].pc \notin InTransaction
  <2>1. resp' = [resp EXCEPT ![t] = Ended(resp[t])]
    BY <1>6 DEF Cancelled
  <2>2. EndStep(t, resp[t])
    BY <1>1, <1>3, <1>4, <1>6, <2>1 DEF EndStep, Cancelled, Closing, HeardAt, TypeInv
  <2>. QED  BY <1>2, <2>2, EndFits
<1>. QED  BY <1>5, <1>6

\* The response goes on and is about to speak, or speaks, a line of its own.
LEMMA LineFits ==
  ASSUME CallInv, NEW t \in Tasks, Alive(t), NEW r \in RespStates,
         resp' = [resp EXCEPT ![t] = r], r.pc \in {"speak", "pace"}, r.kind = resp[t].kind,
         r.doomed = resp[t].doomed, r.session = resp[t].session,
         r.fate # "wiped", ~r.unheard,
         r.then = "speak" => r.session = None,
         \/ cons' = [cons EXCEPT ![t] = "none"]
         \/ cons' = cons /\ cons[t] \notin {"speaking", "marked"},
         t \notin waiters,
         tts' = tts, closed' = closed, waiters' = waiters, acks' \in SUBSET acks,
         playing' \in {playing, TRUE}, completed' \in BOOLEAN, \A m, n \in latest' : m = n,
         UNCHANGED <<act, cur, talking, ready, carrier>>, SoundFits(t)
  PROVE  Fits(t)
<1>1. TypeInv /\ HeardAt(t)
  BY DEF CallInv, HeardInv
<1>2. resp' \in [Tasks -> RespStates] /\ resp'[t] = r
      /\ \A u \in Tasks : u # t => resp'[u] = resp[u]
  BY <1>1, RespUpdate
<1>3. /\ cons' \in [Tasks -> ConsStates] /\ \A u \in Tasks : u # t => cons'[u] = cons[u]
      /\ cons'[t] = "none" \/ (cons'[t] = cons[t] /\ cons[t] \notin {"speaking", "marked"})
  BY <1>1 DEF TypeInv, ConsStates
<1>4. TaskStep(t)
  BY <1>1, <1>2, <1>3 DEF TaskStep, TypeInv
<1>5. SessionFits(t)
  BY <1>1, <1>2 DEF SessionFits
<1>6. HeardAt(t)'
  BY <1>1, <1>2, <1>3 DEF HeardAt, Early
<1>. QED  BY <1>4, <1>5, <1>6 DEF Fits

LEMMA CommitStreamedFits ==
  ASSUME CallInv, NEW t \in Tasks, CommitStreamed(t)
  PROVE  Fits(t)
<1>1. Going(t) /\ resp[t].pc = "play" /\ Alive(t) /\ cons[t] = "ended" /\ TypeInv
      /\ resp[t] \in RespStates /\ HeardAt(t)
  BY DEF CommitStreamed, Working, Going, Alive, CallInv, TypeInv, HeardInv
<1>2. resp[t].kind # "greeting" /\ resp[t].fate \in {"heard", "met"} /\ t \notin waiters
      /\ resp[t].then = "done" /\ ~resp[t].unheard
  BY <1>1 DEF CallInv, TaskInv, HeardAt, RespStates
<1>. DEFINE lost == resp[t].fate \in {"open", "wiped"}
            r == [resp[t] EXCEPT !.unheard = lost, !.fate = "open", !.part = "bye", !.pc = "speak"]
<1>3. resp' = [resp EXCEPT ![t] = IF r.ends = "no" THEN Ended(r) ELSE r]
  BY DEF CommitStreamed
<1>7. lost = FALSE
  BY <1>2
<1>. HIDE DEF lost
<1>4. /\ r \in RespStates /\ r.pc = "speak" /\ r.kind = resp[t].kind
      /\ r.doomed = resp[t].doomed /\ r.session = resp[t].session /\ r.fate = "open"
      /\ r.then = "done" /\ r.part = "bye" /\ ~r.unheard
  BY <1>1, <1>2, <1>7 DEF RespStates, Pcs
<1>. HIDE DEF r
<1>5. CASE r.ends = "no"
  <2>1. EndStep(t, r)
    BY <1>1, <1>2, <1>3, <1>4, <1>5 DEF EndStep, CommitStreamed, Turning, Closing, TypeInv, ConsStates
  <2>. QED  BY <1>1, <2>1, EndFits
<1>6. CASE r.ends # "no"
  <2>1. resp' = [resp EXCEPT ![t] = r]
    BY <1>3, <1>6
  <2>2. resp'[t] = r
    BY <1>1, <1>4, <2>1, RespUpdate
  <2>3. \A x \in Items : x.of = t /\ Allowed(x) => Allowed(x)'
    BY <1>1, <1>4, <2>2 DEF Allowed, Early
  <2>4. SoundFits(t)
    BY <2>3 DEF SoundFits, CommitStreamed, Turning
  <2>. QED  BY <1>1, <1>2, <1>4, <2>1, <2>4, LineFits DEF CommitStreamed, Turning, TypeInv
<1>. QED  BY <1>5, <1>6

\* A line of its own: no playback task, and nobody who waits for a mark.
LEMMA LineFacts ==
  ASSUME CallInv, NEW t \in Tasks, Alive(t), resp[t].pc \in {"speak", "pace"}
  PROVE  /\ TypeInv /\ resp[t] \in RespStates /\ t \notin waiters
         /\ cons[t] \notin {"speaking", "marked"} /\ resp[t].fate # "wiped" /\ ~resp[t].unheard
         /\ resp[t].then = "speak" => resp[t].session = None
BY DEF CallInv, TypeInv, HeardInv, HeardAt

\* What follows a spoken line.
LEMMA SaidParts ==
  ASSUME CallInv, NEW t \in Tasks, Alive(t), resp[t].pc \in {"speak", "pace"}, Said(t)
  PROVE  /\ completed' \in BOOLEAN
         /\ \/ resp' = [resp EXCEPT ![t] = Ended(resp[t])]
            \/ /\ resp[t].part = "reply"
               /\ resp' = [resp EXCEPT ![t] = [resp[t] EXCEPT !.pc = "speak", !.part = "bye"]]
BY LineFacts DEF Said, TypeInv

LEMMA GoodbyeParts ==
  ASSUME CallInv, NEW t \in Tasks, Alive(t), resp[t].pc \in {"speak", "pace"}
  PROVE  LET r == [resp[t] EXCEPT !.pc = "speak", !.part = "bye"]
         IN  /\ r \in RespStates /\ r.pc = "speak" /\ r.part = "bye" /\ r.kind = resp[t].kind
             /\ r.doomed = resp[t].doomed /\ r.session = resp[t].session
             /\ r.fate = resp[t].fate /\ r.unheard = resp[t].unheard /\ r.then = resp[t].then
<1>1. resp[t] \in RespStates
  BY LineFacts
<1>2. "speak" \in Pcs
  BY DEF Pcs
<1>. QED  BY <1>1, <1>2 DEF RespStates

LEMMA StartWavFits ==
  ASSUME CallInv, NEW t \in Tasks, StartWav(t)
  PROVE  Fits(t)
<1>1. Alive(t) /\ resp[t].pc = "speak" /\ TypeInv /\ resp[t] \in RespStates
  BY DEF StartWav, Working, Alive, CallInv, TypeInv
<1>. DEFINE r == [resp[t] EXCEPT !.pc = "pace"]
<1>2. /\ r \in RespStates /\ r.pc = "pace" /\ r.part = resp[t].part /\ r.kind = resp[t].kind
      /\ r.doomed = resp[t].doomed /\ r.session = resp[t].session
      /\ r.fate = resp[t].fate /\ r.unheard = resp[t].unheard /\ r.then = resp[t].then
  BY <1>1 DEF RespStates, Pcs
<1>3. resp' = [resp EXCEPT ![t] = r] /\ cons' = cons
  BY DEF StartWav
<1>. HIDE DEF r
<1>4. resp'[t] = r
  BY <1>1, <1>2, <1>3, RespUpdate
<1>5. SoundFits(t)
  <2>1. \A x \in Items : x.of = t /\ Allowed(x) => Allowed(x)'
    BY <1>1, <1>2, <1>4 DEF Allowed, Early
  <2>2. PICK i \in Items : i = Spoken(t, resp[t].part)
    BY <1>1 DEF Spoken, Items, RespStates
  <2>3. i.of = t /\ i.part = resp[t].part /\ ~i.mark
    BY <2>2 DEF Spoken
  <2>4. ~Allowed(i)
    BY <1>1, <2>3 DEF Allowed
  <2>5. Allowed(i)'
    BY <1>1, <1>2, <1>4, <2>3 DEF Allowed, Early
  <2>6. line' = line \/ (line' = Append(line, i) /\ carrier = "up")
    BY <1>1, <2>2 DEF StartWav, Send, TypeInv
  <2>7. latest' = {}
    BY DEF StartWav
  <2>. QED  BY <2>1, <2>3, <2>4, <2>5, <2>6, <2>7 DEF SoundFits
<1>6. acks' \in SUBSET acks
  BY DEF StartWav, Awaited
<1>7. /\ cons' = cons /\ tts' = tts /\ closed' = closed /\ waiters' = waiters
      /\ playing' \in {playing, TRUE} /\ completed' \in BOOLEAN /\ \A m, n \in latest' : m = n
      /\ UNCHANGED <<act, cur, talking, ready, carrier>>
  BY <1>1 DEF StartWav, TypeInv
<1>8. /\ t \notin waiters /\ cons[t] \notin {"speaking", "marked"}
      /\ r.fate # "wiped" /\ ~r.unheard
      /\ r.then = "speak" => r.session = None
  BY <1>1, <1>2, LineFacts
<1>. QED  BY <1>1, <1>2, <1>3, <1>5, <1>6, <1>7, <1>8, LineFits

LEMMA FinishWavFits ==
  ASSUME CallInv, NEW t \in Tasks, FinishWav(t)
  PROVE  Fits(t)
<1>1. Alive(t) /\ resp[t].pc = "pace" /\ TypeInv /\ resp[t] \in RespStates /\ Said(t)
  BY DEF FinishWav, Working, Alive, CallInv, TypeInv
<1>2. PICK i \in Items : i = Mark(t, resp[t].part)
  BY <1>1 DEF Mark, Items, RespStates
<1>3. i.of = t /\ i.part = resp[t].part /\ i.mark /\ i \in Marks
  BY <1>2 DEF Mark, Marks
<1>4. ~Allowed(i)
  BY <1>1, <1>3 DEF Allowed, RespStates
<1>5. line' = line \/ (line' = Append(line, i) /\ carrier = "up")
  BY <1>1, <1>2 DEF FinishWav, Send, TypeInv
<1>6. latest' = latest \/ latest' = {i}
  BY <1>2 DEF FinishWav, Named
<1>7. CASE resp' = [resp EXCEPT ![t] = Ended(resp[t])]
  <2>1. EndStep(t, resp[t])
    BY <1>1, <1>3, <1>4, <1>5, <1>6, <1>7, LineFacts, SaidParts
    DEF EndStep, FinishWav, Closing, TypeInv
  <2>. QED  BY <1>1, <2>1, EndFits
<1>8. CASE resp[t].part = "reply"
           /\ resp' = [resp EXCEPT ![t] = [resp[t] EXCEPT !.pc = "speak", !.part = "bye"]]
  <2>1. PICK r \in RespStates :
          /\ resp' = [resp EXCEPT ![t] = r] /\ r.pc = "speak" /\ r.part = "bye"
          /\ r.kind = resp[t].kind /\ r.doomed = resp[t].doomed
          /\ r.session = resp[t].session /\ r.fate = resp[t].fate
          /\ r.unheard = resp[t].unheard /\ r.then = resp[t].then
    BY <1>1, <1>8, GoodbyeParts
  <2>2. resp'[t] = r /\ cons' = cons
    BY <1>1, <2>1, RespUpdate DEF FinishWav
  <2>3. \A x \in Items : x.of = t /\ Allowed(x) => Allowed(x)'
    BY <1>1, <1>8, <2>1, <2>2 DEF Allowed, Early
  <2>4. Allowed(i)'
    BY <1>3, <1>8, <2>1, <2>2 DEF Allowed, Early
  <2>5. SoundFits(t)
    BY <1>3, <1>4, <1>5, <1>6, <2>3, <2>4 DEF SoundFits
  <2>6. \A m, n \in latest' : m = n
    BY <1>1, <1>6 DEF TypeInv
  <2>7. /\ tts' = tts /\ closed' = closed /\ waiters' = waiters /\ acks' \in SUBSET acks
        /\ playing' \in {playing, TRUE} /\ UNCHANGED <<act, cur, talking, ready, carrier>>
    BY DEF FinishWav
  <2>8. completed' \in BOOLEAN
    BY <1>1, SaidParts
  <2>9. /\ t \notin waiters /\ cons[t] \notin {"speaking", "marked"}
        /\ r.fate # "wiped" /\ ~r.unheard
        /\ r.then = "speak" => r.session = None
    BY <1>1, <2>1, LineFacts
  <2>. QED  BY <1>1, <2>1, <2>2, <2>5, <2>6, <2>7, <2>8, <2>9, LineFits
<1>. QED  BY <1>1, <1>7, <1>8, SaidParts

LEMMA SkipWavFits ==
  ASSUME CallInv, NEW t \in Tasks, SkipWav(t)
  PROVE  Fits(t)
<1>1. Alive(t) /\ resp[t].pc = "speak" /\ TypeInv /\ resp[t] \in RespStates /\ Said(t)
  BY DEF SkipWav, Working, Alive, CallInv, TypeInv
<1>2. CASE resp' = [resp EXCEPT ![t] = Ended(resp[t])]
  <2>1. EndStep(t, resp[t])
    BY <1>1, <1>2, LineFacts, SaidParts DEF EndStep, SkipWav, Turning, Closing, TypeInv
  <2>. QED  BY <1>1, <2>1, EndFits
<1>3. CASE resp[t].part = "reply"
           /\ resp' = [resp EXCEPT ![t] = [resp[t] EXCEPT !.pc = "speak", !.part = "bye"]]
  <2>1. PICK r \in RespStates :
          /\ resp' = [resp EXCEPT ![t] = r] /\ r.pc = "speak" /\ r.part = "bye"
          /\ r.kind = resp[t].kind /\ r.doomed = resp[t].doomed
          /\ r.session = resp[t].session /\ r.fate = resp[t].fate
          /\ r.unheard = resp[t].unheard /\ r.then = resp[t].then
    BY <1>1, <1>3, GoodbyeParts
  <2>2. \A x \in Items : x.of = t => ~Allowed(x)
    BY <1>1, <1>3 DEF Allowed
  <2>3. SoundFits(t)
    BY <2>2 DEF SoundFits, SkipWav, Turning
  <2>4. /\ cons' = cons /\ tts' = tts /\ closed' = closed /\ playing' \in {playing, TRUE}
    BY DEF SkipWav
  <2>5. /\ waiters' = waiters /\ acks' \in SUBSET acks /\ \A m, n \in latest' : m = n
        /\ UNCHANGED <<act, cur, talking, ready, carrier>>
    BY <1>1, TurningStays DEF SkipWav
  <2>6. completed' \in BOOLEAN
    BY <1>1, SaidParts
  <2>7. /\ t \notin waiters /\ cons[t] \notin {"speaking", "marked"}
        /\ r.fate # "wiped" /\ ~r.unheard
        /\ r.then = "speak" => r.session = None
    BY <1>1, <2>1, LineFacts
  <2>. QED  BY <1>1, <2>1, <2>3, <2>4, <2>5, <2>6, <2>7, LineFits
<1>. QED  BY <1>1, <1>2, <1>3, SaidParts

LEMMA BreakWavFits ==
  ASSUME CallInv, NEW t \in Tasks, BreakWav(t)
  PROVE  Fits(t)
<1>1. Alive(t) /\ resp[t].pc \in {"speak", "pace"} /\ TypeInv
  BY DEF BreakWav, Working, Alive, CallInv
<1>2. EndStep(t, resp[t])
  BY <1>1, LineFacts DEF EndStep, BreakWav, Turning, Closing, TypeInv
<1>. QED  BY <1>1, <1>2, EndFits

LEMMA SessionClosedFits ==
  ASSUME CallInv, NEW t \in Tasks, SessionClosed(t)
  PROVE  Fits(t)
<1>1. Alive(t) /\ resp[t].pc = "unwind" /\ TypeInv /\ HeardAt(t) /\ resp[t] \in RespStates
  BY DEF SessionClosed, Alive, CallInv, HeardInv, TypeInv
<1>2. cons[t] # "marked" /\ t \notin waiters
  BY <1>1 DEF HeardAt
<1>3. CASE resp[t].doomed \/ resp[t].then = "done"
  <2>1. EndStep(t, resp[t])
    BY <1>1, <1>2, <1>3 DEF EndStep, SessionClosed, Turning, Closing, TypeInv, HeardAt
  <2>. QED  BY <1>1, <2>1, EndFits
<1>4. CASE ~(resp[t].doomed \/ resp[t].then = "done")
  <2>. DEFINE r == [resp[t] EXCEPT !.pc = "speak"]
  <2>1. /\ r \in RespStates /\ r.pc = "speak" /\ r.part = resp[t].part /\ r.kind = resp[t].kind
        /\ r.doomed = resp[t].doomed /\ r.session = resp[t].session
        /\ r.fate = resp[t].fate /\ r.unheard = resp[t].unheard /\ r.then = resp[t].then
    BY <1>1 DEF RespStates, Pcs
  <2>2. resp' = [resp EXCEPT ![t] = r]
    BY <1>4 DEF SessionClosed
  <2>. HIDE DEF r
  <2>3. resp[t].then = "speak" /\ resp[t].session = None /\ cons[t] = "none"
    BY <1>1, <1>4 DEF HeardAt, RespStates
  <2>4. \A x \in Items : x.of = t => ~Allowed(x)
    BY <1>1, <1>4 DEF Allowed
  <2>5. SoundFits(t)
    BY <2>4 DEF SoundFits, SessionClosed, Turning
  <2>. QED  BY <1>1, <1>2, <2>1, <2>2, <2>3, <2>5, LineFits DEF SessionClosed, Turning, TypeInv, HeardAt
<1>. QED  BY <1>3, <1>4

LEMMA ResponseFits ==
  ASSUME CallInv, NEW t \in Tasks, Answering(t) \/ Stopping(t)
  PROVE  Fits(t)
BY BeginFits, HearFits, OldSessionClosedFits, OpenSessionFits, ThinkFits, CommitStreamedFits,
   CommitBufferedFits, FailTurnFits, StartWavFits, FinishWavFits, SkipWavFits, BreakWavFits,
   SessionClosedFits, CancelledFits
DEF Answering, Stopping

LEMMA ResponseKeeps ==
  ASSUME CallInv, NEW t \in Tasks, Answering(t) \/ Stopping(t)
  PROVE  CallInv'
BY ResponseFits, TaskStepKeeps DEF Fits

-----------------------------------------------------------------------------
(* The playback tasks and the carrier *)

\* Of the responses, only what became of their audio changes.
SameButFate(rs) ==
  /\ rs \in [Tasks -> RespStates]
  /\ \A u \in Tasks : /\ rs[u].pc = resp[u].pc /\ rs[u].kind = resp[u].kind
                      /\ rs[u].doomed = resp[u].doomed /\ rs[u].session = resp[u].session
                      /\ rs[u].part = resp[u].part /\ rs[u].then = resp[u].then
                      /\ rs[u].unheard = resp[u].unheard

LEMMA NoFateChange ==
  ASSUME TypeInv
  PROVE  SameButFate(resp)
BY DEF SameButFate, TypeInv

LEMMA MetParts ==
  ASSUME NEW rs, SameButFate(rs), NEW v
  PROVE  /\ SameButFate(Met(rs, v))
         /\ \A u \in Tasks : Met(rs, v)[u].fate =
              IF u # v /\ cons[u] # "none" /\ resp[u].pc # "done" THEN "met" ELSE rs[u].fate
<1>1. ASSUME NEW u \in Tasks
      PROVE  /\ [rs[u] EXCEPT !.fate = "met"] \in RespStates
             /\ LET r == [rs[u] EXCEPT !.fate = "met"]
                IN  /\ r.pc = resp[u].pc /\ r.kind = resp[u].kind /\ r.doomed = resp[u].doomed
                    /\ r.session = resp[u].session /\ r.part = resp[u].part
                    /\ r.then = resp[u].then /\ r.unheard = resp[u].unheard /\ r.fate = "met"
  <2>1. rs[u] \in RespStates
    BY DEF SameButFate
  <2>. QED  BY <2>1 DEF SameButFate, RespStates
<1>. QED  BY <1>1 DEF Met, SameButFate

\* Then the loops hold the responses as before.
LEMMA LoopsStand ==
  ASSUME CallInv, SameButFate(resp'), act' = act, cur' = cur
  PROVE  /\ TaskInv' /\ OrphanInv' /\ (tts' = tts /\ closed' = closed => SessionInv')
         /\ \A u \in Tasks : (Alive(u)' <=> Alive(u)) /\ (Going(u)' <=> Going(u))
<1>1. \A u \in Tasks : /\ resp'[u].pc = resp[u].pc /\ resp'[u].kind = resp[u].kind
                       /\ resp'[u].doomed = resp[u].doomed /\ resp'[u].session = resp[u].session
  BY DEF SameButFate
<1>2. \A u \in Tasks : (Alive(u)' <=> Alive(u)) /\ (Going(u)' <=> Going(u))
  BY <1>1 DEF Alive, Going
<1>3. \A o \in Tasks : Passed(o)' <=> Passed(o)
  BY <1>1 DEF Passed
<1>4. TaskInv'
  <2>1. \A a \in Actors : act[a].victim # None => act[a].victim \in Tasks
    BY DEF CallInv, TypeInv, ActStates
  <2>2. cur # None => cur \in Tasks
    BY DEF CallInv, TypeInv
  <2>3. \A a \in Actors : (act[a].pc = "clearing" /\ act[a].victim # None => ~Alive(act[a].victim))'
    <3>. SUFFICES ASSUME NEW a \in Actors, act[a].pc = "clearing", act[a].victim # None
                  PROVE  ~Alive(act[a].victim)'
      OBVIOUS
    <3>1. PICK v \in Tasks : v = act[a].victim /\ ~Alive(v)
      BY <2>1 DEF CallInv, TaskInv
    <3>. QED  BY <1>2, <3>1 DEF Alive
  <2>. QED  BY <1>1, <1>2, <2>1, <2>2, <2>3 DEF CallInv, TaskInv
<1>5. OrphanInv'
  <2>1. Orphans' = Orphans
    BY <1>1, <1>2 DEF Orphans
  <2>2. Running(cur)' <=> Running(cur)
    BY <1>2 DEF Running, CallInv, TypeInv
  <2>3. (ToGreet' <=> ToGreet) /\ (Busy("stt")' <=> Busy("stt"))
    BY DEF ToGreet, Busy
  <2>4. Orphans \subseteq Tasks /\ (cur # None => cur \in Tasks)
    BY DEF Orphans, CallInv, TypeInv
  <2>. QED  BY <1>1, <1>3, <2>1, <2>2, <2>3, <2>4 DEF CallInv, OrphanInv, Running
<1>6. ASSUME tts' = tts, closed' = closed PROVE SessionInv'
  BY <1>1, <1>2, <1>3, <1>6 DEF CallInv, SessionInv
<1>. QED  BY <1>2, <1>4, <1>5, <1>6

\* A playback task takes a step.
PlaybackStep(t) ==
  /\ cons' \in [Tasks -> ConsStates] /\ \A u \in Tasks : u # t => cons'[u] = cons[u]
  /\ waiters' \in SUBSET (waiters \cup {t})
  /\ \A m, n \in latest' : m = n
  /\ playing' = playing /\ UNCHANGED Streaming
  /\ \A x \in Items : x.of = t /\ Allowed(x) => Allowed(x)'
  /\ \/ line' = line
     \/ \E i \in Items : /\ i \notin OnLine /\ Allowed(i)' /\ line' = Append(line, i)
                         /\ playing /\ carrier = "up"
  /\ \A x \in latest' : x \in latest \/ (x \in Marks /\ Allowed(x)')

LEMMA PlaybackStepKeeps ==
  ASSUME CallInv, NEW t \in Tasks, PlaybackStep(t), HeardAt(t)'
  PROVE  CallInv'
<1>1. /\ resp' = resp /\ act' = act /\ cur' = cur /\ tts' = tts /\ closed' = closed
      /\ acks' = acks /\ talking' = talking /\ ready' = ready /\ completed' = completed
      /\ carrier' = carrier /\ playing' = playing /\ TypeInv
  BY DEF PlaybackStep, Streaming, CallInv
<1>2. line' \in Seq(Items) /\ (line' = line \/ (playing /\ carrier = "up"))
  BY <1>1 DEF PlaybackStep, TypeInv
<1>3. TypeInv'
  BY <1>1, <1>2 DEF PlaybackStep, TypeInv
<1>4. ActInv'
  BY <1>1, <1>2 DEF CallInv, ActInv, SttDone, Busy, Leaving
<1>5. TaskInv' /\ OrphanInv' /\ SessionInv'
  BY <1>1, NoFateChange, LoopsStand
<1>6. SilenceInv'
  BY <1>1, <1>2 DEF CallInv, SilenceInv, Alone, Hushed
<1>7. SoundInv'
  <2>1. ASSUME NEW x \in Items, Allowed(x), x.of # t
        PROVE  Allowed(x)'
    <3>1. SameStage(x.of)
      BY <1>1, <2>1 DEF PlaybackStep, SameStage, Items
    <3>. QED  BY <3>1, <2>1, StageAllows
  <2>. QED  BY <1>1, <1>2, <2>1, SoundStep DEF PlaybackStep, CallInv
<1>8. HeardInv'
  <2>1. ASSUME NEW u \in Tasks, u # t
        PROVE  HeardAt(u)'
    BY <1>1, <2>1, HeardStays DEF CallInv, HeardInv, PlaybackStep
  <2>. QED  BY <2>1 DEF HeardInv
<1>. QED  BY <1>3, <1>4, <1>5, <1>6, <1>7, <1>8 DEF CallInv

LEMMA PlayFramesKeeps ==
  ASSUME CallInv, NEW t \in Tasks, PlayFrames(t)
  PROVE  CallInv'
<1>1. /\ TypeInv /\ resp[t] \in RespStates /\ HeardAt(t) /\ cons[t] = "speaking"
      /\ resp[t].pc \in {"think", "play", "unwind", "done"} /\ t \notin waiters
      /\ resp[t].session # None /\ resp[t].then = "done"
  BY DEF PlayFrames, CallInv, TypeInv, HeardInv, HeardAt, RespStates
<1>2. resp' = resp /\ playing' = playing /\ waiters' = waiters /\ latest' = latest /\ acks' = acks
  BY DEF PlayFrames, Streaming
<1>3. CASE playing
  <2>1. PICK i \in Items : i = Spoken(t, "reply")
    BY DEF Spoken, Items
  <2>2. i.of = t /\ i.part = "reply" /\ ~i.mark
    BY <2>1 DEF Spoken
  <2>3. cons' = cons
    BY <1>3 DEF PlayFrames
  <2>4. \A x \in Items : Allowed(x)' <=> Allowed(x)
    BY <1>2, <2>3 DEF Allowed
  <2>5. Allowed(i)'
    BY <1>1, <1>2, <2>2, <2>3 DEF Allowed, Early
  <2>6. i \notin OnLine /\ (line' = line \/ (line' = Append(line, i) /\ carrier = "up"))
    BY <1>1, <1>3, <2>1 DEF PlayFrames, Send, TypeInv, OnLine
  <2>7. PlaybackStep(t)
    BY <1>1, <1>2, <1>3, <2>3, <2>4, <2>5, <2>6 DEF PlaybackStep, PlayFrames, TypeInv
  <2>8. HeardAt(t)'
    BY <1>1, <1>2, <2>3 DEF HeardAt, Going, Alive
  <2>. QED  BY <2>7, <2>8, PlaybackStepKeeps
<1>4. CASE ~playing
  <2>1. /\ cons' \in [Tasks -> ConsStates] /\ \A u \in Tasks : u # t => cons'[u] = cons[u]
        /\ cons'[t] = Stopped(t, "ended") /\ line' = line
    BY <1>1, <1>4 DEF PlayFrames, TypeInv, ConsStates, Stopped
  <2>2. \A x \in Items : x.of = t /\ Allowed(x) => Allowed(x)'
    BY <1>1, <1>2, <2>1 DEF Allowed, Stopped
  <2>3. PlaybackStep(t)
    BY <1>1, <1>2, <2>1, <2>2 DEF PlaybackStep, PlayFrames, TypeInv
  <2>4. HeardAt(t)'
    BY <1>1, <1>2, <1>4, <2>1 DEF HeardAt, Going, Alive, Stopped
  <2>. QED  BY <2>3, <2>4, PlaybackStepKeeps
<1>. QED  BY <1>3, <1>4

LEMMA FinishPlaybackKeeps ==
  ASSUME CallInv, NEW t \in Tasks, FinishPlayback(t)
  PROVE  CallInv'
<1>1. /\ TypeInv /\ resp[t] \in RespStates /\ HeardAt(t) /\ cons[t] = "speaking"
      /\ resp[t].pc = "play" /\ t \notin waiters /\ resp[t].session # None
      /\ resp[t].then = "done"
  BY DEF FinishPlayback, CallInv, TypeInv, HeardInv, HeardAt, RespStates
<1>2. resp' = resp /\ playing' = playing /\ acks' = acks
  BY DEF FinishPlayback, Streaming
<1>3. CASE playing
  <2>1. PICK i \in Items : i = Mark(t, "reply")
    BY DEF Mark, Items
  <2>2. i.of = t /\ i.part = "reply" /\ i.mark /\ i \in Marks
    BY <2>1 DEF Mark, Marks
  <2>3. /\ cons' \in [Tasks -> ConsStates] /\ \A u \in Tasks : u # t => cons'[u] = cons[u]
        /\ cons'[t] = "marked" /\ latest' = {i} /\ waiters' = waiters \cup {t}
    BY <1>1, <1>3, <2>1 DEF FinishPlayback, TypeInv, ConsStates, MarkSent, Named
  <2>4. ~Allowed(i)
    BY <1>1, <2>2 DEF Allowed
  <2>5. \A x \in Items : x.of = t /\ Allowed(x) => Allowed(x)'
    BY <1>1, <1>2, <2>3 DEF Allowed
  <2>6. Allowed(i)'
    BY <1>1, <1>2, <2>2, <2>3 DEF Allowed, Early
  <2>7. i \notin OnLine /\ i \notin acks
    BY <2>4 DEF CallInv, SoundInv
  <2>8. line' = line \/ (line' = Append(line, i) /\ carrier = "up")
    BY <1>1, <1>3, <2>1 DEF FinishPlayback, Send, TypeInv
  <2>9. PlaybackStep(t)
    BY <1>1, <1>2, <1>3, <2>2, <2>3, <2>5, <2>6, <2>7, <2>8 DEF PlaybackStep, FinishPlayback
  <2>10. HeardAt(t)'
    BY <1>1, <1>2, <2>1, <2>3, <2>7 DEF HeardAt, Going, Alive
  <2>. QED  BY <2>9, <2>10, PlaybackStepKeeps
<1>4. CASE ~playing
  <2>1. /\ cons' \in [Tasks -> ConsStates] /\ \A u \in Tasks : u # t => cons'[u] = cons[u]
        /\ cons'[t] = "ended" /\ line' = line /\ latest' = latest /\ waiters' = waiters
    BY <1>1, <1>4 DEF FinishPlayback, TypeInv, ConsStates
  <2>2. \A x \in Items : x.of = t /\ Allowed(x) => Allowed(x)'
    BY <1>1, <1>2, <2>1 DEF Allowed
  <2>3. PlaybackStep(t)
    BY <1>1, <1>2, <2>1, <2>2 DEF PlaybackStep, FinishPlayback, TypeInv
  <2>4. HeardAt(t)'
    BY <1>1, <1>2, <1>4, <2>1 DEF HeardAt, Going, Alive
  <2>. QED  BY <2>3, <2>4, PlaybackStepKeeps
<1>. QED  BY <1>3, <1>4

LEMMA FailPlaybackKeeps ==
  ASSUME CallInv, NEW t \in Tasks, FailPlayback(t)
  PROVE  CallInv'
<1>1. /\ TypeInv /\ resp[t] \in RespStates /\ HeardAt(t) /\ cons[t] \in {"speaking", "marked"}
      /\ resp[t].session # None
  BY DEF FailPlayback, CallInv, TypeInv, HeardInv, HeardAt
<1>2. resp' = resp /\ playing' = playing /\ acks' = acks /\ line' = line /\ latest' = latest
  BY DEF FailPlayback, Streaming
<1>3. /\ cons' \in [Tasks -> ConsStates] /\ \A u \in Tasks : u # t => cons'[u] = cons[u]
      /\ cons'[t] = Stopped(t, "failed") /\ waiters' = waiters \ {t}
  BY <1>1 DEF FailPlayback, TypeInv, ConsStates, Stopped
<1>4. \A x \in Items : x.of = t /\ Allowed(x) => Allowed(x)'
  BY <1>1, <1>2, <1>3 DEF Allowed, Stopped
<1>5. PlaybackStep(t)
  BY <1>1, <1>2, <1>3, <1>4 DEF PlaybackStep, FailPlayback, TypeInv
<1>6. HeardAt(t)'
  BY <1>1, <1>2, <1>3 DEF HeardAt, Going, Alive, Stopped
<1>. QED  BY <1>5, <1>6, PlaybackStepKeeps

\* The line loses its head: nothing else comes to it.
LEMMA TailKeepsSound ==
  ASSUME line \in Seq(Items), line # <<>>, Distinct, line' = Tail(line)
  PROVE  line' \in Seq(Items) /\ OnLine' \subseteq OnLine /\ Distinct'
<1>1. /\ Len(line) \in Nat /\ DOMAIN line = 1..Len(line) /\ line' \in Seq(Items)
      /\ DOMAIN line' = 1..(Len(line) - 1)
      /\ \A j \in 1..(Len(line) - 1) : line'[j] = line[j + 1]
  OBVIOUS
<1>2. \A j \in DOMAIN line' : j + 1 \in DOMAIN line
  BY <1>1
<1>3. OnLine' \subseteq OnLine
  BY <1>1, <1>2 DEF OnLine
<1>4. ASSUME NEW j \in DOMAIN line', NEW k \in DOMAIN line', line'[j] = line'[k]
      PROVE  j = k
  <2>1. line[j + 1] = line[k + 1] /\ j + 1 \in DOMAIN line /\ k + 1 \in DOMAIN line
    BY <1>1, <1>2, <1>4
  <2>2. j + 1 = k + 1
    BY <2>1 DEF Distinct
  <2>. QED  BY <1>1, <2>2
<1>. QED  BY <1>1, <1>3, <1>4 DEF Distinct

LEMMA PlayNextKeeps ==
  ASSUME CallInv, PlayNext
  PROVE  CallInv'
<1>1. /\ act' = act /\ cur' = cur /\ cons' = cons /\ playing' = playing /\ latest' = latest
      /\ waiters' = waiters /\ tts' = tts /\ closed' = closed /\ talking' = talking
      /\ ready' = ready /\ completed' = completed /\ carrier' = carrier
      /\ TypeInv /\ carrier = "up" /\ line # <<>> /\ line' = Tail(line) /\ line \in Seq(Items)
  BY DEF PlayNext, CallInv, TypeInv
<1>2. PICK i \in Items : i = Head(line) /\ i \in OnLine
  BY <1>1 DEF OnLine
<1>3. /\ acks' \subseteq acks \cup {i} /\ (i \in acks' => i \in acks \/ i.mark)
      /\ resp' = IF i.mark /\ i.part = "reply" /\ i.of \in waiters
                 THEN [resp EXCEPT ![i.of].fate = IF @ = "open" THEN "heard" ELSE @]
                 ELSE resp
  BY <1>2 DEF PlayNext, Awaited
<1>4. SameButFate(resp')
      /\ \A u \in Tasks : /\ resp'[u].fate # "wiped"
                          /\ resp[u].fate \in {"heard", "met"} => resp'[u].fate = resp[u].fate
                          /\ resp'[u].fate = resp[u].fate \/ resp[u].fate = "open"
                          /\ (u = i.of /\ i.mark /\ i.part = "reply" /\ u \in waiters)
                               => resp'[u].fate \in {"heard", "met"}
  <2>1. \A u \in Tasks : resp[u] \in RespStates /\ resp[u].fate # "wiped"
    BY <1>1 DEF TypeInv, CallInv, HeardInv, HeardAt
  <2>2. CASE i.mark /\ i.part = "reply" /\ i.of \in waiters
    <3>. DEFINE f == IF resp[i.of].fate = "open" THEN "heard" ELSE resp[i.of].fate
                r == [resp[i.of] EXCEPT !.fate = f]
    <3>1. i.of \in Tasks
      BY DEF Items
    <3>2. resp' = [resp EXCEPT ![i.of] = r]
      BY <1>3, <2>2
    <3>3. f \in {"heard", "met"} /\ (resp[i.of].fate # "open" => f = resp[i.of].fate)
      BY <2>1, <3>1 DEF RespStates
    <3>. HIDE DEF f
    <3>4. /\ r \in RespStates /\ r.fate = f /\ r.pc = resp[i.of].pc /\ r.kind = resp[i.of].kind
          /\ r.doomed = resp[i.of].doomed /\ r.session = resp[i.of].session
          /\ r.part = resp[i.of].part /\ r.then = resp[i.of].then
          /\ r.unheard = resp[i.of].unheard
      BY <2>1, <3>1, <3>3 DEF RespStates
    <3>. HIDE DEF r
    <3>5. resp' \in [Tasks -> RespStates] /\ resp'[i.of] = r
          /\ \A u \in Tasks : u # i.of => resp'[u] = resp[u]
      BY <1>1, <3>1, <3>2, <3>4, RespUpdate
    <3>6. SameButFate(resp')
      BY <3>1, <3>4, <3>5 DEF SameButFate
    <3>. QED  BY <2>1, <3>3, <3>4, <3>5, <3>6
  <2>3. CASE ~(i.mark /\ i.part = "reply" /\ i.of \in waiters)
    BY <1>1, <1>3, <2>1, <2>3, NoFateChange
  <2>. QED  BY <2>2, <2>3
<1>5. line' \in Seq(Items) /\ OnLine' \subseteq OnLine /\ Distinct'
  BY <1>1, TailKeepsSound DEF CallInv, SoundInv
<1>6. TypeInv'
  <2>1. acks' \in SUBSET Marks
    BY <1>1, <1>3 DEF TypeInv, Marks
  <2>. QED  BY <1>1, <1>4, <1>5, <2>1 DEF TypeInv, SameButFate
<1>7. ActInv'
  BY <1>1 DEF CallInv, ActInv, SttDone, Busy, Leaving
<1>8. TaskInv' /\ OrphanInv' /\ SessionInv' /\ \A u \in Tasks : (Going(u)' <=> Going(u))
  BY <1>1, <1>4, LoopsStand
<1>9. SilenceInv'
  BY <1>1, <1>4 DEF CallInv, SilenceInv, Alone, Hushed, SameButFate
<1>10. SoundInv'
  <2>1. \A x \in Items : Allowed(x)' <=> Allowed(x)
    BY <1>1, <1>4 DEF Allowed, SameButFate, Items
  <2>2. \A x \in OnLine' \cup latest' \cup acks' : x \in Items /\ x \in OnLine \cup latest \cup acks
    BY <1>1, <1>2, <1>3, <1>5 DEF TypeInv, Marks, OnLine
  <2>. QED  BY <1>5, <2>1, <2>2 DEF CallInv, SoundInv
<1>11. HeardInv'
  <2>. SUFFICES ASSUME NEW u \in Tasks
                PROVE  HeardAt(u)'
    BY DEF HeardInv
  <2>1. HeardAt(u)
    BY DEF CallInv, HeardInv
  <2>2. /\ resp'[u].pc = resp[u].pc /\ resp'[u].session = resp[u].session
        /\ resp'[u].then = resp[u].then /\ resp'[u].unheard = resp[u].unheard
        /\ (Going(u)' <=> Going(u))
    BY <1>4, <1>8 DEF SameButFate
  <2>3. /\ resp'[u].fate # "wiped"
        /\ resp[u].fate \in {"heard", "met"} => resp'[u].fate = resp[u].fate
    BY <1>4
  <2>4. Mark(u, "reply") \in acks' /\ u \in waiters
          => Mark(u, "reply") \in acks \/ resp'[u].fate \in {"heard", "met"}
    <3>1. CASE Mark(u, "reply") = i
      <4>1. i.of = u /\ i.mark /\ i.part = "reply"
        BY <3>1 DEF Mark
      <4>. QED  BY <1>4, <4>1
    <3>. QED  BY <1>3, <3>1
  <2>. QED  BY <1>1, <2>1, <2>2, <2>3, <2>4 DEF HeardAt
<1>. QED  BY <1>6, <1>7, <1>8, <1>9, <1>10, <1>11 DEF CallInv

LEMMA CallerLeavesKeeps ==
  ASSUME CallInv, CallerLeaves
  PROVE  CallInv'
<1>1. /\ act' = act /\ cur' = cur /\ cons' = cons /\ playing' = playing /\ latest' = latest
      /\ waiters' = waiters /\ tts' = tts /\ closed' = closed /\ talking' = talking
      /\ ready' = ready /\ completed' = completed /\ resp' = resp
      /\ TypeInv /\ carrier' = "gone" /\ line' = <<>> /\ acks' = {}
  BY DEF CallerLeaves, CallInv
<1>2. TypeInv'
  BY <1>1 DEF TypeInv
<1>3. ActInv'
  BY <1>1 DEF CallInv, ActInv, SttDone, Busy, Leaving
<1>4. TaskInv' /\ OrphanInv' /\ SessionInv'
  BY <1>1, NoFateChange, LoopsStand
<1>5. SilenceInv'
  BY <1>1 DEF SilenceInv
<1>6. SoundInv'
  BY <1>1, SoundStep DEF CallInv, Allowed
<1>7. HeardInv'
  BY <1>1, HeardStays DEF CallInv, HeardInv
<1>. QED  BY <1>2, <1>3, <1>4, <1>5, <1>6, <1>7 DEF CallInv

LEMMA HandleMarkKeeps ==
  ASSUME CallInv, HandleMark
  PROVE  CallInv'
<1>1. /\ act' = act /\ cur' = cur /\ tts' = tts /\ closed' = closed /\ line' = line
      /\ talking' = talking /\ ready' = ready /\ completed' = completed /\ carrier' = carrier
      /\ TypeInv
  BY DEF HandleMark, CallInv
<1>2. PICK m \in acks :
        /\ acks' = acks \ {m}
        /\ cons' = [t \in Tasks |-> IF t = m.of /\ m.part = "reply" /\ t \in waiters
                                    THEN "ended" ELSE cons[t]]
        /\ waiters' = IF m.part = "reply" THEN waiters \ {m.of} ELSE waiters
        /\ playing' = (playing /\ m \notin latest) /\ latest' = latest \ {m}
        /\ resp' = IF m \in latest THEN Met(resp, m.of) ELSE resp
  BY DEF HandleMark
<1>3. m \in Items /\ m.mark /\ m.of \in Tasks /\ m.part \in {"reply", "bye"} /\ Allowed(m)
  BY <1>1 DEF TypeInv, Marks, Items, CallInv, SoundInv
<1>4. SameButFate(resp')
      /\ \A u \in Tasks : /\ resp'[u].fate \in {resp[u].fate, "met"}
                          /\ m \in latest /\ u # m.of /\ cons[u] # "none" /\ resp[u].pc # "done"
                               => resp'[u].fate = "met"
  BY <1>1, <1>2, NoFateChange, MetParts
<1>5. TypeInv'
  BY <1>1, <1>2, <1>4 DEF TypeInv, SameButFate, ConsStates
<1>6. ActInv'
  BY <1>1 DEF CallInv, ActInv, SttDone, Busy, Leaving
<1>7. TaskInv' /\ OrphanInv' /\ SessionInv' /\ \A u \in Tasks : (Going(u)' <=> Going(u))
  BY <1>1, <1>4, LoopsStand
<1>8. SilenceInv'
  <2>1. playing' => playing
    BY <1>2
  <2>2. \A u \in Tasks : resp'[u].pc = resp[u].pc /\ resp'[u].doomed = resp[u].doomed
    BY <1>4 DEF SameButFate
  <2>. QED  BY <1>1, <2>1, <2>2 DEF CallInv, SilenceInv, Alone, Hushed
<1>9. \A x \in Items : Allowed(x) => Allowed(x)'
  <2>. SUFFICES ASSUME NEW x \in Items, Allowed(x)
                PROVE  Allowed(x)'
    OBVIOUS
  <2>1. PICK u \in Tasks : u = x.of
    BY DEF Items
  <2>2. cons'[u] \in {cons[u], "ended"}
    BY <1>2
  <2>3. cons'[u] = "none" => cons[u] = "none"
    BY <2>2
  <2>4. cons'[u] = "speaking" => cons[u] = "speaking"
    BY <2>2
  <2>. QED  BY <1>4, <2>1, <2>3, <2>4 DEF Allowed, SameButFate
<1>10. SoundInv'
  BY <1>1, <1>2, <1>9, SoundStep DEF CallInv, TypeInv
<1>11. HeardInv'
  <2>. SUFFICES ASSUME NEW u \in Tasks
                PROVE  HeardAt(u)'
    BY DEF HeardInv
  <2>1. HeardAt(u)
    BY DEF CallInv, HeardInv
  <2>2. /\ resp'[u].pc = resp[u].pc /\ resp'[u].session = resp[u].session
        /\ resp'[u].then = resp[u].then /\ resp'[u].unheard = resp[u].unheard
        /\ (Going(u)' <=> Going(u)) /\ resp'[u].fate \in {resp[u].fate, "met"}
    BY <1>4, <1>7 DEF SameButFate
  <2>3. CASE u = m.of /\ m.part = "reply" /\ u \in waiters
    <3>1. cons'[u] = "ended" /\ u \notin waiters'
      BY <1>2, <2>3
    <3>2. m = Mark(u, "reply")
      BY <1>3, <2>3 DEF Items, Mark
    <3>3. Going(u) /\ resp[u].pc \in {"think", "play"} => resp[u].fate \in {"heard", "met"}
      BY <2>1, <2>3, <3>2 DEF HeardAt
    <3>4. resp[u].session # None
      BY <2>1, <2>3 DEF HeardAt
    <3>. QED  BY <2>1, <2>2, <3>1, <3>3, <3>4 DEF HeardAt
  <2>4. CASE ~(u = m.of /\ m.part = "reply" /\ u \in waiters)
    <3>1. cons'[u] = cons[u] /\ (u \in waiters' => u \in waiters) /\ acks' \subseteq acks
      BY <1>2, <2>4
    <3>2. Going(u) /\ resp[u].pc \in {"think", "play"} /\ cons[u] = "speaking" /\ ~playing'
            => resp'[u].fate = "met"
      <4>. SUFFICES ASSUME Going(u), resp[u].pc \in {"think", "play"}, cons[u] = "speaking",
                           ~playing', playing
                    PROVE  resp'[u].fate = "met"
        BY <2>1, <2>2, <1>1 DEF HeardAt, TypeInv
      <4>1. m \in latest
        BY <1>2
      <4>2. u # m.of
        BY <1>3 DEF Allowed
      <4>. QED  BY <1>4, <4>1, <4>2
    <3>. QED  BY <2>1, <2>2, <3>1, <3>2 DEF HeardAt
  <2>. QED  BY <2>3, <2>4
<1>. QED  BY <1>5, <1>6, <1>7, <1>8, <1>10, <1>11 DEF CallInv

-----------------------------------------------------------------------------
(* Replacing and cancelling the response *)

\* All but where the loops are.
ButActs == TypeInv /\ TaskInv /\ OrphanInv /\ SessionInv /\ SilenceInv /\ SoundInv /\ HeardInv

\* One of the two loops goes to x.
GoesTo(a, x) ==
  /\ x \in ActStates
  /\ act' \in [Actors -> ActStates] /\ act'[a] = x /\ \A b \in Actors : b # a => act'[b] = act[b]

LEMMA ActUpdate ==
  ASSUME TypeInv, NEW a \in Actors, NEW x \in ActStates, act' = [act EXCEPT ![a] = x]
  PROVE  GoesTo(a, x)
BY DEF TypeInv, GoesTo

\* It may leave only what is over.
Over(a) == act[a].pc \in {"cancelling", "waiting"} => ~Running(act[a].victim)
MayLeave(a) ==
  /\ Over(a)
  /\ act[a].pc \in {"cancelling", "clearing"} => carrier = "gone"

\* The loops go on as the order of the greeting and the transcription demands.
PlansFit(a, x) == /\ x.plan = "greeting" \/ x.pc \in {"accept", "greet"} => ToGreet
                  /\ x.plan = "utterance" => SttDone

\* What a cancelled response may still be awaited by.
LEMMA StillAwaited ==
  ASSUME CallInv, NEW a \in Actors, NEW x, GoesTo(a, x), Over(a), NEW t \in Tasks,
         Alive(t), resp[t].doomed
  PROVE  \E b \in Actors : act'[b].victim = t /\ act'[b].pc \in {"cancelling", "waiting"}
<1>1. PICK b \in Actors : act[b].victim = t /\ act[b].pc \in {"cancelling", "waiting"}
  BY DEF CallInv, TaskInv
<1>2. b # a
  BY <1>1, Bounds DEF Over, Running
<1>. QED  BY <1>1, <1>2 DEF GoesTo

\* _cancel_response, and the end of the call, cancel the current response.
LEMMA DoomKeeps ==
  ASSUME CallInv, NEW a \in Actors, NEW x, GoesTo(a, x), MayLeave(a), PlansFit(a, x),
         Running(cur), x.victim = cur, x.pc \in {"cancelling", "waiting"},
         resp' = Doomed(cur), cur' = None, talking' \in BOOLEAN,
         ready' \in {"none", "stored", "late"},
         UNCHANGED <<cons, playing, latest, waiters, tts, closed, line, acks, completed, carrier>>
  PROVE  ButActs'
<1>1. PICK c \in Tasks : c = cur /\ Alive(c) /\ TypeInv /\ resp[c] \in RespStates
  BY Bounds DEF Running, CallInv, TypeInv
<1>. DEFINE r == [resp[c] EXCEPT !.doomed = TRUE]
<1>2. /\ r \in RespStates /\ r.doomed = TRUE /\ r.pc = resp[c].pc /\ r.kind = resp[c].kind
      /\ r.session = resp[c].session /\ r.part = resp[c].part /\ r.then = resp[c].then
      /\ r.fate = resp[c].fate /\ r.unheard = resp[c].unheard
  BY <1>1 DEF RespStates
<1>3. resp' = [resp EXCEPT ![c] = r]
  BY <1>1 DEF Doomed
<1>. HIDE DEF r
<1>4. resp' \in [Tasks -> RespStates] /\ resp'[c] = r
      /\ \A u \in Tasks : u # c => resp'[u] = resp[u]
  BY <1>1, <1>2, <1>3, RespUpdate
<1>5. \A u \in Tasks : /\ resp'[u].pc = resp[u].pc /\ resp'[u].kind = resp[u].kind
                       /\ resp'[u].session = resp[u].session /\ resp'[u].part = resp[u].part
                       /\ resp'[u].then = resp[u].then /\ resp'[u].fate = resp[u].fate
                       /\ resp'[u].unheard = resp[u].unheard
                       /\ resp'[u].doomed <=> (resp[u].doomed \/ u = c)
  BY <1>2, <1>4
<1>6. \A u \in Tasks : (Alive(u)' <=> Alive(u)) /\ (Going(u)' <=> Going(u) /\ u # c)
  BY <1>5 DEF Alive, Going
<1>7. \A o \in Tasks : Passed(o)' <=> Passed(o)
  <2>1. ~Passed(c)
    <3>1. \A g \in Tasks : resp[g].kind = "greeting" => g <= c
      BY <1>1, Bounds DEF CallInv, OrphanInv
    <3>2. \A g \in Tasks : c < g => ~(g <= c)
      BY Bounds
    <3>. QED  BY <3>1, <3>2 DEF Passed
  <2>. QED  BY <1>1, <1>5, <2>1 DEF Passed
<1>8. TypeInv'
  BY <1>1, <1>4 DEF TypeInv, GoesTo
<1>9. TaskInv'
  <2>1. \A t \in Tasks : Alive(t)' /\ resp'[t].doomed
          => \E b \in Actors : act'[b].victim = t /\ act'[b].pc \in {"cancelling", "waiting"}
    <3>. SUFFICES ASSUME NEW t \in Tasks, Alive(t), resp'[t].doomed
                  PROVE  \E b \in Actors : act'[b].victim = t /\ act'[b].pc \in {"cancelling", "waiting"}
      BY <1>6
    <3>1. CASE t = c
      BY <1>1, <3>1 DEF GoesTo
    <3>2. CASE t # c
      BY <1>5, <3>2, StillAwaited DEF MayLeave
    <3>. QED  BY <3>1, <3>2
  <2>2. \A b \in Actors : act'[b].victim # None => resp'[act'[b].victim].doomed
    <3>. SUFFICES ASSUME NEW b \in Actors, act'[b].victim # None
                  PROVE  resp'[act'[b].victim].doomed
      OBVIOUS
    <3>1. CASE b = a
      BY <1>1, <1>5, <3>1 DEF GoesTo
    <3>2. CASE b # a
      <4>1. act'[b] = act[b] /\ act[b].victim \in Tasks /\ resp[act[b].victim].doomed
        BY <1>1, <3>2 DEF GoesTo, CallInv, TaskInv, TypeInv, ActStates
      <4>. QED  BY <1>5, <4>1
    <3>. QED  BY <3>1, <3>2
  <2>3. \A b \in Actors : (act[b].pc = "clearing" /\ act[b].victim # None => ~Alive(act[b].victim))'
    <3>. SUFFICES ASSUME NEW b \in Actors, act'[b].pc = "clearing", act'[b].victim # None
                  PROVE  ~Alive(act[b].victim)'
      OBVIOUS
    <3>1. b # a
      BY DEF GoesTo
    <3>2. act'[b] = act[b]
      BY <3>1 DEF GoesTo
    <3>3. PICK v \in Tasks : v = act[b].victim /\ ~Alive(v)
      BY <1>1, <3>2 DEF CallInv, TaskInv, TypeInv, ActStates
    <3>. QED  BY <1>6, <3>2, <3>3 DEF Alive
  <2>4. resp[c].pc # "unused"
    BY <1>1 DEF Alive
  <2>5. \A t \in Tasks : resp'[t].pc = "unused"
          => ~resp'[t].doomed /\ resp'[t].session = None /\ resp'[t].kind = "unused"
    BY <1>5, <2>4 DEF CallInv, TaskInv
  <2>. QED  BY <1>5, <2>1, <2>2, <2>3, <2>5 DEF CallInv, TaskInv
<1>10. OrphanInv'
  <2>1. Orphans' = Orphans
    BY <1>1, <1>5, <1>6, Bounds DEF Orphans
  <2>2. ToGreet' => ToGreet
    BY DEF ToGreet, GoesTo, PlansFit, Actors
  <2>3. ~Running(cur)'
    BY DEF Running
  <2>4. Orphans \subseteq Tasks
    BY DEF Orphans
  <2>. QED  BY <1>5, <1>7, <2>1, <2>2, <2>3, <2>4 DEF CallInv, OrphanInv
<1>11. SessionInv'
  BY <1>5, <1>6, <1>7 DEF CallInv, SessionInv
<1>12. SilenceInv'
  <2>. SUFFICES ASSUME NEW t \in Tasks, resp'[t].pc = "done", resp'[t].doomed, Alone(t)', carrier # "gone"
                PROVE  Hushed' \/ \E b \in Actors : act'[b].pc = "cancelling" /\ act'[b].victim = t
    BY DEF SilenceInv
  <2>1. resp[t].pc = "done" /\ resp[t].doomed /\ Alone(t)
    BY <1>1, <1>5 DEF Alone, Alive
  <2>2. Hushed \/ \E b \in Actors : act[b].pc = "cancelling" /\ act[b].victim = t
    BY <2>1 DEF CallInv, SilenceInv
  <2>3. \A b \in Actors : act[b].pc \in {"cancelling", "clearing"} => act'[b] = act[b]
    BY DEF GoesTo, MayLeave
  <2>. QED  BY <2>2, <2>3 DEF Hushed
<1>13. SoundInv'
  <2>1. \A x_1 \in Items : Allowed(x_1)' <=> Allowed(x_1)
    BY <1>5 DEF Allowed, Items
  <2>. QED  BY <1>1, <2>1, SoundStep DEF CallInv, TypeInv
<1>14. HeardInv'
  <2>. SUFFICES ASSUME NEW u \in Tasks
                PROVE  HeardAt(u)'
    BY DEF HeardInv
  <2>1. HeardAt(u)
    BY DEF CallInv, HeardInv
  <2>. QED  BY <1>5, <1>6, <2>1 DEF HeardAt
<1>. QED  BY <1>8, <1>9, <1>10, <1>11, <1>12, <1>13, <1>14 DEF ButActs

\* The part of _clear_playback before its first await.
LEMMA HushKeeps ==
  ASSUME CallInv, NEW a \in Actors, NEW x, GoesTo(a, x), Over(a), PlansFit(a, x),
         NEW v, x.victim = v, v = None \/ (v \in Tasks /\ ~Alive(v) /\ resp[v].doomed),
         x.pc = "clearing", Silenced, resp' = Met(resp, v),
         (cur' = None /\ ~Running(cur)) \/ (cur' = cur /\ Busy(a) /\ x.plan = act[a].plan),
         talking' \in BOOLEAN,
         ready' \in {"none", "stored", "late"}, UNCHANGED <<cons, line, completed, carrier>>
  PROVE  ButActs'
<1>1. /\ playing' = FALSE /\ latest' = {} /\ waiters' = {} /\ tts' = None /\ acks' = {}
      /\ closed' = closed \cup ({tts} \ {None}) /\ TypeInv
  BY DEF Silenced, CallInv
<1>2. SameButFate(resp')
      /\ \A u \in Tasks : resp'[u].fate =
           IF u # v /\ cons[u] # "none" /\ resp[u].pc # "done" THEN "met" ELSE resp[u].fate
  BY <1>1, NoFateChange, MetParts
<1>3. \A u \in Tasks : /\ resp'[u].pc = resp[u].pc /\ resp'[u].kind = resp[u].kind
                       /\ resp'[u].doomed = resp[u].doomed /\ resp'[u].session = resp[u].session
                       /\ resp'[u].part = resp[u].part /\ resp'[u].then = resp[u].then
                       /\ resp'[u].unheard = resp[u].unheard
  BY <1>2 DEF SameButFate
<1>4. \A u \in Tasks : (Alive(u)' <=> Alive(u)) /\ (Going(u)' <=> Going(u))
  BY <1>3 DEF Alive, Going
<1>5. \A o \in Tasks : Passed(o)' <=> Passed(o)
  BY <1>3 DEF Passed
<1>6. TypeInv'
  BY <1>1, <1>2 DEF TypeInv, GoesTo, SameButFate
<1>7. cur' \in {cur, None} /\ (cur # None => cur \in Tasks)
  BY <1>1 DEF TypeInv
<1>8. TaskInv'
  <2>1. \A t \in Tasks : Alive(t)' /\ resp'[t].doomed
          => \E b \in Actors : act'[b].victim = t /\ act'[b].pc \in {"cancelling", "waiting"}
    BY <1>3, <1>4, StillAwaited
  <2>2. \A b \in Actors : act'[b].victim # None => resp'[act'[b].victim].doomed
    <3>. SUFFICES ASSUME NEW b \in Actors, act'[b].victim # None
                  PROVE  resp'[act'[b].victim].doomed
      OBVIOUS
    <3>1. act'[b].victim \in Tasks /\ resp[act'[b].victim].doomed
      BY <1>1 DEF GoesTo, CallInv, TaskInv, TypeInv, ActStates
    <3>. QED  BY <1>3, <3>1
  <2>3. \A b \in Actors : (act[b].pc = "clearing" /\ act[b].victim # None => ~Alive(act[b].victim))'
    <3>. SUFFICES ASSUME NEW b \in Actors, act'[b].pc = "clearing", act'[b].victim # None
                  PROVE  ~Alive(act[b].victim)'
      OBVIOUS
    <3>1. PICK w \in Tasks : w = act'[b].victim /\ ~Alive(w)
      BY <1>1 DEF GoesTo, CallInv, TaskInv, TypeInv, ActStates
    <3>. QED  BY <1>4, <3>1 DEF Alive
  <2>. QED  BY <1>3, <1>7, <2>1, <2>2, <2>3 DEF CallInv, TaskInv
<1>9. OrphanInv'
  <2>1. Orphans' = Orphans
    <3>1. \A u \in Tasks : Alive(u) => ((u # cur)' <=> u # cur)
      BY <1>7, Bounds DEF Running
    <3>. QED  BY <1>3, <1>4, <3>1 DEF Orphans
  <2>2. ToGreet' => ToGreet
    BY DEF ToGreet, GoesTo, PlansFit, Actors
  <2>3. Running(cur)' => Running(cur) /\ cur' = cur /\ Busy(a) /\ x.plan = act[a].plan
    <3>1. Running(cur)' => cur' # None
      BY DEF Running
    <3>. QED  BY <1>4, <1>7, <3>1 DEF Running
  <2>4. Running(cur)' /\ Busy("stt")' => Busy("stt")
    BY <2>3 DEF Busy, GoesTo, Actors
  <2>5. Running(cur)' /\ act'["main"].plan = "utterance" => act["main"].plan = "utterance"
    BY <2>3 DEF GoesTo, Actors
  <2>6. Orphans \subseteq Tasks
    BY DEF Orphans
  <2>7. Running(cur) => cur \in Tasks
    BY <1>7 DEF Running
  <2>8. \A g \in Tasks : resp'[g].kind = "greeting" => cur' = None \/ g <= cur'
    BY <1>3, <1>7 DEF CallInv, OrphanInv
  <2>9. Busy("stt")' /\ Running(cur)' => resp'[cur'].kind = "greeting" /\ Orphans' = {}
    BY <1>3, <2>1, <2>3, <2>4, <2>7 DEF CallInv, OrphanInv
  <2>. QED  BY <1>3, <1>5, <2>1, <2>2, <2>3, <2>4, <2>5, <2>6, <2>8, <2>9 DEF CallInv, OrphanInv
<1>10. SessionInv'
  BY <1>1, <1>3, <1>4, <1>5 DEF CallInv, SessionInv
<1>11. SilenceInv'
  BY <1>1 DEF SilenceInv, Hushed, GoesTo
<1>12. SoundInv'
  <2>1. \A x_1 \in Items : Allowed(x_1)' <=> Allowed(x_1)
    BY <1>3 DEF Allowed, Items
  <2>. QED  BY <1>1, <2>1, SoundStep DEF CallInv, TypeInv
<1>13. HeardInv'
  <2>. SUFFICES ASSUME NEW u \in Tasks
                PROVE  HeardAt(u)'
    BY DEF HeardInv
  <2>1. HeardAt(u)
    BY DEF CallInv, HeardInv
  <2>2. Going(u) /\ cons[u] # "none" => resp'[u].fate = "met"
    BY <1>2, Bounds DEF Going, Alive
  <2>3. resp'[u].fate \in {resp[u].fate, "met"}
    BY <1>2
  <2>. QED  BY <1>1, <1>3, <1>4, <2>1, <2>2, <2>3 DEF HeardAt
<1>. QED  BY <1>6, <1>8, <1>9, <1>10, <1>11, <1>12, <1>13 DEF ButActs

\* Loops stop waiting for what is over, without any cancellation; what is done to the
\* line is no secret to those it concerns; and n is created, if it is a response.
Settles(rs, n) ==
  /\ SameButFate(rs) /\ resp' \in [Tasks -> RespStates]
  /\ \A u \in Tasks : u # n => resp'[u] = rs[u]
  /\ n # None => /\ n \in NextTasks /\ cur' = n
                 /\ resp'[n].pc = "queued" /\ ~resp'[n].doomed /\ resp'[n].session = None
                 /\ resp'[n].then = "done" /\ resp'[n].fate = "open" /\ ~resp'[n].unheard
  /\ n = None => cur' = cur \/ (cur' = None /\ ~Running(cur))
  /\ \A u \in Tasks : /\ rs[u].fate \in {resp[u].fate, "met"}
                      /\ Going(u) /\ u \in waiters /\ Mark(u, "reply") \in acks'
                           => rs[u].fate = "met" \/ Mark(u, "reply") \in acks
  /\ line' \in {line, <<>>} /\ acks' \in SUBSET Marks /\ acks' \subseteq acks \cup OnLine
  /\ act' \in [Actors -> ActStates]
  /\ \A b \in Actors : act'[b] = act[b] \/
       /\ act'[b].victim = None /\ act'[b].pc \notin {"cancelling", "clearing", "waiting"}
       /\ Over(b)
       /\ act[b].pc \in {"cancelling", "clearing"}
            => carrier = "gone" \/ (act[b].pc = "clearing" /\ line' = <<>>)
  /\ cons' = cons /\ playing' = playing /\ latest' = latest /\ waiters' = waiters
  /\ completed' = completed /\ carrier' = carrier /\ Closing
  /\ talking' \in BOOLEAN /\ ready' \in {"none", "stored", "late"}

\* The others are as before.
OthersStand(n) ==
  /\ \A u \in Tasks : u # n =>
       /\ resp'[u].pc = resp[u].pc /\ resp'[u].kind = resp[u].kind
       /\ resp'[u].doomed = resp[u].doomed /\ resp'[u].session = resp[u].session
       /\ resp'[u].part = resp[u].part /\ resp'[u].then = resp[u].then
       /\ resp'[u].unheard = resp[u].unheard
       /\ (Alive(u)' <=> Alive(u)) /\ (Going(u)' <=> Going(u))
  /\ \A o \in Tasks : o # n => (Passed(o) => Passed(o)')
  /\ n # None => /\ n \in Tasks /\ resp[n].pc = "unused" /\ ~resp[n].doomed
                 /\ resp[n].kind = "unused" /\ ~Alive(n) /\ resp[n].session = None
                 /\ \A u \in Tasks : resp[u].pc # "unused" => u < n
                 /\ ~Passed(n)

LEMMA SettledOthers ==
  ASSUME CallInv, NEW rs, NEW n, Settles(rs, n)
  PROVE  OthersStand(n)
<1>1. \A u \in Tasks : u # n =>
        /\ resp'[u].pc = resp[u].pc /\ resp'[u].kind = resp[u].kind
        /\ resp'[u].doomed = resp[u].doomed /\ resp'[u].session = resp[u].session
        /\ resp'[u].part = resp[u].part /\ resp'[u].then = resp[u].then
        /\ resp'[u].unheard = resp[u].unheard
  BY DEF Settles, SameButFate
<1>2. \A u \in Tasks : u # n => (Alive(u)' <=> Alive(u)) /\ (Going(u)' <=> Going(u))
  BY <1>1 DEF Alive, Going
<1>3. ASSUME n # None
      PROVE  /\ n \in Tasks /\ resp[n].pc = "unused" /\ ~resp[n].doomed
             /\ resp[n].kind = "unused" /\ ~Alive(n) /\ resp[n].session = None
             /\ \A u \in Tasks : resp[u].pc # "unused" => u < n
  <2>1. n \in Tasks /\ resp[n].pc = "unused" /\ \A u \in Unused : n <= u
    BY <1>3 DEF Settles, NextTasks, Unused
  <2>2. \A u \in Tasks : resp[u].pc # "unused" => u < n
    <3>. SUFFICES ASSUME NEW u \in Tasks, resp[u].pc # "unused", ~(u < n)
                  PROVE  FALSE
      OBVIOUS
    <3>1. n < u
      BY <2>1, Bounds
    <3>. QED  BY <2>1, <3>1 DEF CallInv, TaskInv
  <2>. QED  BY <2>1, <2>2 DEF CallInv, TaskInv, Alive
<1>4. n # None => ~Passed(n)
  <2>. SUFFICES ASSUME n # None, NEW g \in Tasks, n < g, resp[g].kind = "greeting"
                PROVE  FALSE
    BY DEF Passed
  <2>1. resp[g].pc # "unused"
    BY DEF CallInv, TaskInv
  <2>. QED  BY <1>3, <2>1, Bounds
<1>5. \A o \in Tasks : o # n => (Passed(o) => Passed(o)')
  <2>. SUFFICES ASSUME NEW o \in Tasks, o # n, NEW g \in Tasks, o < g,
                       resp[g].kind = "greeting", ~resp[o].doomed
                PROVE  Passed(o)'
    BY DEF Passed
  <2>1. g # n
    BY <1>3, Bounds
  <2>. QED  BY <1>1, <2>1 DEF Passed
<1>. QED  BY <1>1, <1>2, <1>3, <1>4, <1>5 DEF OthersStand

LEMMA SettledTasks ==
  ASSUME CallInv, NEW rs, NEW n, Settles(rs, n)
  PROVE  TypeInv' /\ TaskInv' /\ SessionInv' /\ SilenceInv'
<1>0. OthersStand(n)
  BY SettledOthers
<1>1. TypeInv /\ (cur # None => cur \in Tasks)
  BY DEF CallInv, TypeInv
<1>2. TypeInv'
  <2>1. cur' \in Tasks \cup {None}
    BY <1>1, <1>0 DEF OthersStand, Settles
  <2>2. tts' \in Tasks \cup {None} /\ closed' \in SUBSET Tasks
    <3>1. Closing
      BY DEF Settles
    <3>. QED  BY <1>1, <3>1, ClosingParts
  <2>3. line' \in Seq(Items)
    <3>1. line' = line \/ line' = <<>>
      BY DEF Settles
    <3>2. line \in Seq(Items) /\ <<>> \in Seq(Items)
      BY <1>1 DEF TypeInv
    <3>. QED  BY <3>1, <3>2
  <2>. QED  BY <1>1, <2>1, <2>2, <2>3 DEF TypeInv, Settles
<1>3. TaskInv'
  <2>1. ASSUME NEW t \in Tasks, NEW u \in Tasks, t < u, resp'[t].pc = "unused"
        PROVE  resp'[u].pc = "unused"
    <3>1. t # n /\ resp[t].pc = "unused" /\ resp[u].pc = "unused"
      BY <2>1, <1>0, Bounds DEF OthersStand, Settles, CallInv, TaskInv
    <3>2. u # n
      BY <2>1, <3>1, Bounds DEF Settles, NextTasks, Unused
    <3>. QED  BY <3>1, <3>2, <1>0 DEF OthersStand
  <2>2. \A t \in Tasks : resp'[t].pc = "unused"
          => ~resp'[t].doomed /\ resp'[t].session = None /\ resp'[t].kind = "unused"
    BY <1>0, Bounds DEF OthersStand, Settles, CallInv, TaskInv
  <2>3. \A t \in Tasks : resp'[t].kind = "greeting" => resp'[t].pc \in {"queued", "speak", "pace", "done"}
    BY <1>0, Bounds DEF OthersStand, Settles, CallInv, TaskInv
  <2>4. cur' # None => resp'[cur'].pc # "unused" /\ ~resp'[cur'].doomed
    <3>1. CASE n # None
      BY <3>1 DEF Settles
    <3>2. CASE n = None /\ cur' = cur /\ cur # None
      BY <1>1, <3>2, <1>0, Bounds DEF OthersStand, CallInv, TaskInv
    <3>. QED  BY <3>1, <3>2 DEF Settles
  <2>5. ASSUME NEW t \in Tasks, Alive(t)', resp'[t].doomed
        PROVE  \E b \in Actors : act'[b].victim = t /\ act'[b].pc \in {"cancelling", "waiting"}
    <3>1. t # n
      BY <2>5, Bounds DEF Settles
    <3>2. Alive(t) /\ resp[t].doomed
      BY <2>5, <3>1, <1>0 DEF OthersStand
    <3>3. PICK b \in Actors : act[b].victim = t /\ act[b].pc \in {"cancelling", "waiting"}
      BY <3>2 DEF CallInv, TaskInv
    <3>4. ~Over(b)
      BY <3>2, <3>3, Bounds DEF Over, Running
    <3>. QED  BY <3>3, <3>4 DEF Settles
  <2>6. ASSUME NEW b \in Actors, act'[b].victim # None
        PROVE  resp'[act'[b].victim].doomed
    <3>1. act'[b] = act[b] /\ act[b].victim \in Tasks /\ resp[act[b].victim].doomed
      BY <1>1, <2>6 DEF Settles, CallInv, TaskInv, TypeInv, ActStates
    <3>2. act[b].victim # n
      BY <3>1, <1>0, Bounds DEF OthersStand
    <3>. QED  BY <3>1, <3>2, <1>0 DEF OthersStand
  <2>7. \A b \in Actors : (act[b].pc = "clearing" /\ act[b].victim # None => ~Alive(act[b].victim))'
    <3>. SUFFICES ASSUME NEW b \in Actors, act'[b].pc = "clearing", act'[b].victim # None
                  PROVE  ~Alive(act[b].victim)'
      OBVIOUS
    <3>1. act'[b] = act[b]
      BY DEF Settles
    <3>2. PICK w \in Tasks : w = act[b].victim /\ ~Alive(w) /\ resp[w].doomed
      BY <1>1, <3>1 DEF CallInv, TaskInv, TypeInv, ActStates
    <3>3. ~Alive(w)'
      BY <3>2, <1>0, Bounds DEF OthersStand
    <3>. QED  BY <3>1, <3>2, <3>3 DEF Alive
  <2>. QED  BY <2>1, <2>2, <2>3, <2>4, <2>5, <2>6, <2>7 DEF TaskInv
<1>4. SessionInv'
  <2>1. CASE \E o \in Tasks : Passed(o)
    <3>1. PICK o \in Tasks : Passed(o)
      BY <2>1
    <3>2. Passed(o)'
      BY <3>1, <1>0, Bounds DEF OthersStand
    <3>. QED  BY <3>2 DEF SessionInv
  <2>2. CASE ~(\E o \in Tasks : Passed(o))
    <3>1. /\ closed \subseteq closed' /\ tts \in closed' \cup {tts', None} /\ tts' \in {tts, None}
      <4>1. Closing
        BY DEF Settles
      <4>. QED  BY <1>1, <4>1, ClosingParts
    <3>2. \A u \in Tasks : resp'[u].session \in {resp[u].session, None}
      BY <1>0, Bounds DEF OthersStand, Settles
    <3>3. \A u \in Tasks : Going(u)' /\ resp'[u].pc \in {"switch", "open"}
            => Going(u) /\ resp[u].pc = resp'[u].pc
      BY <1>0, Bounds DEF OthersStand, Settles
    <3>. QED  BY <2>2, <3>1, <3>2, <3>3 DEF CallInv, SessionInv
  <2>. QED  BY <2>1, <2>2
<1>5. SilenceInv'
  <2>. SUFFICES ASSUME NEW t \in Tasks, resp'[t].pc = "done", resp'[t].doomed, Alone(t)', carrier # "gone"
                PROVE  Hushed' \/ \E b \in Actors : act'[b].pc = "cancelling" /\ act'[b].victim = t
    BY DEF SilenceInv, Settles
  <2>1. t # n
    BY Bounds DEF Settles
  <2>2. resp[t].pc = "done" /\ resp[t].doomed
    BY <2>1, <1>0 DEF OthersStand
  <2>3. Alone(t)
    BY <2>1, <1>0, Bounds DEF OthersStand, Alone, Settles
  <2>4. Hushed \/ \E b \in Actors : act[b].pc = "cancelling" /\ act[b].victim = t
    BY <2>2, <2>3 DEF CallInv, SilenceInv
  <2>5. \A b \in Actors : act[b].pc = "cancelling" => act'[b] = act[b]
    BY DEF Settles
  <2>6. \A b \in Actors : act[b].pc = "clearing" => act'[b] = act[b] \/ line' = <<>>
    BY DEF Settles
  <2>7. playing' = playing /\ (line = <<>> => line' = <<>>)
    BY DEF Settles
  <2>. QED  BY <2>4, <2>5, <2>6, <2>7 DEF Hushed
<1>. QED  BY <1>2, <1>3, <1>4, <1>5

LEMMA SettledSounds ==
  ASSUME CallInv, NEW rs, NEW n, Settles(rs, n)
  PROVE  SoundInv' /\ HeardInv'
<1>0. OthersStand(n)
  BY SettledOthers
<1>1. TypeInv /\ cons' = cons
  BY DEF CallInv, Settles
<1>2. SoundInv'
  <2>1. ASSUME NEW x \in Items, Allowed(x)
        PROVE  Allowed(x)'
    <3>1. x.of \in Tasks /\ x.of # n
      BY <2>1, <1>0, Bounds DEF OthersStand, Items, Allowed, Early
    <3>2. SameStage(x.of)
      BY <1>1, <3>1, <1>0 DEF OthersStand, SameStage
    <3>. QED  BY <2>1, <3>2, StageAllows
  <2>2. line' \in Seq(Items)
    <3>1. line' = line \/ line' = <<>>
      BY DEF Settles
    <3>2. line \in Seq(Items) /\ <<>> \in Seq(Items)
      BY <1>1 DEF TypeInv
    <3>. QED  BY <3>1, <3>2
  <2>. QED  BY <1>1, <2>1, <2>2, SoundStep DEF CallInv, Settles
<1>3. HeardInv'
  <2>. SUFFICES ASSUME NEW u \in Tasks
                PROVE  HeardAt(u)'
    BY DEF HeardInv
  <2>1. HeardAt(u) /\ playing' = playing /\ waiters' = waiters
    BY DEF CallInv, HeardInv, Settles
  <2>2. CASE u = n
    <3>1. n # None /\ resp[n].session = None
      BY <2>2, <1>0, Bounds DEF OthersStand
    <3>2. cons[u] = "none" /\ u \notin waiters
      BY <2>1, <2>2, <3>1 DEF HeardAt
    <3>. QED  BY <1>1, <2>1, <2>2, <3>1, <3>2 DEF HeardAt, Settles, Going, Alive
  <2>3. CASE u # n
    <3>1. /\ resp'[u].pc = resp[u].pc /\ resp'[u].session = resp[u].session
          /\ resp'[u].then = resp[u].then /\ resp'[u].unheard = resp[u].unheard
          /\ (Going(u)' <=> Going(u))
      BY <2>3, <1>0 DEF OthersStand
    <3>2. /\ resp'[u].fate \in {resp[u].fate, "met"}
          /\ Going(u) /\ u \in waiters /\ Mark(u, "reply") \in acks'
               => resp'[u].fate = "met" \/ Mark(u, "reply") \in acks
      BY <2>3 DEF Settles
    <3>. QED  BY <1>1, <2>1, <3>1, <3>2 DEF HeardAt
  <2>. QED  BY <2>2, <2>3
<1>. QED  BY <1>2, <1>3

\* No response is created, and no loop is about to create one that was not before.
LEMMA SettledQuiet ==
  ASSUME CallInv, NEW rs, Settles(rs, None), ToGreet' => ToGreet,
         act'["main"].plan = "utterance" => act["main"].plan = "utterance"
  PROVE  OrphanInv'
<1>1. OthersStand(None)
  BY SettledOthers
<1>2. \A u \in Tasks : /\ resp'[u].kind = resp[u].kind /\ resp'[u].doomed = resp[u].doomed
                       /\ (Alive(u)' <=> Alive(u))
  BY <1>1, Bounds DEF OthersStand
<1>3. /\ (cur' = cur) \/ (cur' = None /\ ~Running(cur))
      /\ cur # None => cur \in Tasks
  BY DEF Settles, CallInv, TypeInv
<1>4. Orphans' = Orphans
  <2>1. \A t \in Tasks : t \in Orphans' <=> t \in Orphans
    BY <1>2, <1>3, Bounds DEF Orphans, Running
  <2>. QED  BY <2>1 DEF Orphans
<1>5. \A o \in Tasks : Passed(o)' <=> Passed(o)
  BY <1>2 DEF Passed
<1>6. Running(cur)' => Running(cur) /\ cur' = cur /\ cur \in Tasks
  BY <1>2, <1>3 DEF Running
<1>7. Busy("stt")' => Busy("stt")
  BY DEF Settles, Busy, Actors
<1>8. Orphans \subseteq Tasks
  BY DEF Orphans
<1>9. OrphanInv
  BY DEF CallInv
<1>10. ToGreet' => /\ Orphans' = {} /\ \A t \in Tasks : resp'[t].kind # "greeting"
                   /\ Busy("stt")' => ~Running(cur)'
  BY <1>2, <1>4, <1>6, <1>7, <1>9 DEF OrphanInv
<1>11. Busy("stt")' /\ Running(cur)' => resp'[cur'].kind = "greeting" /\ Orphans' = {}
  BY <1>2, <1>4, <1>6, <1>7, <1>9 DEF OrphanInv
<1>12. act'["main"].plan = "utterance" => ~Running(cur)'
  BY <1>6, <1>9 DEF OrphanInv
<1>13. \A g \in Tasks : resp'[g].kind = "greeting" => cur' = None \/ g <= cur'
  BY <1>2, <1>3, <1>9 DEF OrphanInv
<1>14. \A o, p \in Orphans' : o = p
  BY <1>4, <1>9 DEF OrphanInv
<1>15. \A o \in Orphans' : resp'[o].kind = "greeting" \/ Passed(o)'
  BY <1>2, <1>4, <1>5, <1>8, <1>9 DEF OrphanInv
<1>. QED  BY <1>10, <1>11, <1>12, <1>13, <1>14, <1>15 DEF OrphanInv

\* A loop creates the response n and goes on listening, or stops.
Creates(a, n) ==
  /\ n # None /\ act'[a].pc \in {"listen", "teardown"} /\ act'[a].plan = "listen"
  /\ \A b \in Actors : b # a => act'[b] = act[b]
  /\ \/ a = "main" /\ resp'[n].kind = "greeting" /\ ToGreet
     \/ a = "main" /\ resp'[n].kind # "greeting" /\ SttDone /\ ~Running(cur)
     \/ a = "stt" /\ resp'[n].kind # "greeting" /\ ~SttDone /\ (Busy("stt") \/ ~Running(cur))

\* The one that was current goes on without its canceller: only the greeting and a
\* response that it replaced can meet so.
LEMMA SettledNew ==
  ASSUME CallInv, NEW rs, NEW n, Settles(rs, n), NEW a \in Actors, Creates(a, n)
  PROVE  OrphanInv'
<1>1. OthersStand(n) /\ n \in Tasks /\ cur' = n /\ ~resp'[n].doomed
  BY SettledOthers DEF Settles, OthersStand, Creates
<1>2. \A u \in Tasks : u # n => /\ resp'[u].kind = resp[u].kind /\ resp'[u].doomed = resp[u].doomed
                                /\ (Alive(u)' <=> Alive(u))
  BY <1>1 DEF OthersStand
<1>3. ~Alive(n) /\ resp[n].kind # "greeting" /\ \A u \in Tasks : resp[u].pc # "unused" => u < n
  BY <1>1, Bounds DEF OthersStand
<1>4. cur # None => cur \in Tasks /\ ~resp[cur].doomed
  BY DEF CallInv, TypeInv, TaskInv
<1>5. \A o \in Orphans' : o \in Tasks /\ o # n /\ Alive(o) /\ ~resp[o].doomed
  BY <1>1, <1>2 DEF Orphans
<1>6. \A o \in Orphans' : o \in Orphans \/ (o = cur /\ Running(cur))
  BY <1>4, <1>5, Bounds DEF Orphans, Running
<1>7. \A o \in Tasks : o # n => (Passed(o) => Passed(o)')
  BY <1>1 DEF OthersStand
<1>8. \A g \in Tasks : resp'[g].kind = "greeting" => g <= cur'
  <2>. SUFFICES ASSUME NEW g \in Tasks, resp'[g].kind = "greeting", g # n
                PROVE  g < n
    BY <1>1, Bounds
  <2>1. resp[g].pc # "unused"
    BY <1>2 DEF CallInv, TaskInv
  <2>. QED  BY <1>3, <2>1
<1>9. OrphanInv
  BY DEF CallInv
<1>10. CASE a = "main" /\ resp'[n].kind = "greeting" /\ ToGreet
  <2>1. ~ToGreet' /\ act'["main"].plan = "listen"
    BY <1>10 DEF Creates, ToGreet
  <2>2. Orphans = {} /\ (Busy("stt") => ~Running(cur))
    BY <1>9, <1>10 DEF OrphanInv
  <2>3. Busy("stt")' => Busy("stt")
    BY <1>10 DEF Creates, Busy, Actors
  <2>4. \A o \in Orphans' : o = cur /\ Running(cur)
    BY <1>6, <2>2
  <2>5. \A o \in Orphans' : Passed(o)'
    <3>. SUFFICES ASSUME NEW o \in Orphans'
                  PROVE  Passed(o)'
      OBVIOUS
    <3>1. o \in Tasks /\ o # n /\ ~resp'[o].doomed /\ resp[o].pc # "unused"
      BY <1>2, <1>5 DEF Alive
    <3>2. o < n
      BY <1>3, <3>1
    <3>. QED  BY <1>1, <1>10, <3>1, <3>2 DEF Passed
  <2>6. Busy("stt")' => Orphans' = {}
    BY <2>2, <2>3, <2>4
  <2>. QED  BY <1>1, <1>8, <1>10, <2>1, <2>4, <2>5, <2>6 DEF OrphanInv
<1>11. CASE ~Running(cur) /\ ~(a = "main" /\ resp'[n].kind = "greeting" /\ ToGreet)
  <2>1. Orphans' \subseteq Orphans /\ Orphans \subseteq Tasks /\ n \notin Orphans'
    BY <1>1, <1>6, <1>11 DEF Orphans
  <2>2. resp'[n].kind # "greeting"
    BY <1>11 DEF Creates
  <2>3. ToGreet' => ToGreet
    BY DEF Creates, ToGreet, Actors
  <2>4. ~Busy("stt")'
    BY <1>11 DEF Creates, Busy, Actors, SttDone
  <2>5. act'["main"].plan # "utterance"
    BY <1>11 DEF Creates, Actors, CallInv, ActInv
  <2>6. \A t \in Tasks : resp'[t].kind = "greeting" => resp[t].kind = "greeting"
    BY <1>2, <2>2
  <2>7. \A o \in Orphans' : resp'[o].kind = "greeting" \/ Passed(o)'
    BY <1>2, <1>7, <1>9, <2>1 DEF OrphanInv
  <2>8. ToGreet' => Orphans' = {} /\ \A t \in Tasks : resp'[t].kind # "greeting"
    BY <1>9, <2>1, <2>3, <2>6 DEF OrphanInv
  <2>9. \A o, p \in Orphans' : o = p
    BY <1>9, <2>1 DEF OrphanInv
  <2>. QED  BY <1>8, <2>4, <2>5, <2>7, <2>8, <2>9 DEF OrphanInv
<1>12. CASE Running(cur) /\ ~(a = "main" /\ resp'[n].kind = "greeting" /\ ToGreet)
  <2>1. a = "stt" /\ resp'[n].kind # "greeting" /\ ~SttDone /\ Busy("stt")
    BY <1>12 DEF Creates
  <2>2. Orphans = {} /\ resp[cur].kind = "greeting" /\ ~ToGreet
    BY <1>9, <1>12, <2>1 DEF OrphanInv
  <2>3. ~ToGreet' /\ ~Busy("stt")' /\ act'["main"].plan # "utterance"
    BY <1>12, <2>1, <2>2 DEF Creates, Busy, Actors, ToGreet, CallInv, ActInv
  <2>4. \A o \in Orphans' : o = cur
    BY <1>6, <2>2
  <2>5. \A o \in Orphans' : resp'[o].kind = "greeting"
    BY <1>2, <1>5, <2>2, <2>4
  <2>. QED  BY <1>8, <2>3, <2>4, <2>5 DEF OrphanInv
<1>. QED  BY <1>10, <1>11, <1>12

LEMMA CreatedFields ==
  ASSUME NEW plan \in Creating
  PROVE  /\ Created(plan) \in RespStates /\ Created(plan).pc = "queued" /\ ~Created(plan).doomed
         /\ Created(plan).session = None /\ Created(plan).then = "done"
         /\ Created(plan).fate = "open" /\ ~Created(plan).unheard
         /\ Created(plan).kind = "greeting" <=> plan = "greeting"
<1>. DEFINE k == IF plan = "fallback" THEN "utterance" ELSE plan
            q == Response(k)
<1>1. k \in {"greeting", "turn", "utterance"} /\ (k = "greeting" <=> plan = "greeting")
  BY DEF Creating, Plans
<1>2. Created(plan) = q
  BY DEF Created
<1>. HIDE DEF k
<1>3. /\ q \in RespStates /\ q.pc = "queued" /\ q.kind = k /\ q.session = None
      /\ q.then = "done" /\ q.fate = "open"
  BY <1>1, Bounds DEF Response, RespStates, Pcs, InTransaction
<1>4. ~q.doomed /\ ~q.unheard
  BY DEF Response
<1>. HIDE DEF q
<1>. QED  BY <1>1, <1>2, <1>3, <1>4

\* Whoever sends a mark back or drops audio says so to those it concerns.
Told(rs) ==
  /\ SameButFate(rs)
  /\ \A u \in Tasks : /\ rs[u].fate \in {resp[u].fate, "met"}
                      /\ Going(u) /\ u \in waiters /\ Mark(u, "reply") \in acks'
                           => rs[u].fate = "met" \/ Mark(u, "reply") \in acks

\* Who may carry out which plan, and when.
PlanIsDue(a, plan) ==
  /\ plan = "greeting" => a = "main" /\ ToGreet
  /\ plan = "utterance" => a = "main" /\ SttDone /\ ~Running(cur)
  /\ plan \in {"turn", "fallback"} => a = "stt" /\ ~SttDone /\ (Busy("stt") \/ ~Running(cur))

LEMMA ProceedKeeps ==
  ASSUME CallInv, NEW a \in Actors, NEW plan \in Plans, NEW rs, NEW c, NEW words \in BOOLEAN,
         Proceed(a, plan, rs, c, words), Told(rs), PlanIsDue(a, plan),
         c = cur \/ (c = None /\ ~Running(cur)), Over(a),
         act[a].pc \in {"cancelling", "clearing"} => act[a].pc = "clearing" /\ line' = <<>>,
         line' \in {line, <<>>}, acks' \in SUBSET Marks, acks' \subseteq acks \cup OnLine,
         ready' \in {"none", "stored", "late"},
         UNCHANGED <<cons, playing, latest, waiters, tts, closed, completed, carrier>>
  PROVE  ButActs' /\ GoesTo(a, At(IF plan = "fallback" THEN "teardown" ELSE "listen"))
<1>. DEFINE x == At(IF plan = "fallback" THEN "teardown" ELSE "listen")
<1>1. /\ x \in ActStates /\ x.victim = None /\ x.plan = "listen" /\ x.pc \in {"listen", "teardown"}
      /\ act' = [act EXCEPT ![a] = x]
  BY DEF At, ActStates, ActPcs, Plans, Proceed
<1>. HIDE DEF x
<1>2. GoesTo(a, x) /\ TypeInv
  BY <1>1, ActUpdate DEF CallInv
<1>3. talking' \in BOOLEAN
  BY <1>2 DEF Proceed, TypeInv
<1>4. \A b \in Actors : act'[b] = act[b] \/
        /\ act'[b].victim = None /\ act'[b].pc \notin {"cancelling", "clearing", "waiting"}
        /\ Over(b)
        /\ act[b].pc \in {"cancelling", "clearing"}
             => carrier = "gone" \/ (act[b].pc = "clearing" /\ line' = <<>>)
  BY <1>1, <1>2 DEF GoesTo
<1>5. act' \in [Actors -> ActStates] /\ SameButFate(rs) /\ Closing
  BY <1>2 DEF GoesTo, Told, Closing
<1>6. CASE plan \notin Creating
  <2>1. resp' = rs /\ cur' = c
    BY <1>6 DEF Proceed
  <2>2. Settles(rs, None)
    BY <1>3, <1>4, <1>5, <2>1 DEF Settles, Told, SameButFate
  <2>3. ToGreet' => ToGreet
    BY <1>1, <1>2 DEF GoesTo, ToGreet, Actors
  <2>4. act'["main"].plan = "utterance" => act["main"].plan = "utterance"
    BY <1>1, <1>2 DEF GoesTo, Actors
  <2>5. OrphanInv'
    BY <2>2, <2>3, <2>4, SettledQuiet
  <2>6. TypeInv' /\ TaskInv' /\ SessionInv' /\ SilenceInv'
    BY <2>2, SettledTasks
  <2>7. SoundInv' /\ HeardInv'
    BY <2>2, SettledSounds
  <2>. QED  BY <1>2, <2>5, <2>6, <2>7 DEF ButActs, x
<1>7. CASE plan \in Creating
  <2>1. PICK n \in NextTasks : cur' = n /\ resp' = [rs EXCEPT ![n] = Created(plan)]
    BY <1>7 DEF Proceed
  <2>2. n \in Tasks /\ n # None
    BY <2>1, Bounds DEF NextTasks, Unused
  <2>3. /\ Created(plan) \in RespStates /\ Created(plan).pc = "queued" /\ ~Created(plan).doomed
        /\ Created(plan).session = None /\ Created(plan).then = "done"
        /\ Created(plan).fate = "open" /\ ~Created(plan).unheard
        /\ Created(plan).kind = "greeting" <=> plan = "greeting"
    BY <1>7, CreatedFields
  <2>4. /\ resp' \in [Tasks -> RespStates] /\ resp'[n] = Created(plan)
        /\ \A u \in Tasks : u # n => resp'[u] = rs[u]
    BY <1>5, <2>1, <2>2, <2>3 DEF SameButFate
  <2>5. Settles(rs, n)
    BY <1>3, <1>4, <1>5, <2>1, <2>2, <2>3, <2>4 DEF Settles, Told
  <2>6. Creates(a, n)
    <3>1. act'[a].pc \in {"listen", "teardown"} /\ act'[a].plan = "listen"
          /\ \A b \in Actors : b # a => act'[b] = act[b]
      BY <1>1, <1>2 DEF GoesTo
    <3>. QED  BY <1>7, <2>2, <2>3, <2>4, <3>1 DEF Creates, PlanIsDue, Creating, Plans
  <2>7. OrphanInv'
    BY <2>5, <2>6, SettledNew
  <2>8. TypeInv' /\ TaskInv' /\ SessionInv' /\ SilenceInv'
    BY <2>5, SettledTasks
  <2>9. SoundInv' /\ HeardInv'
    BY <2>5, SettledSounds
  <2>. QED  BY <1>2, <2>7, <2>8, <2>9 DEF ButActs, x
<1>. QED  BY <1>6, <1>7

\* A loop is in the middle of a cancellation for the plan, or went on with it.
Goes(a, plan) ==
  \E x \in ActStates : /\ GoesTo(a, x)
                       /\ \/ x.pc \in {"cancelling", "clearing"} /\ x.plan = plan
                          \/ x = At(IF plan = "fallback" THEN "teardown" ELSE "listen")

\* Which loop may have which plan.
Due(a, plan) ==
  \/ /\ a = "main" /\ plan \in {"listen", "greeting", "utterance"}
     /\ plan = "greeting" => ToGreet
     /\ plan = "utterance" => SttDone
  \/ /\ a = "stt" /\ plan \in {"listen", "turn", "fallback"} /\ ~SttDone

LEMMA GoesKeepsActs ==
  ASSUME CallInv, NEW a \in Actors, NEW plan, Goes(a, plan), Due(a, plan),
         act[a].pc \in {"greet", "listen", "cancelling", "clearing"},
         plan = "fallback" => ready' # "stored", ready' \in {ready, "none"},
         line' \in {line, <<>>}, carrier' = carrier
  PROVE  ActInv'
<1>1. PICK x \in ActStates : /\ GoesTo(a, x)
                             /\ \/ x.pc \in {"cancelling", "clearing"} /\ x.plan = plan
                                \/ x = At(IF plan = "fallback" THEN "teardown" ELSE "listen")
  BY DEF Goes
<1>2. /\ x.pc \in {"cancelling", "clearing", "listen", "teardown"}
      /\ x.pc \in {"cancelling", "clearing"} => x.plan = plan
      /\ x.pc \in {"listen", "teardown"} => x.plan = "listen"
      /\ x.pc = "teardown" <=> (plan = "fallback" /\ x.pc \notin {"cancelling", "clearing"})
  BY <1>1 DEF At
<1>3. act'[a] = x /\ \A b \in Actors : b # a => act'[b] = act[b]
  BY <1>1 DEF GoesTo
<1>4. CASE a = "main"
  <2>1. act'["main"] = x /\ act'["stt"] = act["stt"] /\ x.pc # "teardown"
    BY <1>2, <1>3, <1>4 DEF Actors, Due
  <2>. QED  BY <1>2, <1>4, <2>1 DEF CallInv, ActInv, Due, SttDone, Busy, Leaving
<1>5. CASE a = "stt"
  <2>1. act'["stt"] = x /\ act'["main"] = act["main"]
    BY <1>2, <1>3, <1>5 DEF Actors
  <2>. QED  BY <1>2, <1>5, <2>1 DEF CallInv, ActInv, Due, SttDone, Busy, Leaving
<1>. QED  BY <1>4, <1>5 DEF Actors

\* _cancel_response up to its first await.
LEMMA CancelKeeps ==
  ASSUME CallInv, NEW a \in Actors, NEW plan, NEW words \in BOOLEAN,
         Cancel(a, plan, words), Due(a, plan),
         \/ act[a].pc \in {"greet", "listen"} \/ (act[a].pc = "clearing" /\ carrier = "gone"),
         plan = "fallback" => ready' # "stored", ready' \in {ready, "none"},
         cons' = cons, line' = line, completed' = completed, carrier' = carrier
  PROVE  CallInv'
<1>1. plan \in Plans /\ TypeInv /\ ready' \in {"none", "stored", "late"}
  BY DEF Due, Plans, CallInv, TypeInv
<1>2. Over(a) /\ MayLeave(a)
  BY DEF Over, MayLeave
<1>3. \A x : x.plan = plan /\ x.pc \in {"cancelling", "clearing"} => PlansFit(a, x)
  BY DEF PlansFit, Due
<1>4. ButActs' /\ Goes(a, plan)
  <2>1. CASE /\ Running(cur)
             /\ act' = [act EXCEPT ![a] = [pc |-> "cancelling", victim |-> cur, plan |-> plan]]
             /\ resp' = Doomed(cur) /\ cur' = None
             /\ talking' = words /\ UNCHANGED <<playing, latest, waiters, acks, tts, closed>>
    <3>. DEFINE x == [pc |-> "cancelling", victim |-> cur, plan |-> plan]
    <3>1. x \in ActStates
      BY <1>1 DEF ActStates, ActPcs, TypeInv
    <3>2. x.pc = "cancelling" /\ x.victim = cur /\ x.plan = plan /\ act' = [act EXCEPT ![a] = x]
      BY <2>1
    <3>. HIDE DEF x
    <3>3. GoesTo(a, x) /\ PlansFit(a, x)
      BY <1>1, <1>3, <3>1, <3>2, ActUpdate
    <3>4. UNCHANGED <<cons, playing, latest, waiters, tts, closed, line, acks, completed, carrier>>
          /\ talking' \in BOOLEAN
      BY <2>1
    <3>5. ButActs'
      BY <1>1, <1>2, <2>1, <3>2, <3>3, <3>4, DoomKeeps
    <3>. QED  BY <3>1, <3>2, <3>3, <3>5 DEF Goes
  <2>2. CASE /\ ~Running(cur)
             /\ act' = [act EXCEPT ![a] = [pc |-> "clearing", victim |-> None, plan |-> plan]]
             /\ resp' = Met(resp, None) /\ cur' = None /\ talking' = words /\ Silenced
    <3>. DEFINE x == [pc |-> "clearing", victim |-> None, plan |-> plan]
    <3>1. x \in ActStates
      BY <1>1 DEF ActStates, ActPcs
    <3>2. x.pc = "clearing" /\ x.victim = None /\ x.plan = plan /\ act' = [act EXCEPT ![a] = x]
      BY <2>2
    <3>. HIDE DEF x
    <3>3. GoesTo(a, x) /\ PlansFit(a, x)
      BY <1>1, <1>3, <3>1, <3>2, ActUpdate
    <3>4. UNCHANGED <<cons, line, completed, carrier>> /\ talking' \in BOOLEAN
      BY <2>2
    <3>5. ButActs'
      BY <1>1, <1>2, <2>2, <3>2, <3>3, <3>4, HushKeeps
    <3>. QED  BY <3>1, <3>2, <3>3, <3>5 DEF Goes
  <2>3. CASE /\ ~Running(cur) /\ Proceed(a, plan, resp, None, words)
             /\ UNCHANGED <<playing, latest, waiters, acks, tts, closed>>
    <3>. DEFINE x == At(IF plan = "fallback" THEN "teardown" ELSE "listen")
    <3>1. Told(resp)
      BY <1>1, <2>3, NoFateChange DEF Told
    <3>2. PlanIsDue(a, plan)
      BY <2>3 DEF PlanIsDue, Due
    <3>3. act[a].pc \in {"cancelling", "clearing"} => act[a].pc = "clearing" /\ line' = <<>>
      BY DEF CallInv, ActInv
    <3>4. acks' \in SUBSET Marks /\ acks' \subseteq acks \cup OnLine
      BY <1>1, <2>3 DEF TypeInv
    <3>5. UNCHANGED <<cons, playing, latest, waiters, tts, closed, completed, carrier>>
          /\ line' \in {line, <<>>}
      BY <2>3
    <3>6. ButActs' /\ GoesTo(a, x)
      BY <1>1, <1>2, <2>3, <3>1, <3>2, <3>3, <3>4, <3>5, ProceedKeeps
    <3>7. x \in ActStates
      BY <3>6 DEF GoesTo
    <3>. QED  BY <3>6, <3>7 DEF Goes
  <2>. QED  BY <2>1, <2>2, <2>3 DEF Cancel
<1>5. ActInv'
  BY <1>4, GoesKeepsActs
<1>. QED  BY <1>4, <1>5 DEF ButActs, CallInv

\* The carrier is told to clear; it drops what waits there.
LEMMA ClearKeeps ==
  ASSUME CallInv, NEW a \in Actors, Clear(a)
  PROVE  CallInv'
<1>. DEFINE plan == act[a].plan
            v == act[a].victim
            items == {line[i] : i \in DOMAIN line}
            rs == [t \in Tasks |->
                    IF /\ cons[t] # "none" /\ Alive(t) /\ resp[t].fate # "met"
                       /\ \E i \in items : i.of = t /\ i.part = "reply"
                    THEN [resp[t] EXCEPT !.fate = "wiped"] ELSE resp[t]]
<1>1. /\ act[a].pc = "clearing" /\ line' = <<>>
      /\ acks' = acks \cup Awaited({i \in items : i.mark}, waiters, latest)
      /\ Proceed(a, plan, Met(rs, v), cur, talking)
      /\ UNCHANGED <<cons, playing, latest, waiters, tts, closed, ready, completed, carrier>>
  BY DEF Clear
<1>2. TypeInv /\ plan \in Plans /\ v \in Tasks \cup {None} /\ (v # None => ~Alive(v))
  BY <1>1 DEF CallInv, TypeInv, ActStates, TaskInv
<1>3. acks' \subseteq acks \cup OnLine /\ acks' \in SUBSET Marks
  <2>1. items = OnLine /\ OnLine \subseteq Items
    BY <1>2 DEF OnLine, TypeInv
  <2>. HIDE DEF items
  <2>. QED  BY <1>1, <1>2, <2>1 DEF Awaited, Marks, TypeInv
<1>4. SameButFate(rs)
  <2>1. \A u \in Tasks : /\ resp[u] \in RespStates
                         /\ LET r == [resp[u] EXCEPT !.fate = "wiped"]
                            IN  /\ r \in RespStates /\ r.pc = resp[u].pc /\ r.kind = resp[u].kind
                                /\ r.doomed = resp[u].doomed /\ r.session = resp[u].session
                                /\ r.part = resp[u].part /\ r.then = resp[u].then
                                /\ r.unheard = resp[u].unheard
    BY <1>2 DEF TypeInv, RespStates
  <2>. QED  BY <2>1 DEF SameButFate
<1>5. \A u \in Tasks : /\ ~(cons[u] # "none" /\ Alive(u)) => rs[u].fate = resp[u].fate
                       /\ cons[u] # "none" /\ Alive(u) => u # v
  BY <1>2, Bounds
<1>. HIDE DEF rs, items, v, plan
<1>6. /\ SameButFate(Met(rs, v))
      /\ \A u \in Tasks : Met(rs, v)[u].fate =
           IF u # v /\ cons[u] # "none" /\ resp[u].pc # "done" THEN "met" ELSE rs[u].fate
  BY <1>4, MetParts
<1>7. Told(Met(rs, v))
  <2>1. \A u \in Tasks : cons[u] # "none" /\ Alive(u) => Met(rs, v)[u].fate = "met"
    BY <1>5, <1>6 DEF Alive
  <2>2. \A u \in Tasks : Met(rs, v)[u].fate \in {rs[u].fate, "met"}
    BY <1>6
  <2>3. \A u \in Tasks : Met(rs, v)[u].fate \in {resp[u].fate, "met"}
    BY <1>5, <2>1, <2>2
  <2>4. \A u \in Tasks : Going(u) /\ u \in waiters => Alive(u) /\ cons[u] # "none"
    BY DEF Going, CallInv, HeardInv, HeardAt
  <2>. QED  BY <1>6, <2>1, <2>3, <2>4 DEF Told
<1>8. Due(a, plan) /\ PlanIsDue(a, plan)
  BY <1>1 DEF plan, Due, PlanIsDue, CallInv, ActInv, OrphanInv, ToGreet, Busy, SttDone, Actors
<1>9. Over(a)
  BY <1>1 DEF Over
<1>10. talking \in BOOLEAN /\ ready' \in {"none", "stored", "late"} /\ line' \in {line, <<>>}
  BY <1>1, <1>2 DEF TypeInv
<1>11. UNCHANGED <<cons, playing, latest, waiters, tts, closed, completed, carrier>>
  BY <1>1
<1>12. ButActs' /\ GoesTo(a, At(IF plan = "fallback" THEN "teardown" ELSE "listen"))
  BY <1>1, <1>2, <1>3, <1>7, <1>8, <1>9, <1>10, <1>11, ProceedKeeps
<1>13. Goes(a, plan)
  BY <1>12 DEF Goes, GoesTo
<1>14. plan = "fallback" => ready' # "stored"
  BY <1>1 DEF plan, CallInv, ActInv, Actors
<1>15. ActInv'
  BY <1>1, <1>8, <1>10, <1>13, <1>14, GoesKeepsActs
<1>. QED  BY <1>12, <1>15 DEF ButActs, CallInv

LEMMA CancelOverKeeps ==
  ASSUME CallInv, NEW a \in Actors, CancelOver(a)
  PROVE  CallInv'
<1>. DEFINE x == [act[a] EXCEPT !.pc = "clearing"]
            v == act[a].victim
<1>1. /\ act[a].pc = "cancelling" /\ ~Alive(v) /\ act' = [act EXCEPT ![a].pc = "clearing"]
      /\ Silenced /\ resp' = Met(resp, v) /\ cur' = cur /\ talking' = talking /\ ready' = ready
      /\ UNCHANGED <<cons, line, completed, carrier>>
  BY DEF CancelOver, Rest
<1>2. TypeInv /\ act[a] \in ActStates /\ talking' \in BOOLEAN /\ ready' \in {"none", "stored", "late"}
  BY <1>1 DEF CallInv, TypeInv
<1>3. x \in ActStates /\ x.pc = "clearing" /\ x.victim = v /\ x.plan = act[a].plan
  BY <1>2 DEF ActStates, ActPcs
<1>4. act' = [act EXCEPT ![a] = x]
  BY <1>1
<1>5. v = None \/ (v \in Tasks /\ ~Alive(v) /\ resp[v].doomed)
  BY <1>1, <1>2 DEF ActStates, CallInv, TaskInv
<1>. HIDE DEF x, v
<1>6. GoesTo(a, x)
  BY <1>2, <1>3, <1>4, ActUpdate
<1>7. Over(a) /\ Busy(a)
  BY <1>1 DEF Over, Running, Busy, v
<1>8. PlansFit(a, x)
  BY <1>1, <1>3 DEF PlansFit, ToGreet, CallInv, ActInv, Actors
<1>9. ButActs'
  BY <1>1, <1>2, <1>3, <1>5, <1>6, <1>7, <1>8, HushKeeps
<1>10. ActInv'
  <2>1. /\ act'[a] = x /\ \A b \in Actors : b # a => act'[b] = act[b]
    BY <1>6 DEF GoesTo
  <2>2. CASE a = "main"
    BY <1>1, <1>3, <2>1, <2>2 DEF CallInv, ActInv, SttDone, Busy, Leaving, Actors
  <2>3. CASE a = "stt"
    BY <1>1, <1>3, <2>1, <2>3 DEF CallInv, ActInv, SttDone, Busy, Leaving, Actors
  <2>. QED  BY <2>2, <2>3 DEF Actors
<1>. QED  BY <1>9, <1>10 DEF ButActs, CallInv

-----------------------------------------------------------------------------
(* The receive loop and the transcription task, without any cancellation *)

LEMMA QuietKeeps ==
  ASSUME CallInv, resp' = resp, cur' = cur \/ (cur' = None /\ ~Running(cur)),
         act' \in [Actors -> ActStates],
         \A b \in Actors : act'[b] = act[b] \/
           /\ act'[b].victim = None /\ act'[b].pc \notin {"cancelling", "clearing", "waiting"}
           /\ Over(b)
           /\ act[b].pc \in {"cancelling", "clearing"} => carrier = "gone",
         ToGreet' => ToGreet, act'["main"].plan = "utterance" => act["main"].plan = "utterance",
         Closing, talking' \in BOOLEAN, ready' \in {"none", "stored", "late"},
         UNCHANGED <<cons, playing, latest, waiters, line, acks, completed, carrier>>
  PROVE  ButActs'
<1>1. SameButFate(resp) /\ TypeInv
  BY NoFateChange DEF CallInv
<1>2. Settles(resp, None)
  BY <1>1 DEF Settles, SameButFate, TypeInv
<1>3. OrphanInv'
  BY <1>2, SettledQuiet
<1>4. TypeInv' /\ TaskInv' /\ SessionInv' /\ SilenceInv'
  BY <1>2, SettledTasks
<1>5. SoundInv' /\ HeardInv'
  BY <1>2, SettledSounds
<1>. QED  BY <1>3, <1>4, <1>5 DEF ButActs

Moves == {"listen", "teardown", "stopping", "cleanup", "ended"}

\* One loop goes on by itself.
LEMMA MoveKeeps ==
  ASSUME CallInv, resp' = resp, cur' = cur \/ (cur' = None /\ ~Running(cur)),
         NEW a \in Actors, NEW pc \in Moves,
         act' = [act EXCEPT ![a] = At(pc)], MayLeave(a),
         Closing, talking' \in BOOLEAN, ready' \in {"none", "stored", "late"},
         UNCHANGED <<cons, playing, latest, waiters, line, acks, completed, carrier>>
  PROVE  /\ ButActs' /\ act'[a].plan = "listen" /\ act'[a].pc = pc
         /\ \A b \in Actors : b # a => act'[b] = act[b]
<1>1. At(pc) \in ActStates /\ At(pc).pc = pc /\ At(pc).victim = None /\ At(pc).plan = "listen"
      /\ pc \notin {"cancelling", "clearing", "waiting", "accept", "greet"}
  BY DEF At, ActStates, ActPcs, Plans, Moves
<1>2. GoesTo(a, At(pc))
  BY <1>1, ActUpdate DEF CallInv
<1>3. \A b \in Actors : act'[b] = act[b] \/
        /\ act'[b].victim = None /\ act'[b].pc \notin {"cancelling", "clearing", "waiting"}
        /\ Over(b)
        /\ act[b].pc \in {"cancelling", "clearing"} => carrier = "gone"
  BY <1>1, <1>2 DEF GoesTo, MayLeave
<1>4. (ToGreet' => ToGreet) /\ (act'["main"].plan = "utterance" => act["main"].plan = "utterance")
  BY <1>1, <1>2 DEF GoesTo, ToGreet, Actors
<1>5. act' \in [Actors -> ActStates]
  BY <1>2 DEF GoesTo
<1>6. ButActs'
  BY <1>3, <1>4, <1>5, QuietKeeps
<1>. QED  BY <1>1, <1>2, <1>6 DEF GoesTo

LEMMA HandleStartKeeps ==
  ASSUME CallInv, HandleStart
  PROVE  CallInv'
<1>1. PICK stt \in {"ended", "listen"} :
        act' = [main |-> [At("greet") EXCEPT !.plan = "greeting"], stt |-> At(stt)]
  BY DEF HandleStart
<1>2. /\ act["main"].pc = "accept" /\ carrier = "up"
      /\ UNCHANGED <<cur, resp, playing, latest, waiters, acks, tts, closed>>
      /\ UNCHANGED <<talking, ready, cons, line, completed, carrier>> /\ TypeInv
  BY DEF HandleStart, Speech, Rest, CallInv
<1>3. /\ act'["main"].pc = "greet" /\ act'["main"].plan = "greeting" /\ act'["main"].victim = None
      /\ act'["stt"].pc = stt /\ act'["stt"].plan = "listen" /\ act'["stt"].victim = None
      /\ act' \in [Actors -> ActStates]
  BY <1>1 DEF At, ActStates, ActPcs, Plans, Actors
<1>4. act["stt"].pc = "ended"
  BY <1>2 DEF CallInv, ActInv, SttDone
<1>5. \A b \in Actors : act'[b] = act[b] \/
        /\ act'[b].victim = None /\ act'[b].pc \notin {"cancelling", "clearing", "waiting"}
        /\ Over(b)
        /\ act[b].pc \in {"cancelling", "clearing"} => carrier = "gone"
  BY <1>2, <1>3, <1>4 DEF Actors, Over
<1>6. ButActs'
  <2>1. (ToGreet' => ToGreet) /\ act'["main"].plan # "utterance" /\ Closing
    BY <1>2, <1>3 DEF ToGreet, Closing
  <2>2. talking' \in BOOLEAN /\ ready' \in {"none", "stored", "late"}
    BY <1>2 DEF TypeInv
  <2>. QED  BY <1>2, <1>3, <1>5, <2>1, <2>2, QuietKeeps
<1>7. ActInv'
  BY <1>2, <1>3, <1>4 DEF CallInv, ActInv, SttDone, Busy, Leaving
<1>. QED  BY <1>6, <1>7 DEF ButActs, CallInv

\* The loops stand still.
LEMMA StillKeeps ==
  ASSUME CallInv, UNCHANGED <<act, cur, resp, playing, latest, waiters, acks, tts, closed>>,
         UNCHANGED <<cons, line, completed, carrier>>, talking' \in BOOLEAN,
         ready' \in {"none", "stored", "late"},
         ready' = ready \/ (ready' = "late" /\ ~Leaving /\ act["main"].pc # "accept")
           \/ (ready' = "stored" /\ ~Leaving /\ act["stt"].pc \in {"listen", "cancelling", "clearing"}
                 /\ act["stt"].plan # "fallback")
  PROVE  CallInv'
<1>1. ButActs'
  <2>1. act' \in [Actors -> ActStates] /\ Closing
    BY DEF CallInv, TypeInv, Closing
  <2>2. ToGreet' => ToGreet
    BY DEF ToGreet
  <2>. QED  BY <2>1, <2>2, QuietKeeps
<1>2. ActInv'
  BY DEF CallInv, ActInv, SttDone, Busy, Leaving
<1>. QED  BY <1>1, <1>2 DEF ButActs, CallInv

LEMMA GreetKeeps ==
  ASSUME CallInv, Greet
  PROVE  CallInv'
<1>1. /\ act["main"].pc = "greet" /\ Cancel("main", "greeting", talking)
      /\ ready' = ready /\ UNCHANGED <<cons, line, completed, carrier>>
  BY DEF Greet, Rest
<1>2. Due("main", "greeting") /\ talking \in BOOLEAN
  BY <1>1 DEF Due, ToGreet, CallInv, TypeInv
<1>. QED  BY <1>1, <1>2, CancelKeeps DEF Actors

LEMMA HearSpeechKeeps ==
  ASSUME CallInv, HearSpeech
  PROVE  CallInv'
<1>1. /\ act["main"].pc = "listen" /\ ready' = ready /\ UNCHANGED <<cons, line, completed, carrier>>
      /\ ready' \in {"none", "stored", "late"}
  BY DEF HearSpeech, Receiving, Rest, CallInv, TypeInv
<1>2. CASE Cancel("main", "listen", FALSE)
  <2>1. Due("main", "listen")
    BY DEF Due
  <2>. QED  BY <1>1, <1>2, <2>1, CancelKeeps DEF Actors
<1>3. CASE talking' = TRUE /\ UNCHANGED <<act, Speech>>
  BY <1>1, <1>3, StillKeeps DEF Speech
<1>. QED  BY <1>2, <1>3 DEF HearSpeech

LEMMA EndUtteranceKeeps ==
  ASSUME CallInv, EndUtterance
  PROVE  CallInv'
<1>1. act["main"].pc = "listen" /\ UNCHANGED <<cons, line, completed, carrier>>
  BY DEF EndUtterance, Receiving, Rest
<1>2. CASE /\ ~SttDone /\ talking' = FALSE
           /\ ready' = IF act["stt"].pc = "teardown" \/ act["stt"].plan = "fallback"
                       THEN "late" ELSE "stored"
           /\ UNCHANGED <<act, Speech>>
  <2>1. ~Leaving /\ act["main"].pc # "accept" /\ act["stt"].pc # "ended"
    BY <1>1, <1>2 DEF Leaving, SttDone
  <2>2. act["stt"].pc \in {"listen", "cancelling", "clearing", "teardown", "ended"}
    BY DEF CallInv, ActInv
  <2>. QED  BY <1>1, <1>2, <2>1, <2>2, StillKeeps DEF Speech
<1>3. CASE SttDone /\ Cancel("main", "utterance", FALSE) /\ ready' = ready
  <2>1. Due("main", "utterance")
    BY <1>3 DEF Due
  <2>. QED  BY <1>1, <1>3, <2>1, CancelKeeps DEF Actors
<1>. QED  BY <1>2, <1>3 DEF EndUtterance

LEMMA DropNoiseKeeps ==
  ASSUME CallInv, DropNoise
  PROVE  CallInv'
<1>1. ready \in {"none", "stored", "late"}
  BY DEF CallInv, TypeInv
<1>. QED  BY <1>1, StillKeeps DEF DropNoise, Speech, Rest

LEMMA EndCallKeeps ==
  ASSUME CallInv, EndCall
  PROVE  CallInv'
<1>1. /\ act["main"].pc \in {"accept", "listen", "clearing"} /\ carrier = "gone"
      /\ act' = [act EXCEPT !["main"] = At("stopping")] /\ talking' = FALSE /\ ready' = "none"
      /\ UNCHANGED <<cur, resp, playing, latest, waiters, acks, tts, closed>>
      /\ UNCHANGED <<cons, line, completed, carrier>>
  BY DEF EndCall, Speech, Rest
<1>2. MayLeave("main") /\ Closing
  BY <1>1 DEF MayLeave, Over, Closing
<1>3. /\ ButActs' /\ act'["main"].pc = "stopping" /\ act'["main"].plan = "listen"
      /\ act'["stt"] = act["stt"]
  <2>1. "main" \in Actors /\ "stopping" \in Moves
    BY DEF Actors, Moves
  <2>2. ButActs' /\ act'["main"].pc = "stopping" /\ act'["main"].plan = "listen"
    BY <1>1, <1>2, <2>1, MoveKeeps
  <2>. QED  BY <1>1, <1>2, <2>2 DEF CallInv, TypeInv
<1>4. ActInv'
  BY <1>1, <1>3 DEF CallInv, ActInv, SttDone, Busy, Leaving
<1>. QED  BY <1>3, <1>4 DEF ButActs, CallInv

LEMMA StopResponseKeeps ==
  ASSUME CallInv, StopResponse
  PROVE  CallInv'
<1>1. /\ act["main"].pc = "stopping" /\ SttDone /\ cur' = None
      /\ UNCHANGED <<playing, latest, waiters, acks, tts, closed, talking, ready>>
      /\ UNCHANGED <<cons, line, completed, carrier>>
  BY DEF StopResponse, Rest
<1>2. TypeInv /\ talking' \in BOOLEAN /\ ready' \in {"none", "stored", "late"}
  BY <1>1 DEF CallInv, TypeInv
<1>3. MayLeave("main") /\ Closing
  BY <1>1 DEF MayLeave, Over, Closing
<1>4. CASE /\ Running(cur) /\ resp' = Doomed(cur)
           /\ act' = [act EXCEPT !["main"] = [At("waiting") EXCEPT !.victim = cur]]
  <2>. DEFINE x == [At("waiting") EXCEPT !.victim = cur]
  <2>1. x \in ActStates /\ x.pc = "waiting" /\ x.victim = cur /\ x.plan = "listen"
    BY <1>2 DEF At, ActStates, ActPcs, Plans, TypeInv
  <2>2. act' = [act EXCEPT !["main"] = x]
    BY <1>4
  <2>. HIDE DEF x
  <2>3. GoesTo("main", x) /\ PlansFit("main", x)
    BY <1>2, <2>1, <2>2, ActUpdate DEF Actors, PlansFit
  <2>4. ButActs'
    BY <1>1, <1>2, <1>3, <1>4, <2>1, <2>3, DoomKeeps DEF Actors
  <2>5. act'["main"] = x /\ act'["stt"] = act["stt"]
    BY <2>3 DEF GoesTo, Actors
  <2>6. ActInv'
    BY <1>1, <2>1, <2>5 DEF CallInv, ActInv, SttDone, Busy, Leaving
  <2>. QED  BY <2>4, <2>6 DEF ButActs, CallInv
<1>5. CASE /\ ~Running(cur) /\ resp' = resp
           /\ act' = [act EXCEPT !["main"] = At("cleanup")]
  <2>1. /\ ButActs' /\ act'["main"].pc = "cleanup" /\ act'["main"].plan = "listen"
        /\ act'["stt"] = act["stt"]
    <3>1. "main" \in Actors /\ "cleanup" \in Moves
      BY DEF Actors, Moves
    <3>2. ButActs' /\ act'["main"].pc = "cleanup" /\ act'["main"].plan = "listen"
      BY <1>1, <1>2, <1>3, <1>5, <3>1, MoveKeeps
    <3>. QED  BY <1>1, <1>2, <1>3, <1>5, <3>2 DEF CallInv, TypeInv
  <2>2. ActInv'
    BY <1>1, <2>1 DEF CallInv, ActInv, SttDone, Busy, Leaving
  <2>. QED  BY <2>1, <2>2 DEF ButActs, CallInv
<1>. QED  BY <1>4, <1>5 DEF StopResponse

LEMMA ResponseStoppedKeeps ==
  ASSUME CallInv, ResponseStopped
  PROVE  CallInv'
<1>1. /\ act["main"].pc = "waiting" /\ ~Alive(act["main"].victim)
      /\ act' = [act EXCEPT !["main"] = At("cleanup")]
      /\ UNCHANGED <<cur, resp, playing, latest, waiters, acks, tts, closed, talking, ready>>
      /\ UNCHANGED <<cons, line, completed, carrier>>
  BY DEF ResponseStopped, Speech, Rest
<1>2. MayLeave("main") /\ Closing
  BY <1>1 DEF MayLeave, Over, Running, Closing
<1>3. talking' \in BOOLEAN /\ ready' \in {"none", "stored", "late"}
  BY <1>1 DEF CallInv, TypeInv
<1>4. /\ ButActs' /\ act'["main"].pc = "cleanup" /\ act'["main"].plan = "listen"
      /\ act'["stt"] = act["stt"]
  <2>1. "main" \in Actors /\ "cleanup" \in Moves
    BY DEF Actors, Moves
  <2>2. ButActs' /\ act'["main"].pc = "cleanup" /\ act'["main"].plan = "listen"
    BY <1>1, <1>2, <1>3, <2>1, MoveKeeps
  <2>. QED  BY <1>1, <1>2, <1>3, <2>2 DEF CallInv, TypeInv
<1>5. ActInv'
  BY <1>1, <1>4 DEF CallInv, ActInv, SttDone, Busy, Leaving
<1>. QED  BY <1>4, <1>5 DEF ButActs, CallInv

LEMMA CleanupKeeps ==
  ASSUME CallInv, Cleanup
  PROVE  CallInv'
<1>1. /\ act["main"].pc = "cleanup" /\ act' = [act EXCEPT !["main"] = At("ended")]
      /\ UNCHANGED <<cur, resp, playing, latest, waiters, acks, talking, ready>>
      /\ UNCHANGED <<cons, line, completed, carrier>>
      /\ tts' = None /\ closed' = SessionLeft
  BY DEF Cleanup, Rest
<1>2. MayLeave("main") /\ Closing
  BY <1>1 DEF MayLeave, Over, Closing, SessionLeft
<1>3. talking' \in BOOLEAN /\ ready' \in {"none", "stored", "late"}
  BY <1>1 DEF CallInv, TypeInv
<1>4. /\ ButActs' /\ act'["main"].pc = "ended" /\ act'["main"].plan = "listen"
      /\ act'["stt"] = act["stt"]
  <2>1. "main" \in Actors /\ "ended" \in Moves
    BY DEF Actors, Moves
  <2>2. ButActs' /\ act'["main"].pc = "ended" /\ act'["main"].plan = "listen"
    BY <1>1, <1>2, <1>3, <2>1, MoveKeeps
  <2>. QED  BY <1>1, <1>2, <1>3, <2>2 DEF CallInv, TypeInv
<1>5. ActInv'
  BY <1>1, <1>4 DEF CallInv, ActInv, SttDone, Busy, Leaving
<1>. QED  BY <1>4, <1>5 DEF ButActs, CallInv

LEMMA SpeechStartKeeps ==
  ASSUME CallInv, SpeechStart
  PROVE  CallInv'
<1>1. /\ act["stt"].pc = "listen" /\ Cancel("stt", "listen", talking) /\ ready' = ready
      /\ UNCHANGED <<cons, line, completed, carrier>>
  BY DEF SpeechStart, Transcribing, Rest
<1>2. Due("stt", "listen") /\ talking \in BOOLEAN
  BY <1>1 DEF Due, SttDone, CallInv, TypeInv
<1>. QED  BY <1>1, <1>2, CancelKeeps DEF Actors

LEMMA TranscriptFinalKeeps ==
  ASSUME CallInv, TranscriptFinal
  PROVE  CallInv'
<1>1. /\ act["stt"].pc = "listen" /\ Cancel("stt", "turn", FALSE) /\ ready' = "none"
      /\ UNCHANGED <<cons, line, completed, carrier>>
  BY DEF TranscriptFinal, Transcribing, Rest
<1>2. Due("stt", "turn")
  BY <1>1 DEF Due, SttDone
<1>. QED  BY <1>1, <1>2, CancelKeeps DEF Actors

LEMMA SttFailsKeeps ==
  ASSUME CallInv, SttFails
  PROVE  CallInv'
<1>1. /\ act["stt"].pc = "listen" \/ (act["stt"].pc = "clearing" /\ carrier = "gone")
      /\ UNCHANGED <<cons, line, completed, carrier>>
  BY DEF SttFails, Transcribing, Rest
<1>2. ~SttDone /\ talking \in BOOLEAN /\ ready \in {"none", "stored", "late"}
  BY <1>1 DEF SttDone, CallInv, TypeInv
<1>3. CASE ready' = "none" /\ Cancel("stt", "fallback", talking)
  <2>1. Due("stt", "fallback")
    BY <1>2 DEF Due
  <2>. QED  BY <1>1, <1>2, <1>3, <2>1, CancelKeeps DEF Actors
<1>4. CASE /\ ready = "none" /\ act' = [act EXCEPT !["stt"] = At("teardown")]
           /\ UNCHANGED <<Speech, talking, ready>>
  <2>1. MayLeave("stt") /\ Closing
    BY <1>1, <1>4 DEF MayLeave, Over, Closing, Speech
  <2>2. /\ ButActs' /\ act'["stt"].pc = "teardown" /\ act'["stt"].plan = "listen"
        /\ act'["main"] = act["main"]
    <3>1. "stt" \in Actors /\ "teardown" \in Moves
      BY DEF Actors, Moves
    <3>2. ButActs' /\ act'["stt"].pc = "teardown" /\ act'["stt"].plan = "listen"
      BY <1>1, <1>2, <1>4, <2>1, <3>1, MoveKeeps DEF Speech
    <3>. QED  BY <1>1, <1>2, <1>4, <2>1, <3>2 DEF CallInv, TypeInv
  <2>3. ActInv'
    BY <1>1, <1>2, <1>4, <2>2 DEF CallInv, ActInv, SttDone, Busy, Leaving, Speech
  <2>. QED  BY <2>2, <2>3 DEF ButActs, CallInv
<1>. QED  BY <1>3, <1>4 DEF SttFails, Waiting

LEMMA SttEndingKeeps ==
  ASSUME CallInv, SttEnding
  PROVE  CallInv'
<1>1. PICK pc \in {"teardown", "ended"} :
        /\ act' = [act EXCEPT !["stt"] = At(pc)]
        /\ pc = "teardown" => /\ act["main"].pc = "stopping"
                              /\ \/ act["stt"].pc \in {"listen", "clearing"}
                                 \/ act["stt"].pc = "cancelling" /\ ~Alive(act["stt"].victim)
        /\ pc = "ended" => act["stt"].pc = "teardown"
  BY DEF SttEnding, SttCancelled, SttEnds
<1>2. /\ UNCHANGED <<cur, resp, playing, latest, waiters, acks, tts, closed, talking, ready>>
      /\ UNCHANGED <<cons, line, completed, carrier>>
  BY DEF SttEnding, SttCancelled, SttEnds, Speech, Rest
<1>3. talking' \in BOOLEAN /\ ready' \in {"none", "stored", "late"} /\ pc \in Moves
      /\ "stt" \in Actors
  BY <1>2 DEF CallInv, TypeInv, Moves, Actors
<1>4. MayLeave("stt") /\ Closing
  BY <1>1, <1>2 DEF MayLeave, Over, Running, Closing, CallInv, ActInv, Leaving
<1>5. /\ ButActs' /\ act'["stt"].pc = pc /\ act'["stt"].plan = "listen"
      /\ act'["main"] = act["main"]
  <2>1. ButActs' /\ act'["stt"].pc = pc /\ act'["stt"].plan = "listen"
    BY <1>1, <1>2, <1>3, <1>4, MoveKeeps
  <2>. QED  BY <1>1, <2>1 DEF CallInv, TypeInv, Actors
<1>6. ActInv'
  <2>1. ready # "stored" /\ act["main"].pc # "accept"
    BY <1>1 DEF CallInv, ActInv, Leaving, Busy, SttDone
  <2>. QED  BY <1>1, <1>2, <1>5, <2>1 DEF CallInv, ActInv, SttDone, Busy, Leaving
<1>. QED  BY <1>5, <1>6 DEF ButActs, CallInv

-----------------------------------------------------------------------------
(* The theorems *)

LEMMA InitHolds ==
  ASSUME Init
  PROVE  CallInv
<1>1. /\ act = [main |-> At("accept"), stt |-> At("ended")] /\ cur = None
      /\ resp = [t \in Tasks |-> Response("unused")] /\ cons = [t \in Tasks |-> "none"]
      /\ playing = FALSE /\ latest = {} /\ waiters = {} /\ tts = None /\ closed = {}
      /\ line = <<>> /\ acks = {} /\ talking = FALSE /\ ready = "none"
      /\ completed = FALSE /\ carrier = "up"
  BY DEF Init
<1>2. /\ Response("unused") \in RespStates /\ ~Response("unused").doomed /\ ~Response("unused").unheard
      /\ Response("unused").pc = "unused" /\ Response("unused").kind = "unused"
      /\ Response("unused").session = None /\ Response("unused").then = "done"
      /\ Response("unused").fate = "open"
  <2>. DEFINE q == Response("unused")
  <2>1. q \in RespStates /\ q.pc = "unused" /\ q.kind = "unused" /\ q.session = None
        /\ q.then = "done" /\ q.fate = "open"
    BY DEF Response, RespStates, Pcs, InTransaction
  <2>2. ~q.doomed /\ ~q.unheard
    BY DEF Response
  <2>. QED  BY <2>1, <2>2
<1>3. \A t \in Tasks : resp[t] = Response("unused")
  BY <1>1
<1>4. /\ act["main"].pc = "accept" /\ act["main"].plan = "listen" /\ act["main"].victim = None
      /\ act["stt"].pc = "ended" /\ act["stt"].plan = "listen" /\ act["stt"].victim = None
      /\ act \in [Actors -> ActStates]
  BY <1>1 DEF At, Actors, ActStates, ActPcs, Plans
<1>5. TypeInv
  <2>1. resp \in [Tasks -> RespStates] /\ cons \in [Tasks -> ConsStates]
    BY <1>1, <1>2 DEF ConsStates
  <2>2. line \in Seq(Items)
    BY <1>1
  <2>. QED  BY <1>1, <1>4, <2>1, <2>2 DEF TypeInv
<1>6. \A t \in Tasks : ~Alive(t) /\ resp[t].pc = "unused" /\ resp[t].kind = "unused"
                       /\ ~resp[t].doomed /\ resp[t].session = None
  BY <1>2, <1>3 DEF Alive
<1>7. ActInv
  BY <1>1, <1>4 DEF ActInv, SttDone, Busy, Leaving
<1>8. TaskInv
  BY <1>1, <1>4, <1>6 DEF TaskInv, Actors
<1>9. OrphanInv
  BY <1>1, <1>4, <1>6 DEF OrphanInv, Orphans, Busy
<1>10. SessionInv /\ SilenceInv
  BY <1>1, <1>6 DEF SessionInv, SilenceInv, Going
<1>11. SoundInv
  BY <1>1 DEF SoundInv, Distinct, OnLine
<1>12. HeardInv
  <2>. SUFFICES ASSUME NEW t \in Tasks
                PROVE  HeardAt(t)
    BY DEF HeardInv
  <2>1. resp[t].pc = "unused" /\ resp[t].session = None /\ resp[t].then = "done"
        /\ resp[t].fate = "open" /\ ~resp[t].unheard
    BY <1>2, <1>3
  <2>. QED  BY <1>1, <2>1 DEF HeardAt, Going, Alive
<1>. QED  BY <1>5, <1>7, <1>8, <1>9, <1>10, <1>11, <1>12 DEF CallInv

LEMMA StepKeeps ==
  ASSUME CallInv, [Next]_vars
  PROVE  CallInv'
<1>1. ASSUME Listening PROVE CallInv'
  BY <1>1, HandleStartKeeps, HearSpeechKeeps, EndUtteranceKeeps, DropNoiseKeeps, HandleMarkKeeps
  DEF Listening
<1>2. ASSUME Ending PROVE CallInv'
  BY <1>2, EndCallKeeps, StopResponseKeeps, ResponseStoppedKeeps, CleanupKeeps DEF Ending
<1>3. ASSUME Hearing PROVE CallInv'
  BY <1>3, SpeechStartKeeps, TranscriptFinalKeeps, SttFailsKeeps DEF Hearing
<1>4. ASSUME NEW a \in Actors, Interrupting(a) PROVE CallInv'
  BY <1>4, CancelOverKeeps, ClearKeeps DEF Interrupting
<1>5. ASSUME NEW t \in Tasks, Answering(t) \/ Stopping(t) \/ Playback(t) PROVE CallInv'
  BY <1>5, ResponseKeeps, PlayFramesKeeps, FinishPlaybackKeeps, FailPlaybackKeeps DEF Playback
<1>6. ASSUME PlayNext \/ CallerLeaves \/ Greet \/ SttEnding PROVE CallInv'
  BY <1>6, PlayNextKeeps, CallerLeavesKeeps, GreetKeeps, SttEndingKeeps
<1>7. ASSUME UNCHANGED vars PROVE CallInv'
  <2>1. UNCHANGED <<act, cur, resp, playing, latest, waiters, acks, tts, closed>>
        /\ UNCHANGED <<cons, line, completed, carrier>> /\ talking' = talking /\ ready' = ready
    BY <1>7 DEF vars
  <2>2. talking' \in BOOLEAN /\ ready' \in {"none", "stored", "late"}
    BY <2>1 DEF CallInv, TypeInv
  <2>. QED  BY <2>1, <2>2, StillKeeps
<1>. QED  BY <1>1, <1>2, <1>3, <1>4, <1>5, <1>6, <1>7 DEF Next

\* The inductive invariant holds in every state: where the loops, the responses, their
\* playback tasks and the audio at the carrier may be in relation to each other.
THEOREM CallInvariant == Spec => []CallInv
<1>1. Init => CallInv
  BY InitHolds
<1>2. CallInv /\ [Next]_vars => CallInv'
  BY StepKeeps
<1>. QED  BY <1>1, <1>2, PTL DEF Spec

\* OneResponse: for every number of responses at most one runs that nobody holds, the
\* greeting or one that the greeting replaced.
THEOREM OneResponseAtATime == Spec => []OneResponse
<1>1. CallInv => OneResponse
  <2>. SUFFICES ASSUME CallInv
                PROVE  Cardinality(Orphans) <= 1
    BY DEF CallInv, OrphanInv, OneResponse
  <2>1. \A o, p \in Orphans : o = p
    BY DEF CallInv, OrphanInv
  <2>2. CASE Orphans = {}
    BY <2>2, FS_EmptySet
  <2>3. CASE Orphans # {}
    <3>1. PICK o : Orphans = {o}
      BY <2>1, <2>3
    <3>2. Cardinality({o}) = 1
      BY FS_Singleton
    <3>. QED  BY <3>1, <3>2
  <2>. QED  BY <2>2, <2>3
<1>. QED  BY <1>1, CallInvariant, PTL

\* RecordedWasHeard: a streamed turn is committed only after the caller heard the reply
\* to its end, unless a clear or a mark meant for another response met it.
THEOREM RecordsAreHeard == Spec => []RecordedWasHeard
<1>1. CallInv => RecordedWasHeard
  BY DEF CallInv, HeardInv, HeardAt, RecordedWasHeard
<1>. QED  BY <1>1, CallInvariant, PTL

\* SilencedStaysSilent: nothing of a response that was cancelled waits at the carrier
\* once its cancellation is over, unless another response has begun.
THEOREM SilenceLasts == Spec => []SilencedStaysSilent
<1>1. CallInv => SilencedStaysSilent
  <2>. SUFFICES ASSUME CallInv, NEW i \in DOMAIN line,
                       resp[line[i].of].pc = "done", resp[line[i].of].doomed,
                       \A a \in Actors : act[a].pc \notin {"cancelling", "clearing"},
                       \A u \in Tasks \ {line[i].of} : resp[u].pc \in {"unused", "queued"}
                PROVE  FALSE
    BY DEF SilencedStaysSilent
  <2>1. line \in Seq(Items) /\ line # <<>>
    BY DEF CallInv, TypeInv
  <2>2. line[i].of \in Tasks
    <3>1. line[i] \in Items
      BY <2>1
    <3>. QED  BY <3>1 DEF Items
  <2>3. Alone(line[i].of) /\ carrier # "gone"
    BY <2>1 DEF Alone, CallInv, ActInv
  <2>. QED  BY <2>1, <2>2, <2>3 DEF CallInv, SilenceInv, Hushed
<1>. QED  BY <1>1, CallInvariant, PTL

\* UtteranceRescued: an utterance handed to the transcription task in time is not lost
\* with that task.
THEOREM UtterancesSurvive == Spec => []UtteranceRescued
<1>1. CallInv => UtteranceRescued
  BY DEF CallInv, ActInv, Busy, UtteranceRescued
<1>. QED  BY <1>1, CallInvariant, PTL

-----------------------------------------------------------------------------
(* The end of the call *)

\* Once the call is over, no session stays the active one, unless a greeting passed a
\* response.
EndInv == act["main"].pc = "ended" => (\E o \in Tasks : Passed(o)) \/ tts \in closed \cup {None}

\* The call is over only after the last cleanup.
LEMMA OnlyCleanup ==
  ASSUME CallInv, [Next]_vars, act'["main"].pc = "ended", act["main"].pc # "ended"
  PROVE  Cleanup
<1>1. act \in [Actors -> ActStates] /\ {"main", "stt"} = Actors
  BY DEF CallInv, TypeInv, Actors
<1>2. ASSUME NEW a \in Actors, NEW x, act' = [act EXCEPT ![a] = x], x.pc # "ended"
      PROVE  FALSE
  BY <1>1, <1>2
<1>3. ASSUME NEW a \in Actors, NEW plan, NEW words, Cancel(a, plan, words)
      PROVE  FALSE
  <2>1. CASE act' = [act EXCEPT ![a] = [pc |-> "cancelling", victim |-> cur, plan |-> plan]]
    BY <1>2, <2>1
  <2>2. CASE act' = [act EXCEPT ![a] = [pc |-> "clearing", victim |-> None, plan |-> plan]]
    BY <1>2, <2>2
  <2>3. CASE Proceed(a, plan, resp, None, words)
    <3>. DEFINE x == At(IF plan = "fallback" THEN "teardown" ELSE "listen")
    <3>1. act' = [act EXCEPT ![a] = x] /\ x.pc # "ended"
      BY <2>3 DEF Proceed, At
    <3>. QED  BY <1>2, <3>1
  <2>. QED  BY <1>3, <2>1, <2>2, <2>3 DEF Cancel
<1>4. \A a \in Actors : ~Interrupting(a)
  <2>. SUFFICES ASSUME NEW a \in Actors, CancelOver(a) \/ Clear(a)
                PROVE  FALSE
    BY DEF Interrupting
  <2>1. CASE CancelOver(a)
    <3>. DEFINE x == [act[a] EXCEPT !.pc = "clearing"]
    <3>1. act' = [act EXCEPT ![a] = x] /\ x.pc # "ended"
      BY <1>1, <2>1 DEF CancelOver, ActStates
    <3>. QED  BY <1>2, <3>1
  <2>2. CASE Clear(a)
    <3>. DEFINE x == At(IF act[a].plan = "fallback" THEN "teardown" ELSE "listen")
    <3>1. act' = [act EXCEPT ![a] = x] /\ x.pc # "ended"
      BY <2>2 DEF Clear, Proceed, At
    <3>. QED  BY <1>2, <3>1
  <2>. QED  BY <2>1, <2>2
<1>5. ~Listening /\ ~Greet /\ ~Hearing /\ ~SttEnding /\ ~EndCall /\ ~StopResponse /\ ~ResponseStopped
  <2>1. ~HandleStart /\ ~DropNoise /\ ~HandleMark /\ ~SttEnding /\ ~EndCall /\ ~StopResponse
        /\ ~ResponseStopped
    BY <1>1 DEF HandleStart, DropNoise, HandleMark, SttEnding, SttCancelled, SttEnds, EndCall,
         StopResponse, ResponseStopped, At
  <2>2. ~HearSpeech /\ ~EndUtterance /\ ~Greet
    BY <1>1, <1>3 DEF HearSpeech, EndUtterance, Greet
  <2>3. ~SpeechStart /\ ~TranscriptFinal /\ ~SttFails
    BY <1>1, <1>3 DEF SpeechStart, TranscriptFinal, SttFails, At
  <2>. QED  BY <2>1, <2>2, <2>3 DEF Listening, Hearing
<1>6. \A t \in Tasks : Answering(t) \/ Stopping(t) => act' = act
  BY ResponseFits DEF Fits, TaskStep
<1>7. \A t \in Tasks : Playback(t) => act' = act
  BY DEF Playback, PlayFrames, FinishPlayback, FailPlayback, Streaming
<1>8. PlayNext \/ CallerLeaves \/ UNCHANGED vars => act' = act
  BY DEF PlayNext, CallerLeaves, vars
<1>. QED  BY <1>4, <1>5, <1>6, <1>7, <1>8 DEF Next, Ending

\* Then only responses that were left, and their playback, take steps.
LEMMA OnlyResponses ==
  ASSUME CallInv, [Next]_vars, act["main"].pc = "ended"
  PROVE  \/ \E t \in Tasks : Answering(t) \/ Stopping(t)
         \/ UNCHANGED <<resp, tts, closed>>
<1>1. act["stt"].pc = "ended" /\ carrier = "gone"
  BY DEF CallInv, ActInv, SttDone, Leaving
<1>2. ~Listening /\ ~Greet /\ ~Ending
  BY <1>1 DEF Listening, HandleStart, HearSpeech, EndUtterance, DropNoise, HandleMark, Receiving,
       Greet, Ending, EndCall, StopResponse, ResponseStopped, Cleanup
<1>3. ~Hearing /\ ~SttEnding
  BY <1>1 DEF Hearing, SpeechStart, TranscriptFinal, SttFails, Transcribing, SttEnding,
       SttCancelled, SttEnds
<1>4. \A a \in Actors : ~Interrupting(a)
  BY <1>1 DEF Interrupting, CancelOver, Clear, Actors
<1>5. \A t \in Tasks : Playback(t) => UNCHANGED <<resp, tts, closed>>
  BY DEF Playback, PlayFrames, FinishPlayback, FailPlayback, Streaming
<1>6. ~PlayNext /\ ~CallerLeaves
  BY <1>1 DEF PlayNext, CallerLeaves
<1>7. UNCHANGED vars => UNCHANGED <<resp, tts, closed>>
  BY DEF vars
<1>. QED  BY <1>2, <1>3, <1>4, <1>5, <1>6, <1>7 DEF Next

LEMMA EndKept ==
  ASSUME CallInv, EndInv, [Next]_vars
  PROVE  EndInv'
<1>. SUFFICES ASSUME act'["main"].pc = "ended", \A o \in Tasks : ~Passed(o)'
              PROVE  tts' \in closed' \cup {None}
  BY DEF EndInv
<1>1. CASE act["main"].pc # "ended"
  BY <1>1, OnlyCleanup DEF Cleanup
<1>2. CASE act["main"].pc = "ended" /\ UNCHANGED <<resp, tts, closed>>
  BY <1>2 DEF EndInv, Passed
<1>3. CASE act["main"].pc = "ended" /\ \E t \in Tasks : Answering(t) \/ Stopping(t)
  <2>1. PICK t \in Tasks : Fits(t)
    BY <1>3, ResponseFits
  <2>2. \A u \in Tasks : /\ resp'[u].doomed = resp[u].doomed
                         /\ resp'[u].kind = "greeting" <=> resp[u].kind = "greeting"
    BY <2>1 DEF Fits, TaskStep
  <2>3. \A o \in Tasks : ~Passed(o)
    BY <2>2 DEF Passed
  <2>4. tts \in closed \cup {None}
    BY <1>3, <2>3 DEF EndInv
  <2>5. closed \subseteq closed' /\ (tts' \in {tts, None} \/ (resp[t].pc = "open" /\ ~resp[t].doomed))
    BY <2>1, <2>3 DEF Fits, SessionFits
  <2>6. ~(resp[t].pc = "open" /\ ~resp[t].doomed)
    <3>. SUFFICES ASSUME resp[t].pc = "open", ~resp[t].doomed
                  PROVE  FALSE
      OBVIOUS
    <3>1. Going(t) /\ resp[t].kind # "greeting"
      BY DEF Going, Alive, CallInv, TaskInv
    <3>2. t = cur
      BY <2>3, <3>1, OnlyCurrent
    <3>. QED  BY <1>3, <3>2, Bounds DEF CallInv, ActInv
  <2>. QED  BY <2>4, <2>5, <2>6
<1>. QED  BY <1>1, <1>2, <1>3, OnlyResponses

\* NothingLeft: when the call is over no response runs and no speech session is open,
\* unless there was a second response.
THEOREM NothingIsLeft == Spec => []NothingLeft
<1>1. Init => EndInv
  BY DEF Init, EndInv, At
<1>2. CallInv /\ EndInv /\ [Next]_vars => EndInv'
  BY EndKept
<1>3. CallInv /\ EndInv => NothingLeft
  <2>. SUFFICES ASSUME CallInv, EndInv, act["main"].pc = "ended", Orphans = {},
                       \A o \in Tasks : Alive(o) \/ ~Passed(o)
                PROVE  /\ \A t \in Tasks : ~Alive(t)
                       /\ {resp[t].session : t \in Tasks} \subseteq closed \cup {None}
    BY DEF NothingLeft
  <2>1. act["stt"].pc = "ended" /\ cur = None
    BY DEF CallInv, ActInv, SttDone
  <2>2. \A t \in Tasks : ~Alive(t)
    <3>. SUFFICES ASSUME NEW t \in Tasks, Alive(t)
                  PROVE  FALSE
      OBVIOUS
    <3>1. CASE resp[t].doomed
      <4>1. PICK a \in Actors : act[a].pc \in {"cancelling", "waiting"}
        BY <3>1 DEF CallInv, TaskInv
      <4>. QED  BY <2>1, <4>1 DEF Actors
    <3>2. CASE ~resp[t].doomed
      BY <2>1, <3>2, Bounds DEF Orphans
    <3>. QED  BY <3>1, <3>2
  <2>3. \A o \in Tasks : ~Passed(o)
    BY <2>2
  <2>4. \A t \in Tasks : resp[t].session \in closed \cup {tts, None}
    BY <2>3 DEF CallInv, SessionInv
  <2>5. tts \in closed \cup {None}
    BY <2>3 DEF EndInv
  <2>. QED  BY <2>2, <2>4, <2>5
<1>. QED  BY <1>1, <1>2, <1>3, CallInvariant, PTL DEF Spec

-----------------------------------------------------------------------------
(* How much audio waits *)

\* Each response sends its reply, the goodbye and their marks at most once.
LEMMA LineBound ==
  ASSUME TypeInv, Distinct
  PROVE  Len(line) <= 4 * MaxTasks
<1>. DEFINE N == 4 * MaxTasks
            code(x) == 4 * x.of - (IF x.mark THEN 1 ELSE 0) - (IF x.part = "bye" THEN 2 ELSE 0)
            f == [i \in 1..Len(line) |-> code(line[i])]
<1>1. N \in Nat /\ Len(line) \in Nat /\ DOMAIN line = 1..Len(line)
      /\ \A i \in 1..Len(line) : line[i] \in Items
  BY Bounds DEF TypeInv
<1>2. \A x \in Items : code(x) \in 1..N
  <2>. SUFFICES ASSUME NEW x \in Items
                PROVE  code(x) \in 1..N
    OBVIOUS
  <2>1. x.of \in Nat /\ 1 <= x.of /\ x.of <= MaxTasks
    BY Bounds DEF Items, Tasks
  <2>. QED  BY <2>1, Bounds
<1>3. \A x, y \in Items : code(x) = code(y) => x = y
  <2>. SUFFICES ASSUME NEW x \in Items, NEW y \in Items, code(x) = code(y)
                PROVE  x = y
    OBVIOUS
  <2>1. x.of \in Nat /\ y.of \in Nat /\ x.mark \in BOOLEAN /\ y.mark \in BOOLEAN
        /\ x.part \in {"reply", "bye"} /\ y.part \in {"reply", "bye"}
    BY Bounds DEF Items
  <2>. DEFINE mx == IF x.mark THEN 1 ELSE 0
              my == IF y.mark THEN 1 ELSE 0
              px == IF x.part = "bye" THEN 2 ELSE 0
              py == IF y.part = "bye" THEN 2 ELSE 0
  <2>2. mx \in {0, 1} /\ my \in {0, 1} /\ px \in {0, 2} /\ py \in {0, 2}
        /\ 4 * x.of - mx - px = 4 * y.of - my - py
    OBVIOUS
  <2>3. (mx = my => x.mark = y.mark) /\ (px = py => x.part = y.part)
    BY <2>1
  <2>. HIDE DEF mx, my, px, py
  <2>4. x.of = y.of /\ mx = my /\ px = py
    BY <2>1, <2>2
  <2>. QED  BY <2>3, <2>4 DEF Items
<1>. HIDE DEF code
<1>4. f \in Injection(1..Len(line), 1..N)
  <2>1. f \in [1..Len(line) -> 1..N]
    BY <1>1, <1>2
  <2>2. \A i, j \in 1..Len(line) : f[i] = f[j] => i = j
    BY <1>1, <1>3 DEF Distinct
  <2>. QED  BY <2>1, <2>2 DEF Injection, IsInjective
<1>. HIDE DEF f
<1>5. IsFiniteSet(1..N) /\ Cardinality(1..N) = N /\ Cardinality(1..Len(line)) = Len(line)
  <2>1. \A n \in Nat : IsFiniteSet(1..n) /\ Cardinality(1..n) = n
    <3>. SUFFICES ASSUME NEW n \in Nat
                  PROVE  IsFiniteSet(1..n) /\ Cardinality(1..n) = n
      OBVIOUS
    <3>1. IsFiniteSet(1..n) /\ Cardinality(1..n) = IF 1 > n THEN 0 ELSE n - 1 + 1
      BY FS_Interval
    <3>. QED  BY <3>1
  <2>. QED  BY <1>1, <2>1
<1>6. Cardinality(1..Len(line)) <= Cardinality(1..N)
  BY <1>4, <1>5, FS_Injection
<1>. QED  BY <1>5, <1>6

\* TypeOK: the variables keep their types; at most one mark is the latest, and the
\* carrier never holds more than the parts and marks of each response.
THEOREM TypeCorrect == Spec => []TypeOK
<1>1. CallInv => TypeOK
  <2>. SUFFICES ASSUME CallInv
                PROVE  TypeOK
    OBVIOUS
  <2>1. TypeInv /\ Distinct
    BY DEF CallInv, SoundInv
  <2>2. Len(line) <= 4 * MaxTasks
    BY <2>1, LineBound
  <2>3. Cardinality(latest) <= 1
    <3>1. CASE latest = {}
      BY <3>1, FS_EmptySet
    <3>2. CASE latest # {}
      <4>1. PICK m : latest = {m}
        <5>1. \A m, n \in latest : m = n
          BY <2>1 DEF TypeInv
        <5>. QED  BY <3>2, <5>1
      <4>2. Cardinality({m}) = 1
        BY FS_Singleton
      <4>. QED  BY <4>1, <4>2
    <3>. QED  BY <3>1, <3>2
  <2>4. latest \cup acks \subseteq [of : Tasks, part : {"reply", "bye"}, mark : {TRUE}]
    BY <2>1 DEF TypeInv, Marks, Items
  <2>. QED  BY <2>1, <2>2, <2>3, <2>4
       DEF TypeInv, TypeOK, ActStates, ActPcs, RespStates, ConsStates
<1>. QED  BY <1>1, CallInvariant, PTL

=============================================================================

--------------------------- MODULE OutboundCalls ---------------------------
(***************************************************************************)
(* Placing calls: POST /calls, the registry of call records, the carrier's *)
(* view of each call, its status callbacks, its greeting webhook and its   *)
(* turns, as far as they write its record and its lead, and what all of    *)
(* them share: the engine's call profile (the facts about the contact) and *)
(* the cache of one spoken greeting.  What a turn is played is TurnFlow's. *)
(*                                                                         *)
(* Handlers and background tasks run on one event loop: a step is what one *)
(* of them does between two awaits.  The carrier acts on its own.          *)
(***************************************************************************)
EXTENDS FiniteSets, Naturals

CONSTANTS
  Calls,      \* the calls placed; each has an id, its CallSid
  Nobody,     \* neither a call nor a name
  MaxFaults,  \* bound: hang-ups and replies lost, webhooks sent again,
              \* builds that fail
  MaxTurns    \* bound: turns of calls, and leads edited on the dashboard

ASSUME CallsAssumption ==
  /\ IsFiniteSet(Calls) /\ Nobody \notin Calls /\ MaxFaults \in Nat
  /\ MaxTurns \in Nat

VARIABLES place,     \* the placing request of each call
          named,     \* the calls placed with the contact's name
          exotel,    \* the calls placed with Exotel: a media stream, no greeting
                     \* webhook and no status callback that the server accepts
          leg,       \* the call at the carrier
          news,      \* its status callbacks on their way, in no order
          hook,      \* its greeting webhook
          rec,       \* its CallRecord
          stream,    \* its media stream
          profile,   \* the engine's call profile: whose facts
          cache,     \* the cached greeting, by the name in it; {} if none
          scheduled, \* a refresh of the cache is scheduled
          build,     \* who builds a greeting for the cache, from whose facts
          served,    \* the name in the greeting a call was played
          jobs,      \* the calls with a turn whose job has not begun
          lead,      \* whose facts its latest lead row was prefilled with; {} if
                     \* the row is missing
          odd,       \* history: what went out of order for a call
          rivals,    \* history: placing requests that overlapped
          faults,    \* how many faults so far
          turns      \* how many turns and edits so far

vars == <<place, named, exotel, leg, news, hook, rec, stream, profile, cache, scheduled, build,
          served, jobs, lead, odd, rivals, faults, turns>>
carrier == <<leg, news, hook>>
greetings == <<cache, scheduled, build>>
kinds == <<named, exotel>>
history == <<odd, rivals, faults, turns>>

\* The name a greeting made from these facts addresses.
Voice(facts) == IF facts \in named THEN facts ELSE Nobody

\* A greeting generated now: from the engine's facts.
Generated == Voice(profile)

\* status: the active ones are told apart by nothing here.  own: it holds the
\* number and the contact's facts.  greeting: prepared for this call.
Blank == [status |-> "active", own |-> FALSE, greeting |-> {}, session |-> FALSE]
Absent == [Blank EXCEPT !.status = "none"]

Idle == [pc |-> "idle", todo |-> {}, greeting |-> {}]
NoBuild == [by |-> {}, of |-> Nobody]
Refresh == {Nobody}    \* a build by the background task
Live(p) == leg[p] \in {"ringing", "up"}
Placing(p) == place[p].pc \in {"ending", "dialing"}

\* What may go out of order: a request comes before the record, a callback after
\* a later one, a webhook after the end of the call, a turn begins after it; the
\* reply to the placing request is lost, a hang-up fails, the lead is edited.
Marks == {"early", "reordered", "late", "overran", "lost", "kept", "edited"}

TypeOK ==
  /\ place \in [Calls -> [pc : {"idle", "ending", "dialing", "done"},
                          todo : SUBSET Calls, greeting : SUBSET (Calls \cup {Nobody})]]
  /\ named \subseteq Calls /\ exotel \subseteq Calls
  /\ leg \in [Calls -> {"none", "ringing", "up", "over"}]
  /\ news \in [Calls -> SUBSET {"alive", "over"}]
  /\ hook \in [Calls -> {"none", "sent", "cold", "served"}]
  /\ rec \in [Calls -> [status : {"none", "active", "completed"}, own : BOOLEAN,
                        greeting : SUBSET (Calls \cup {Nobody}), session : BOOLEAN]]
  /\ stream \in [Calls -> {"none", "open", "closed"}]
  /\ profile \in Calls \cup {Nobody}
  /\ cache \subseteq Calls \cup {Nobody} /\ Cardinality(cache) <= 1
  /\ scheduled \in BOOLEAN
  /\ build \in [by : SUBSET (Calls \cup {Nobody}), of : Calls \cup {Nobody}]
  /\ Cardinality(build.by) <= 1
  \* the lock and the flag are not needed at once: while a webhook builds the
  \* first greeting there is no cache to refresh
  /\ build.by \subseteq Calls /\ build.by # {} => cache = {} /\ ~scheduled
  /\ served \in [Calls -> SUBSET (Calls \cup {Nobody})]
  /\ jobs \subseteq Calls
  /\ lead \in [Calls -> SUBSET (Calls \cup {Nobody})]
  /\ odd \in [Calls -> SUBSET Marks]
  /\ rivals \subseteq SUBSET Calls /\ faults \in 0..MaxFaults /\ turns \in 0..MaxTurns

\* The server has started and warm_greeting is building the first greeting.
Init ==
  /\ place = [p \in Calls |-> Idle]
  /\ named \in SUBSET Calls /\ exotel \in SUBSET Calls
  /\ leg = [p \in Calls |-> "none"]
  /\ news = [p \in Calls |-> {}] /\ hook = [p \in Calls |-> "none"]
  /\ rec = [p \in Calls |-> Absent] /\ stream = [p \in Calls |-> "none"]
  /\ profile = Nobody /\ cache = {} /\ scheduled = FALSE
  /\ build = [by |-> Refresh, of |-> Nobody]
  /\ served = [p \in Calls |-> {}] /\ jobs = {}
  /\ lead = [p \in Calls |-> {}]
  /\ odd = [p \in Calls |-> {}] /\ rivals = {} /\ faults = 0 /\ turns = 0

-----------------------------------------------------------------------------
(* POST /calls *)

\* CallRegistry.active_calls
ActiveOnceGreeted == {q \in Calls : rec[q].status = "active" /\ rec[q].session}    \* mutant
ActiveCalls == {q \in Calls : rec[q].status = "active"}

\* Only the ending of a call shows in whether its record is active.
ShownAlways(e) == "active"    \* mutant
Shown(e) == IF e = "over" THEN "completed" ELSE "active"

\* mutant: made before the facts are set
PreparedTooSoon(p) == IF p \in named \ exotel THEN {Voice(profile)} ELSE {}
\* A greeting that addresses the contact is made before dialing; the facts
\* are read when its generation starts.
Prepared(p) == IF p \in named \ exotel THEN {Voice(p)} ELSE {}
Dialing(p) ==
  /\ profile' = p
  /\ place' = [place EXCEPT ![p] =
       [pc |-> "dialing", todo |-> {}, greeting |-> Prepared(p)]]

PlaceCall(p) ==
  /\ place[p].pc = "idle"
  /\ rivals' = rivals \cup {{p, q} : q \in {c \in Calls : Placing(c)}}
  /\ IF ActiveCalls = {} THEN Dialing(p)
     ELSE /\ place' = [place EXCEPT ![p].pc = "ending", ![p].todo = ActiveCalls]
          /\ UNCHANGED profile
  /\ UNCHANGED <<kinds, carrier, rec, stream, greetings, served, jobs, lead, odd, faults, turns>>

\* complete_call: Twilio ends the call, unless the request fails, which is only
\* logged; for Exotel it does nothing.
HangsUp(q, ok) ==
  LET ends == ok /\ q \notin exotel /\ Live(q)
  IN  /\ leg' = [leg EXCEPT ![q] = IF ends THEN "over" ELSE @]
      /\ news' = [news EXCEPT ![q] = IF ends THEN @ \cup {"over"} ELSE @]
      /\ IF ok THEN UNCHANGED <<odd, faults>>
         ELSE /\ q \notin exotel /\ Live(q) /\ faults < MaxFaults
              /\ faults' = faults + 1
              /\ odd' = [odd EXCEPT ![q] = @ \cup {"kept"}]

\* _drop_pending cancels the job of a turn, before the carrier is asked: a turn
\* that comes while it is asked goes on.
DropsPending(q) == jobs' \in {jobs, jobs \ {q}}

Completed(q) == [rec EXCEPT ![q].status = IF @ = "none" THEN @ ELSE "completed"]

\* The loop over the calls that were active when the request came.
EndPrior(p, q) ==
  /\ place[p].pc = "ending" /\ q \in place[p].todo
  /\ \E ok \in BOOLEAN : HangsUp(q, ok)
  /\ DropsPending(q) /\ rec' = Completed(q)
  /\ IF place[p].todo = {q} THEN Dialing(p)
     ELSE /\ place' = [place EXCEPT ![p].todo = @ \ {q}]
          /\ UNCHANGED profile
  /\ UNCHANGED <<kinds, hook, stream, greetings, served, lead, rivals, turns>>

\* start_call: the carrier creates the call, some time before its reply.
Creates(p) ==
  /\ place[p].pc = "dialing" /\ leg[p] = "none"
  /\ leg' = [leg EXCEPT ![p] = "ringing"]
  /\ news' = [news EXCEPT ![p] = IF p \in exotel THEN {} ELSE {"alive"}]
  /\ UNCHANGED <<place, kinds, hook, rec, stream, profile, greetings, served, jobs, lead,
                 history>>

Registers(p) ==
  /\ place[p].pc = "dialing" /\ leg[p] # "none"
  /\ rec' = [rec EXCEPT ![p] = [Blank EXCEPT !.own = TRUE, !.greeting = place[p].greeting]]
  /\ place' = [place EXCEPT ![p] = [Idle EXCEPT !.pc = "done"]]
  /\ UNCHANGED <<kinds, carrier, stream, profile, greetings, served, jobs, lead, history>>

\* The carrier refuses, or its reply is lost and the call goes on unregistered.
DialFails(p) ==
  /\ place[p].pc = "dialing"
  /\ place' = [place EXCEPT ![p] = [Idle EXCEPT !.pc = "done"]]
  /\ IF leg[p] = "none" THEN UNCHANGED <<odd, faults>>
     ELSE /\ faults < MaxFaults /\ faults' = faults + 1
          /\ odd' = [odd EXCEPT ![p] = @ \cup {"lost"}]
  /\ UNCHANGED <<kinds, carrier, rec, stream, profile, greetings, served, jobs, lead, rivals,
                 turns>>

\* DELETE /calls/{sid}
HangUp(q) ==
  /\ rec[q].status # "none"
  /\ \E ok \in BOOLEAN : HangsUp(q, ok)
  /\ DropsPending(q) /\ rec' = Completed(q)
  /\ UNCHANGED <<place, kinds, hook, stream, profile, greetings, served, lead, rivals, turns>>

-----------------------------------------------------------------------------
(* The carrier *)

\* A Twilio call that is answered asks for its greeting.
Answer(p) ==
  /\ leg[p] = "ringing" /\ leg' = [leg EXCEPT ![p] = "up"]
  /\ IF p \in exotel THEN UNCHANGED <<news, hook>>
     ELSE /\ news' = [news EXCEPT ![p] = @ \cup {"alive"}]
          /\ hook' = [hook EXCEPT ![p] = "sent"]
  /\ UNCHANGED <<place, kinds, rec, stream, profile, greetings, served, jobs, lead, history>>

\* Twilio asks again when the answer does not reach it.
AsksAgain(p) ==
  /\ hook[p] = "served" /\ leg[p] = "up" /\ p \notin jobs /\ faults < MaxFaults
  /\ hook' = [hook EXCEPT ![p] = "sent"] /\ faults' = faults + 1
  /\ UNCHANGED <<place, kinds, leg, news, rec, stream, profile, greetings, served, jobs, lead,
                 odd, rivals, turns>>

\* Not answered, hung up by either side, or ended by the last TwiML.
CallEnds(p) ==
  /\ Live(p) /\ leg' = [leg EXCEPT ![p] = "over"]
  /\ news' = [news EXCEPT ![p] = IF p \in exotel THEN @ ELSE @ \cup {"over"}]
  /\ UNCHANGED <<place, kinds, hook, rec, stream, profile, greetings, served, jobs, lead,
                 history>>

\* POST /calls/status: a record that is not there is not updated.
StatusCallback(p, e) ==
  /\ e \in news[p] /\ news' = [news EXCEPT ![p] = @ \ {e}]
  /\ rec' = [rec EXCEPT ![p].status = IF @ = "none" THEN @ ELSE Shown(e)]
  /\ odd' = [odd EXCEPT ![p] = @
       \cup (IF rec[p].status = "none" THEN {"early"} ELSE {})
       \cup (IF e = "alive" /\ leg[p] = "over" /\ "over" \notin news[p]
             THEN {"reordered"} ELSE {})]
  /\ UNCHANGED <<place, kinds, leg, hook, stream, profile, greetings, served, jobs, lead,
                 rivals, faults, turns>>

-----------------------------------------------------------------------------
(* The greeting webhook and the cache *)

\* A webhook without a record adds one that knows nothing of the call.
Known(p) == IF rec[p].status = "none" THEN Blank ELSE rec[p]
Unregistered(p) == IF rec[p].status = "none" THEN {"early"} ELSE {}

\* The session of the call is created, once, from the facts in its record,
\* which become the engine's.
SeedFactsShared(p) == profile    \* mutant
SeedFacts(p) == IF rec[p].own THEN p ELSE Nobody
Seed(p, greeting) ==
  LET first == ~Known(p).session
  IN  /\ rec' = [rec EXCEPT ![p] = [Known(p) EXCEPT !.status = "active", !.session = TRUE]]
      /\ profile' = IF first THEN SeedFacts(p) ELSE profile
      /\ lead' = [lead EXCEPT ![p] = IF first THEN {profile'} ELSE @]
      /\ served' = [served EXCEPT ![p] = greeting]
      /\ hook' = [hook EXCEPT ![p] = "served"]
      /\ odd' = [odd EXCEPT ![p] = @
           \cup Unregistered(p) \cup (IF leg[p] = "over" THEN {"late"} ELSE {})]

\* POST /calls/twiml: the request is at the server.
Asked(p) == hook[p] = "sent"

\* Its own greeting; the cached one, to be replaced by a new one; or a line
\* without a name while the first greeting is being built.
GreetingWebhook(p) ==
  /\ Asked(p)
  /\ IF rec[p].greeting # {}
     THEN Seed(p, rec[p].greeting) /\ UNCHANGED scheduled
     ELSE \/ cache # {} /\ Seed(p, cache) /\ scheduled' = TRUE
          \/ cache = {} /\ build.by = Refresh /\ Seed(p, {Nobody}) /\ UNCHANGED scheduled
  /\ UNCHANGED <<place, kinds, leg, news, stream, cache, build, jobs, rivals, faults, turns>>

\* Neither a cache nor a refresh: the webhook waits for the lock to build one.
GreetingNeeded(p) ==
  /\ Asked(p) /\ rec[p].greeting = {} /\ cache = {} /\ build.by # Refresh
  /\ hook' = [hook EXCEPT ![p] = "cold"]
  /\ odd' = [odd EXCEPT ![p] = @ \cup Unregistered(p)]
  /\ UNCHANGED <<place, kinds, leg, news, rec, stream, profile, greetings, served, jobs, lead,
                 rivals, faults, turns>>

\* The second look, with the lock held.
MustBuildAlways == TRUE    \* mutant
MustBuild == cache = {}

GreetingLocked(p) ==
  /\ hook[p] = "cold" /\ build.by = {}
  /\ \/ /\ MustBuild /\ build' = [by |-> {p}, of |-> Generated]
        /\ UNCHANGED <<rec, profile, lead, served, hook, odd>>
     \/ ~MustBuild /\ Seed(p, cache) /\ UNCHANGED build
  /\ UNCHANGED <<place, kinds, leg, news, stream, cache, scheduled, jobs, rivals, faults, turns>>

\* A refresh that finds another one running does nothing.  The facts are read
\* here, not when the refresh was scheduled.
RefreshStarts ==
  /\ scheduled /\ scheduled' = FALSE
  /\ build' = IF build.by = {} THEN [by |-> Refresh, of |-> Generated] ELSE build
  /\ UNCHANGED <<place, kinds, carrier, rec, stream, profile, cache, served, jobs, lead,
                 history>>

RefreshEnds ==
  /\ build.by = Refresh /\ build' = NoBuild /\ cache' = {build.of}
  /\ UNCHANGED <<place, kinds, carrier, rec, stream, profile, scheduled, served, jobs, lead,
                 history>>

GreetingBuilt(p) ==
  /\ build.by = {p} /\ build' = NoBuild /\ cache' = {build.of}
  /\ Seed(p, {build.of})
  /\ UNCHANGED <<place, kinds, leg, news, stream, scheduled, jobs, rivals, faults, turns>>

\* Neither AppError nor a missing sound is one: the audio file is not written.
BuildFails ==
  /\ build.by # {} /\ faults < MaxFaults /\ faults' = faults + 1
  /\ build' = NoBuild
  /\ hook' = [p \in Calls |-> IF p \in build.by THEN "served" ELSE hook[p]]
  /\ UNCHANGED <<place, kinds, leg, news, rec, stream, profile, cache, scheduled, served, jobs,
                 lead, odd, rivals, turns>>

-----------------------------------------------------------------------------
(* The turns of a Twilio call, and the leads on the dashboard *)

\* POST /calls/turn, for what the caller says, or does not say, to a greeting
\* that listens; sent while the call is up, it may come when it is over.  Speech
\* becomes a job; after silence the call is only made to have a session, a new
\* one without a lead.
Listening(p) == hook[p] = "served" /\ served[p] # {} /\ leg[p] \in {"up", "over"}
TurnWebhook(p) ==
  /\ Listening(p) /\ p \notin jobs /\ turns < MaxTurns /\ turns' = turns + 1
  /\ \E heard \in BOOLEAN :
       /\ jobs' = IF heard THEN jobs \cup {p} ELSE jobs
       /\ rec' = [rec EXCEPT ![p] = [Known(p) EXCEPT !.status = "active",
                                                     !.session = @ \/ ~heard]]
       /\ lead' = [lead EXCEPT ![p] = IF heard \/ Known(p).session THEN @ ELSE {}]
  /\ odd' = [odd EXCEPT ![p] = @ \cup Unregistered(p)
                                 \cup (IF leg[p] = "over" THEN {"late"} ELSE {})]
  /\ UNCHANGED <<place, kinds, carrier, stream, profile, greetings, served, rivals, faults>>

TurnLeadsAnew(p) == {{profile}, {}}    \* mutant
\* The turn's lead: the session's, or a new one made from the engine's facts,
\* which is missing again when the turn is not stored.
TurnLeads(p) ==
  IF Known(p).session /\ lead[p] # {} THEN {lead[p]} ELSE {{profile}, {}}

\* The first step of the job, up to the request to the LLM.
TurnStarts(p) ==
  /\ p \in jobs /\ jobs' = jobs \ {p}
  /\ rec' = [rec EXCEPT ![p] = [Known(p) EXCEPT !.session = TRUE]]
  /\ \E l \in TurnLeads(p) : lead' = [lead EXCEPT ![p] = l]
  /\ odd' = [odd EXCEPT ![p] = @ \cup Unregistered(p)
                                 \cup (IF leg[p] = "over" THEN {"overran"} ELSE {})]
  /\ UNCHANGED <<place, kinds, carrier, stream, profile, greetings, served, rivals, faults,
                 turns>>

\* A reset fills the row again, from the engine's facts; deleting the session or
\* the lead removes it.
EditLead(p) ==
  /\ lead[p] # {} /\ turns < MaxTurns /\ turns' = turns + 1
  /\ \E l \in {{profile}, {}} : lead' = [lead EXCEPT ![p] = l]
  /\ odd' = [odd EXCEPT ![p] = @ \cup {"edited"}]
  /\ UNCHANGED <<place, kinds, carrier, rec, stream, profile, greetings, served, jobs, rivals,
                 faults>>

-----------------------------------------------------------------------------
(* The media stream of an Exotel call *)

\* An Exotel call that is answered opens its stream.
Connects(p) == p \in exotel /\ leg[p] = "up" /\ stream[p] = "none"

\* The lead and the greeting are made from the engine's facts.
StreamStarts(p) ==
  /\ Connects(p)
  /\ stream' = [stream EXCEPT ![p] = "open"]
  /\ rec' = [rec EXCEPT ![p] = [Known(p) EXCEPT !.status = "active", !.session = TRUE]]
  /\ lead' = [lead EXCEPT ![p] = {profile}]
  /\ served' = [served EXCEPT ![p] = {Generated}]
  /\ odd' = [odd EXCEPT ![p] = @ \cup Unregistered(p)]
  /\ UNCHANGED <<place, kinds, carrier, profile, greetings, jobs, rivals, faults, turns>>

\* The caller hangs up, or the connection breaks.
StreamCloses(p) ==
  /\ stream[p] = "open" /\ stream' = [stream EXCEPT ![p] = "closed"]
  /\ rec' = Completed(p) /\ leg' = [leg EXCEPT ![p] = "over"]
  /\ UNCHANGED <<place, kinds, news, hook, profile, greetings, served, jobs, lead, history>>

-----------------------------------------------------------------------------
CallStep(p) ==
  \/ PlaceCall(p) \/ Creates(p) \/ Registers(p) \/ DialFails(p)
  \/ HangUp(p) \/ Answer(p) \/ AsksAgain(p) \/ CallEnds(p)
  \/ GreetingWebhook(p) \/ GreetingNeeded(p) \/ GreetingLocked(p) \/ GreetingBuilt(p)
  \/ TurnWebhook(p) \/ TurnStarts(p) \/ EditLead(p)
  \/ StreamStarts(p) \/ StreamCloses(p)
  \/ \E q \in Calls : EndPrior(p, q)
  \/ \E e \in {"alive", "over"} : StatusCallback(p, e)

\* A scheduled task starts in the next pass of the event loop.  Only tasks that
\* are ready by then come before it, with one step each, and of these steps
\* only those that set the facts matter.
Next == \/ RefreshStarts
        \/ /\ (\E p \in Calls : CallStep(p)) \/ RefreshEnds \/ BuildFails
           /\ scheduled => profile' # profile

Spec == Init /\ [][Next]_vars

-----------------------------------------------------------------------------
(* Properties *)

Excused(p, causes) == odd[p] \cap causes # {}

\* Placing a call ends the ones before it, in whatever order their callbacks,
\* webhooks and hang-ups come: two Twilio calls are live at once only when the
\* requests that placed them overlapped, or Twilio's reply was lost.
TwoLiveWereRivals ==
  \A p, q \in Calls \ exotel :
    p # q /\ Live(p) /\ Live(q) =>
      {p, q} \in rivals \/ \E c \in {p, q} : Excused(c, {"lost", "kept"})

\* The list of active calls is in time free of a call that is over, although
\* superseding, hanging up, callbacks and webhooks all write its status: it is
\* shown for ever only after a callback came before the record or out of order,
\* or the webhook came too late; or if it is an Exotel call nobody answered.
OverIsShown ==
  \A p \in Calls :
    leg[p] = "over" /\ news[p] = {} /\ ~Placing(p) /\ rec[p].status = "active" =>
      \/ Excused(p, {"early", "reordered", "late"})
      \/ p \in exotel /\ stream[p] # "closed"

\* Whatever the shared facts and the cache hold by the time it is answered, a
\* call placed with a name is greeted by that name; its greeting is missed only
\* when the webhook comes while there is no record.
GreetedByName ==
  \A p \in named \ exotel :
    served[p] # {} => served[p] = {p} \/ Excused(p, {"early"})

\* The facts are the engine's, shared by all calls, and the greeting webhook,
\* every turn that finds no lead and a reset fill a lead from them.  The lead of
\* a Twilio call nevertheless gets its own facts, as long as every request found
\* its record and nobody touched it on the dashboard.  If one came before the
\* record, it may get nobody's; and another call's only when the requests that
\* placed the two overlapped, a hang-up failed, its own turn began after its end,
\* or the other's webhook came after the other's end.
LeadHasOwnFacts ==
  \A p \in Calls \ exotel : \A q \in lead[p] :
    \/ q = p \/ Excused(p, {"edited"})
    \/ /\ Excused(p, {"early"})
       /\ \/ q = Nobody \/ {p, q} \in rivals
          \/ Excused(p, {"kept", "overran"}) \/ Excused(q, {"kept", "late"})

\* "Single-active-call: hang up anything still ringing/in-progress so stacked
\* dashboard clicks cannot fight each other" (api/call_routes.py).  Refuted.
SingleActive ==
  (\A p \in Calls : ~Excused(p, {"lost", "kept"})) =>
    Cardinality({p \in Calls \ exotel : Live(p)}) <= 1

=============================================================================

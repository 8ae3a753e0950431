---------------------------- MODULE Conversation ----------------------------
(***************************************************************************)
(* One lead-qualification session whose requests are served one at a time: *)
(* turns (whatever the LLM replies), confirmations from the summary form   *)
(* and resets.  The row is the session row joined with its lead row.       *)
(***************************************************************************)
EXTENDS LeadRules

VARIABLES row,      \* the session and lead rows as last committed
          history   \* columns the last request wrote a LeadFieldHistory row for

vars == <<row, history>>

TypeOK ==
  /\ row \in Rows
  /\ history \in SUBSET Fields

\* Sessions of the REST API, of a media stream and of a seeded greeting start
\* after the greeting was spoken; one created by a Gather turn starts in it.
Init ==
  /\ row \in {FreshRow("greeting"), FreshRow("collecting_identity")}
  /\ history = {}

\* process_turn: the whole handler, from the parsed reply to the commit.
Turn(reply) ==
  /\ row' = AfterTurn(row, reply)
  /\ history' = IF row.status = "abandoned" THEN {}
                ELSE Recorded(row.fields, reply.edit)

\* POST /confirm with confirmed = true.
Confirm ==
  /\ row' = AfterConfirm(row)
  /\ history' = {}

\* POST /reset.
Reset ==
  /\ row' = AfterReset
  /\ history' = {}

Next ==
  \/ \E reply \in Replies : Turn(reply)
  \/ Confirm
  \/ Reset

Spec == Init /\ [][Next]_vars
-----------------------------------------------------------------------------
(* Properties *)

\* The two records of how a session ended never disagree: the session status
\* and the lead's conversation status are equal, a recorded end is an end of
\* the state machine, only an abandoned state is recorded as abandoned, and
\* the summary counts as confirmed exactly when the session was completed.
EndAgrees ==
  /\ row.status = row.outcome
  /\ row.status = "completed" => row.state = "completed"
  /\ row.status = "abandoned" <=> row.state = "abandoned"
  /\ row.reviewed <=> row.status = "completed"

\* The stored consent flag never contradicts an answered consent question,
\* although two handlers write it (the turn and the confirmation form).
FlagAgrees ==
  /\ ConsentBool(row.fields) => row.consented
  /\ row.fields[Consent] = "no" => ~row.consented

\* A column listed as refused holds no text, whatever order refusals,
\* answers, clearings and resets came in.
SkippedAreEmpty == \A f \in row.skipped : row.fields[f] = None

\* No request but a reset moves a conversation backward, except from the
\* summary to the consent question, and none leaves a terminal state.
ForwardStep ==
  row' # AfterReset =>
    /\ \/ Rank[row'.state] >= Rank[row.state]
       \/ row.state = "reviewing_summary" /\ row'.state = "requesting_consent"
    /\ row.state \in Terminal => row'.state = row.state

NoRewind == [][ForwardStep]_vars

\* By whichever path (suggestion, fallback, auto-advance) the summary is reached,
\* the consent answer of that moment is one the engine takes for a yes, and is
\* recorded as consent: never a refusal, a vague answer or an answer that was
\* cleared, although an earlier yes may still be recorded.  Not every such answer
\* says yes: see SummaryNeedsYes.
AcceptedSummaryStep ==
  row'.state = "reviewing_summary" /\ row.state # "reviewing_summary"
    => ConsentBool(row'.fields) /\ row'.consented

SummaryNeedsAcceptedAnswer == [][AcceptedSummaryStep]_vars

\* The state machine reaches "completed" by a turn only with identity,
\* contact, requirement and consent known; otherwise it was the form.
CheckedCompletionStep ==
  row'.state = "completed" /\ row.state # "completed"
    => AllCriteria(row'.fields) \/ row' = AfterConfirm(row)

CompletedByTurnMeetsCriteria == [][CheckedCompletionStep]_vars

\* The engine implements the lifecycle it promises.
Phase == IF row.state = "requesting_consent" THEN "asking"
         ELSE IF row.state = "reviewing_summary" THEN "review"
         ELSE IF row.state = "completed" THEN "closed"
         ELSE IF row.state = "abandoned" THEN "dropped"
         ELSE "collecting"

Lifecycle == INSTANCE LeadLifecycle WITH
               phase <- Phase, agreed <- ConsentBool(row.fields),
               outcome <- row.status

Implements == Lifecycle!Spec

-----------------------------------------------------------------------------
(* What the documentation says, and the code does not do *)

\* "Consent must be answered 'yes' before the summary is reviewed"
\* (state_machine.py:97), an "explicit consent gate ... before the summary is
\* shown" (README.md:78).
SummaryNeedsYes ==
  [][row'.state = "reviewing_summary" /\ row.state # "reviewing_summary"
       => row'.fields[Consent] = "yes"]_vars

\* README.md:315: "Completion is only allowed when identity + a contact method
\* + a requirement are known and the user has explicitly consented".
CompletionNeedsConsent ==
  [][row'.status = "completed" /\ row.status # "completed"
       => AllCriteria(row'.fields)]_vars
=============================================================================

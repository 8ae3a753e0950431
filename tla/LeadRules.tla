------------------------------ MODULE LeadRules ------------------------------
(***************************************************************************)
(* The rules one conversation turn applies to a session row and its lead   *)
(* row: the sales-pipeline state machine (state_machine.py), the merge of  *)
(* what the LLM extracted, the consent flag and the completion gate        *)
(* (conversation.py), the confirmation and the reset of a session.         *)
(*                                                                         *)
(* Pure operators, no state: Conversation applies them one request at a    *)
(* time, SessionRequests to overlapping requests on a shared database row. *)
(*                                                                         *)
(* A lead column holds "none", or a class of texts: "good" and "bad" pass  *)
(* and fail the column's validator; the consent column holds "yes" (the    *)
(* answer yes, or another text that says it), "no" (the answer no),        *)
(* "maybe" (a text that does not say yes, but in which consent_bool finds  *)
(* a yes token, such as "maybe" or "no way", which contain a y) or "vague" *)
(* (any remaining text).                                                   *)
(***************************************************************************)
EXTENDS Naturals, FiniteSets

CONSTANTS NameFields,     \* columns that identify the lead
          ContactFields,  \* columns that reach the lead
          NeedFields,     \* columns that state what the lead wants
          KnownFields,    \* columns the call profile fills in advance
          MaxEdits        \* bound: columns one LLM reply touches

Consent == "consent_to_contact"
Basics == NameFields \cup ContactFields \cup NeedFields
Fields == Basics \cup {Consent}

ASSUME FieldsAssumption ==
  /\ NameFields # {} /\ ContactFields # {} /\ NeedFields # {}
  /\ Consent \notin Basics
  /\ KnownFields \subseteq Basics

ASSUME EditsAssumption == MaxEdits \in Nat

-----------------------------------------------------------------------------
(* Lead data *)

None == "none"
BasicTexts == {"good", "bad"}
ConsentTexts == {"yes", "no", "maybe", "vague"}
Texts == BasicTexts \cup ConsentTexts
TextsOf(f) == IF f = Consent THEN ConsentTexts ELSE BasicTexts

Values == Texts \cup {None}
LeadFields == [Fields -> Values]

\* What completion_basics_met asks of the lead: a valid identity, a valid
\* contact and a requirement.
BasicsMet(l) ==
  \A group \in {NameFields, ContactFields, NeedFields} :
     \E f \in group : l[f] = "good"

\* is_decisive_yes looks for a yes token anywhere in the text.
ConsentBool(l) == l[Consent] \in {"yes", "maybe"}
\* The exact answers; only asked of a text that consent_bool does not accept.
IsConsentValue(l) == l[Consent] \in {"yes", "no"}
AllCriteria(l) == BasicsMet(l) /\ ConsentBool(l)

\* What one reply does to a column: extracted_fields may leave it out, mark
\* it refused, or give a text; fields_to_clear empties it first.
Absent == "absent"
Refused == "refused"
EditOps == [clear : BOOLEAN, text : Texts \cup {Absent, Refused}]
EditOpsOf(f) == [clear : BOOLEAN, text : TextsOf(f) \cup {Absent, Refused}]

\* The edits a reply may carry: an operation for at most MaxEdits columns.
Edits == UNION {{e \in [S -> EditOps] : \A f \in S : e[f] \in EditOpsOf(f)} :
                  S \in {T \in SUBSET Fields : Cardinality(T) <= MaxEdits}}

\* Mutant of Extracted: the refusal marker is stored as if it were a text.
ExtractedKeepsMarker(l, e) ==
  [f \in Fields |->
     IF f \notin DOMAIN e THEN l[f]
     ELSE IF e[f].text = Absent THEN IF e[f].clear THEN None ELSE l[f]
     ELSE e[f].text]

Extracted(l, e) ==
  [f \in Fields |->
     IF f \notin DOMAIN e THEN l[f]
     ELSE IF e[f].text = Absent THEN IF e[f].clear THEN None ELSE l[f]
     ELSE IF e[f].text = Refused THEN None
     ELSE e[f].text]

\* Mutant of Skipped: a column stays listed when a text arrives.
SkippedForever(skip, e) == skip \cup {f \in DOMAIN e : e[f].text = Refused}

\* A refused column is remembered in skipped_fields until a text arrives.
Skipped(skip, e) ==
  LET refused == {f \in DOMAIN e : e[f].text = Refused}
      given   == {f \in DOMAIN e : e[f].text \notin {Absent, Refused}}
  IN  (skip \cup refused) \ given

\* The columns for which a LeadFieldHistory row is added: a text replaced
\* another one that was not cleared by the same reply.
Recorded(l, e) ==
  {f \in DOMAIN e : /\ e[f].text \notin {Absent, Refused}
                    /\ ~e[f].clear
                    /\ l[f] \notin {None, e[f].text}}

\* A fresh lead holds only what the call profile knows.
FreshFields == [f \in Fields |-> IF f \in KnownFields THEN "good" ELSE None]

-----------------------------------------------------------------------------
(* The state machine *)

STATES == <<"greeting",
            "collecting_identity", "collecting_contact",
            "collecting_business_context", "collecting_requirement",
            "collecting_budget", "collecting_timeline",
            "collecting_authority", "collecting_preferences",
            "requesting_consent", "reviewing_summary",
            "completed", "abandoned">>

States == {STATES[i] : i \in 1..13}
Pipeline == {STATES[i] : i \in 2..9}
Terminal == {"completed", "abandoned"}

\* How far along the sales pipeline a state is.
Rank == [s \in States |-> CHOOSE i \in 1..13 : STATES[i] = s]

\* The stage that follows a stage of the pipeline other than the last.
NextStage(current) == STATES[Rank[current] + 1]

\* Mutants of TransitionAllowed: the pipeline may rewind; a finished session
\* may go on; completion does not look at the lead.
TransitionMayRewind(current, next, l) ==
  /\ current \notin Terminal
  /\ \/ next = current
     \/ {current, next} \subseteq Pipeline
     \/ next = "requesting_consent" /\ BasicsMet(l)
     \/ next = "reviewing_summary" /\ AllCriteria(l)
     \/ next = "completed" /\ current = "reviewing_summary" /\ AllCriteria(l)
     \/ next = "abandoned"

TransitionFromTerminal(current, next, l) ==
  \/ next = current
  \/ {current, next} \subseteq Pipeline /\ Rank[next] >= Rank[current]
  \/ next = "requesting_consent" /\ BasicsMet(l)
  \/ next = "reviewing_summary" /\ AllCriteria(l)
  \/ next = "abandoned"

TransitionCompletesUnchecked(current, next, l) ==
  /\ current \notin Terminal
  /\ \/ next = current
     \/ {current, next} \subseteq Pipeline /\ Rank[next] >= Rank[current]
     \/ next = "requesting_consent" /\ BasicsMet(l)
     \/ next = "reviewing_summary" /\ AllCriteria(l)
     \/ next = "completed" /\ current = "reviewing_summary"
     \/ next = "abandoned"

TransitionAllowed(current, next, l) ==
  /\ current \notin Terminal
  /\ \/ next = current
     \/ {current, next} \subseteq Pipeline /\ Rank[next] >= Rank[current]
     \/ next = "requesting_consent" /\ BasicsMet(l)
     \/ next = "reviewing_summary" /\ AllCriteria(l)
     \/ next = "completed" /\ current = "reviewing_summary" /\ AllCriteria(l)
     \/ next = "abandoned"

\* Mutant of DefaultNextState: the last stage falls through to the summary
\* once the basics are known, whatever the consent answer is.
DefaultSkipsConsent(current, l) ==
  IF current = "greeting" THEN "collecting_identity"
  ELSE IF current = "collecting_preferences" THEN
         IF BasicsMet(l) THEN "reviewing_summary" ELSE "requesting_consent"
  ELSE IF current \in Pipeline THEN NextStage(current)
  ELSE IF current = "requesting_consent" /\ ConsentBool(l)
       THEN "reviewing_summary"
  ELSE current

DefaultNextState(current, l) ==
  IF current = "greeting" THEN "collecting_identity"
  ELSE IF current = "collecting_preferences" THEN
         IF AllCriteria(l) THEN "reviewing_summary" ELSE "requesting_consent"
  ELSE IF current \in Pipeline THEN NextStage(current)
  ELSE IF current = "requesting_consent" /\ ConsentBool(l)
       THEN "reviewing_summary"
  ELSE current

-----------------------------------------------------------------------------
(* One turn, on the row of a session joined with its lead *)

Statuses == {"active", "completed", "abandoned"}

Rows == [state : States, status : Statuses, skipped : SUBSET Fields,
         fields : LeadFields, outcome : Statuses,
         consented : BOOLEAN, reviewed : BOOLEAN]

FreshRow(state) ==
  [state |-> state, status |-> "active", skipped |-> {},
   fields |-> FreshFields, outcome |-> "active",
   consented |-> FALSE, reviewed |-> FALSE]

\* What the LLM returns: edits, a suggested state ("" when it names none or
\* one the parser does not know) and whether it calls the conversation done.
NoSuggestion == ""
Replies == [edit : Edits, next : States \cup {NoSuggestion}, complete : BOOLEAN]

\* The suggestion is taken when it is legal; a refused "completed" or
\* "abandoned" moves the pipeline on by default, anything else stays put.
Steered(current, next, l) ==
  IF TransitionAllowed(current, next, l) THEN next
  ELSE IF next \in Terminal THEN DefaultNextState(current, l)
  ELSE current

\* An answered consent question moves straight on to the summary.
ConsentAnswered(state, l) ==
  IF /\ state = "requesting_consent"
     /\ ConsentBool(l) \/ IsConsentValue(l)
     /\ TransitionAllowed("requesting_consent", "reviewing_summary", l)
  THEN "reviewing_summary" ELSE state

NextState(state, reply, l) ==
  LET begun   == IF state = "greeting" THEN "collecting_identity" ELSE state
      wanted  == IF reply.next = NoSuggestion THEN begun ELSE reply.next
      steered == ConsentAnswered(Steered(begun, wanted, l), l)
  IN  IF reply.complete /\ TransitionAllowed(steered, "completed", l)
      THEN "completed" ELSE steered

\* Mutant of ConsentFlag: a yes is never taken back.
ConsentFlagSticks(consented, l) == consented \/ ConsentBool(l)

ConsentFlag(consented, l) ==
  IF ConsentBool(l) THEN TRUE
  ELSE IF IsConsentValue(l) THEN FALSE
  ELSE consented

\* The row after a turn. An abandoned session only gets a canned answer.
AfterTurn(row, reply) ==
  LET l     == Extracted(row.fields, reply.edit)
      state == NextState(row.state, reply, l)
      done  == reply.complete /\ state = "completed"
      end(old) == IF done THEN "completed"
                  ELSE IF state = "abandoned" THEN "abandoned" ELSE old
  IN  IF row.status = "abandoned" THEN row
      ELSE [state     |-> state,
            status    |-> end(row.status),
            skipped   |-> Skipped(row.skipped, reply.edit),
            fields    |-> l,
            outcome   |-> end(row.outcome),
            consented |-> ConsentFlag(row.consented, l),
            reviewed  |-> row.reviewed \/ done]

\* handle_confirmation: from these states a confirmation closes the session.
Confirmable == {"reviewing_summary", "requesting_consent", "completed"}

\* Mutant of AfterConfirm: the session is closed, the lead is not.
ConfirmForgetsLead(row) ==
  IF row.state \notin Confirmable THEN row
  ELSE [row EXCEPT !.state = "completed", !.status = "completed",
                   !.consented = @ \/ ConsentBool(row.fields)]

AfterConfirm(row) ==
  IF row.state \notin Confirmable THEN row
  ELSE [row EXCEPT !.state = "completed", !.status = "completed",
                   !.outcome = "completed", !.reviewed = TRUE,
                   !.consented = @ \/ ConsentBool(row.fields)]

\* reset_session: everything back to a new session in "greeting".
AfterReset == FreshRow("greeting")
=============================================================================

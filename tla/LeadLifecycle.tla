---------------------------- MODULE LeadLifecycle ----------------------------
(***************************************************************************)
(* What a qualification session promises, seen from the outside: it        *)
(* collects details, asks for consent, presents a summary and is closed or *)
(* dropped; the summary is only presented to a lead that agrees; the       *)
(* outcome is written once and only a reset takes it back.                 *)
(***************************************************************************)
VARIABLES phase,    \* how far the conversation is
          agreed,   \* the lead's consent answer currently reads as a yes
          outcome   \* what the records say of the session

vars == <<phase, agreed, outcome>>

Phases == {"collecting", "asking", "review", "closed", "dropped"}
Outcomes == {"active", "completed", "abandoned"}

Init == phase = "collecting" /\ agreed = FALSE /\ outcome = "active"

\* Details come and go, the consent answer with them.
Talk ==
  /\ phase # "dropped"
  /\ agreed' \in BOOLEAN
  /\ UNCHANGED <<phase, outcome>>

Ask ==
  /\ phase \in {"collecting", "review"} /\ phase' = "asking"
  /\ agreed' \in BOOLEAN
  /\ UNCHANGED outcome

Present ==
  /\ phase \in {"collecting", "asking"} /\ phase' = "review"
  /\ agreed' = TRUE
  /\ UNCHANGED outcome

\* The conversation ends but the outcome is still to be recorded.
Finish ==
  /\ phase = "review" /\ phase' = "closed"
  /\ agreed' = TRUE
  /\ UNCHANGED outcome

\* Closed by an agreeing lead, by the confirmation form, or by recording an
\* end that Finish left open.
Close ==
  /\ phase # "dropped" /\ phase' = "closed"
  /\ outcome' = "completed"
  /\ \/ agreed' = TRUE
     \/ phase \in {"asking", "review"} /\ UNCHANGED agreed
     \/ phase = "closed" /\ agreed' = FALSE

Drop ==
  /\ phase \notin {"closed", "dropped"} /\ phase' = "dropped"
  /\ agreed' \in BOOLEAN
  /\ outcome' = "abandoned"

Reopen ==
  /\ phase' = "collecting" /\ agreed' = FALSE /\ outcome' = "active"

Next == Talk \/ Ask \/ Present \/ Finish \/ Close \/ Drop \/ Reopen

Spec == Init /\ [][Next]_vars
=============================================================================

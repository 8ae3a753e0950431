-------------------------- MODULE MCSessionRequests --------------------------
(***************************************************************************)
(* A small instance of SessionRequests: sessions about to be asked for     *)
(* consent, asked for it, or about to be closed, and the replies that      *)
(* matter there.                                                           *)
(***************************************************************************)
EXTENDS SessionRequests, TLC

Known == [f \in Fields |-> IF f = Consent THEN None ELSE "good"]

\* Rows that a serial conversation reaches: one asked for consent, one shown
\* the summary.
MCStartRows ==
  {[FreshRow("requesting_consent") EXCEPT !.fields = Known],
   [FreshRow("reviewing_summary") EXCEPT
      !.fields = [Known EXCEPT ![Consent] = "yes"], !.consented = TRUE]}

Reply(edit, next, complete) ==
  [edit |-> edit, next |-> next, complete |-> complete]

Say(f, text) == (f :> [clear |-> FALSE, text |-> text])

\* A no, a yes that ends the conversation, a refusal and a lead that quits.
MCReplies ==
  {Reply(Say(Consent, "no"), "requesting_consent", FALSE),
   Reply(Say(Consent, "yes"), "completed", TRUE),
   Reply(Say(Consent, Refused), NoSuggestion, FALSE),
   Reply(Say(Consent, Refused), "abandoned", FALSE)}
=============================================================================

--------------------------- MODULE LeadRulesProofs ---------------------------
(***************************************************************************)
(* Facts about the rules of a turn, a confirmation and a reset, for every  *)
(* set of lead columns and every number of edits per reply.  The proofs    *)
(* about Conversation and SessionRequests rest on them.                    *)
(***************************************************************************)
EXTENDS LeadRules, TLAPS

-----------------------------------------------------------------------------
(* The lead's columns *)

\* An edit is a function over some of the columns.
LEMMA EditType ==
  ASSUME NEW e \in Edits
  PROVE  /\ DOMAIN e \subseteq Fields
         /\ \A f \in DOMAIN e : e[f] \in EditOpsOf(f)
<1>1. PICK S \in {T \in SUBSET Fields : Cardinality(T) <= MaxEdits} :
         e \in {d \in [S -> EditOps] : \A f \in S : d[f] \in EditOpsOf(f)}
  BY DEF Edits
<1>. QED  BY <1>1

\* Applying an edit yields lead columns again.
LEMMA ExtractedType ==
  ASSUME NEW l \in LeadFields, NEW e \in Edits
  PROVE  Extracted(l, e) \in LeadFields
<1>1. ASSUME NEW f \in Fields
      PROVE  Extracted(l, e)[f] \in Values
  <2>1. CASE f \notin DOMAIN e
    BY <2>1 DEF Extracted, LeadFields
  <2>2. CASE f \in DOMAIN e
    <3>1. e[f].text \in Texts \cup {Absent, Refused}
      BY <2>2, EditType DEF EditOpsOf, TextsOf, Texts
    <3>. QED
      BY <2>2, <3>1 DEF Extracted, LeadFields, Values, None, Texts,
                        BasicTexts, ConsentTexts, Absent, Refused
  <2>. QED  BY <2>1, <2>2
<1>. QED  BY <1>1 DEF Extracted, LeadFields

LEMMA SkippedType ==
  ASSUME NEW skip \in SUBSET Fields, NEW e \in Edits
  PROVE  Skipped(skip, e) \in SUBSET Fields
BY EditType DEF Skipped

\* What is listed as refused stays empty.
LEMMA SkippedEmpty ==
  ASSUME NEW skip \in SUBSET Fields, NEW l \in LeadFields, NEW e \in Edits,
         \A f \in skip : l[f] = None
  PROVE  \A f \in Skipped(skip, e) : Extracted(l, e)[f] = None
<1>. SUFFICES ASSUME NEW f \in Skipped(skip, e)
              PROVE  Extracted(l, e)[f] = None
  OBVIOUS
<1>1. f \in Fields
  BY SkippedType
<1>2. CASE f \notin DOMAIN e
  BY <1>1, <1>2 DEF Extracted, Skipped
<1>3. CASE f \in DOMAIN e
  <2>1. e[f].text \in {Absent, Refused}
    BY <1>3 DEF Skipped
  <2>2. e[f].text = Absent => f \in skip
    BY <1>3 DEF Skipped, Absent, Refused
  <2>. QED
    BY <1>1, <1>3, <2>1, <2>2 DEF Extracted, Absent, Refused
<1>. QED  BY <1>2, <1>3

LEMMA FreshFieldsType ==
  /\ FreshFields \in LeadFields
  /\ FreshFields[Consent] = None
BY FieldsAssumption DEF FreshFields, LeadFields, Values, Texts, BasicTexts,
                        None, Fields

-----------------------------------------------------------------------------
(* The state machine *)

LEMMA StateSets ==
  /\ States = {"greeting", "requesting_consent", "reviewing_summary",
               "completed", "abandoned"} \cup Pipeline
  /\ Pipeline = {"collecting_identity", "collecting_contact",
                 "collecting_business_context", "collecting_requirement",
                 "collecting_budget", "collecting_timeline",
                 "collecting_authority", "collecting_preferences"}
<1>1. 1..13 = {1, 2, 3, 4, 5, 6, 7, 8, 9, 10, 11, 12, 13}
  OBVIOUS
<1>2. 2..9 = {2, 3, 4, 5, 6, 7, 8, 9}
  OBVIOUS
<1>. QED  BY <1>1, <1>2 DEF States, Pipeline, STATES

\* The position of every state in the sales order.
LEMMA Ranks ==
  \A i \in 1..13 : Rank[STATES[i]] = i
<1>1. \A i, j \in 1..13 : STATES[i] = STATES[j] => i = j
  BY DEF STATES
<1>2. SUFFICES ASSUME NEW i \in 1..13
              PROVE  Rank[STATES[i]] = i
  OBVIOUS
<1>3. Rank[STATES[i]] \in 1..13 /\ STATES[Rank[STATES[i]]] = STATES[i]
  BY DEF Rank, States
<1>. QED  BY <1>1, <1>3

LEMMA RankOf ==
  \A s \in States : Rank[s] \in 1..13 /\ STATES[Rank[s]] = s
BY Ranks DEF States

\* The stage after a stage is one of the pipeline, one rank up.
LEMMA NextStageIsNext ==
  ASSUME NEW s \in Pipeline, s # "collecting_preferences"
  PROVE  /\ NextStage(s) \in Pipeline
         /\ Rank[NextStage(s)] = Rank[s] + 1
<1>1. PICK i \in 2..9 : s = STATES[i]
  BY DEF Pipeline
<1>2. i # 9
  BY <1>1 DEF STATES
<1>3. Rank[s] = i /\ i + 1 \in 2..9 /\ i + 1 \in 1..13
  BY <1>1, <1>2, Ranks
<1>. QED  BY <1>3, Ranks DEF NextStage, Pipeline

LEMMA RankValues ==
  /\ Rank["greeting"] = 1 /\ Rank["collecting_identity"] = 2
  /\ Rank["requesting_consent"] = 10 /\ Rank["reviewing_summary"] = 11
  /\ Rank["completed"] = 12 /\ Rank["abandoned"] = 13
<1>1. /\ STATES[1] = "greeting" /\ STATES[2] = "collecting_identity"
      /\ STATES[10] = "requesting_consent" /\ STATES[11] = "reviewing_summary"
      /\ STATES[12] = "completed" /\ STATES[13] = "abandoned"
  BY DEF STATES
<1>2. {1, 2, 10, 11, 12, 13} \subseteq 1..13
  OBVIOUS
<1>. QED  BY <1>1, <1>2, Ranks

\* How one turn may move the conversation from s to n, given the lead's
\* columns l: forward only, never out of a terminal state, to the summary with
\* a yes and to completion with everything known.
Move(s, n, l) ==
  /\ n \in States
  /\ \/ Rank[n] >= Rank[s]
     \/ s = "reviewing_summary" /\ n = "requesting_consent"
  /\ s \in Terminal => n = s
  /\ n = "reviewing_summary" /\ s # n => ConsentBool(l)
  /\ n = "completed" /\ s # n => AllCriteria(l)

LEMMA MoveReflexive ==
  ASSUME NEW s \in States, NEW l
  PROVE  Move(s, s, l)
BY RankOf DEF Move

\* Moves compose.
LEMMA MoveTransitive ==
  ASSUME NEW s \in States, NEW t, NEW n, NEW l,
         Move(s, t, l), Move(t, n, l)
  PROVE  Move(s, n, l)
<1>1. t \in States /\ n \in States
  BY DEF Move
<1>2. /\ Rank[s] \in 1..13 /\ STATES[Rank[s]] = s
      /\ Rank[t] \in 1..13 /\ STATES[Rank[t]] = t
      /\ Rank[n] \in 1..13 /\ STATES[Rank[n]] = n
  BY <1>1, RankOf
<1>3. STATES[10] = "requesting_consent" /\ STATES[11] = "reviewing_summary"
  BY DEF STATES
<1>4. \/ Rank[n] >= Rank[s]
      \/ s = "reviewing_summary" /\ n = "requesting_consent"
  <2>1. CASE Rank[n] >= Rank[t] /\ Rank[t] >= Rank[s]
    BY <1>2, <2>1
  <2>2. CASE s = "reviewing_summary" /\ t = "requesting_consent"
    <3>1. Rank[s] = 11 /\ Rank[t] = 10 /\ Rank[n] >= 10
      BY <1>2, <2>2, RankValues DEF Move
    <3>2. Rank[n] = 10 => n = "requesting_consent"
      BY <1>2, <1>3
    <3>. QED  BY <1>2, <2>2, <3>1, <3>2
  <2>3. CASE t = "reviewing_summary" /\ n = "requesting_consent"
    <3>1. Rank[t] = 11 /\ Rank[n] = 10 /\ Rank[s] <= 11
      BY <1>2, <2>3, RankValues DEF Move
    <3>2. Rank[s] = 11 => s = "reviewing_summary"
      BY <1>2, <1>3
    <3>. QED  BY <1>2, <2>3, <3>1, <3>2
  <2>. QED  BY <2>1, <2>2, <2>3 DEF Move
<1>. QED  BY <1>4 DEF Move

\* A legal transition is a move.
LEMMA TransitionMoves ==
  ASSUME NEW s \in States, NEW n \in States, NEW l,
         TransitionAllowed(s, n, l)
  PROVE  Move(s, n, l)
<1>1. s \notin Terminal
  BY DEF TransitionAllowed
<1>2. /\ n = "reviewing_summary" /\ s # n => ConsentBool(l)
      /\ n = "completed" => s = "reviewing_summary" /\ AllCriteria(l)
  BY <1>1, StateSets DEF TransitionAllowed, AllCriteria, Terminal
<1>3. \/ Rank[n] >= Rank[s]
      \/ s = "reviewing_summary" /\ n = "requesting_consent"
  <2>1. /\ Rank[s] \in 1..13 /\ STATES[Rank[s]] = s
        /\ Rank[n] \in 1..13 /\ STATES[Rank[n]] = n
    BY RankOf
  <2>2. /\ Rank[s] <= 11
        /\ Rank[s] = 11 => s = "reviewing_summary"
    <3>1. STATES[11] = "reviewing_summary"
      BY DEF STATES
    <3>2. STATES[12] \in Terminal /\ STATES[13] \in Terminal
      BY DEF STATES, Terminal
    <3>. QED  BY <1>1, <2>1, <3>1, <3>2
  <2>3. CASE n = s \/ ({s, n} \subseteq Pipeline /\ Rank[n] >= Rank[s])
    BY <2>1, <2>3
  <2>4. CASE n \in {"requesting_consent", "reviewing_summary",
                    "completed", "abandoned"}
    BY <2>1, <2>2, <2>4, RankValues
  <2>. QED  BY <2>3, <2>4 DEF TransitionAllowed
<1>. QED  BY <1>1, <1>2, <1>3 DEF Move

\* So is the fallback.
LEMMA DefaultMoves ==
  ASSUME NEW s \in States, NEW l
  PROVE  Move(s, DefaultNextState(s, l), l)
<1>. DEFINE n == DefaultNextState(s, l)
<1>0. Rank[s] \in 1..13
  BY RankOf
<1>1. CASE s = "greeting"
  BY <1>1, RankValues, StateSets DEF DefaultNextState, Move, Terminal
<1>2. CASE s = "collecting_preferences"
  <2>1. Rank[s] = 9
    BY <1>2, Ranks DEF STATES
  <2>. QED
    BY <1>2, <2>1, RankValues, StateSets
       DEF DefaultNextState, Move, Terminal, AllCriteria
<1>3. CASE s \in Pipeline /\ s # "collecting_preferences"
  <2>1. n = NextStage(s)
    BY <1>3, StateSets DEF DefaultNextState
  <2>2. n \in Pipeline /\ Rank[n] = Rank[s] + 1
    BY <1>3, <2>1, NextStageIsNext
  <2>. QED  BY <1>0, <1>3, <2>2, StateSets DEF Move, Terminal
<1>4. CASE s = "requesting_consent"
  BY <1>4, RankValues, StateSets DEF DefaultNextState, Move, Terminal
<1>5. CASE s \in {"reviewing_summary", "completed", "abandoned"}
  <2>1. n = s
    BY <1>5, StateSets DEF DefaultNextState
  <2>. QED  BY <2>1, MoveReflexive
<1>. QED  BY <1>1, <1>2, <1>3, <1>4, <1>5, StateSets

\* Every turn is a move, through the suggestion, the fallback, the answered
\* consent question and the completion gate.
LEMMA TurnMoves ==
  ASSUME NEW s \in States, NEW l, NEW reply \in Replies
  PROVE  Move(s, NextState(s, reply, l), l)
<1>. DEFINE begun   == IF s = "greeting" THEN "collecting_identity" ELSE s
            wanted  == IF reply.next = NoSuggestion THEN begun ELSE reply.next
            st      == Steered(begun, wanted, l)
            steered == ConsentAnswered(st, l)
<1>1. begun \in States /\ Move(s, begun, l)
  BY MoveReflexive, RankValues, StateSets DEF Move, Terminal
<1>2. wanted \in States
  BY <1>1 DEF Replies, NoSuggestion
<1>3. st \in States /\ Move(begun, st, l)
  <2>1. st \in {wanted, DefaultNextState(begun, l), begun}
    BY DEF Steered
  <2>2. st = wanted /\ TransitionAllowed(begun, wanted, l)
          => Move(begun, st, l)
    BY <1>1, <1>2, TransitionMoves
  <2>3. Move(begun, DefaultNextState(begun, l), l) /\ Move(begun, begun, l)
    BY <1>1, DefaultMoves, MoveReflexive
  <2>4. Move(begun, st, l)
    BY <2>2, <2>3 DEF Steered
  <2>. QED  BY <2>4 DEF Move
<1>4. steered \in States /\ Move(st, steered, l)
  <2>1. CASE steered = st
    BY <1>3, <2>1, MoveReflexive
  <2>2. CASE steered # st
    <3>1. /\ st = "requesting_consent" /\ steered = "reviewing_summary"
          /\ TransitionAllowed(st, steered, l)
      BY <2>2 DEF ConsentAnswered
    <3>2. steered \in States
      BY <3>1, StateSets
    <3>. QED  BY <1>3, <3>1, <3>2, TransitionMoves
  <2>. QED  BY <2>1, <2>2
<1>5. Move(s, steered, l)
  BY <1>1, <1>3, <1>4, MoveTransitive
<1>6. CASE reply.complete /\ TransitionAllowed(steered, "completed", l)
  <2>1. NextState(s, reply, l) = "completed"
    BY <1>6 DEF NextState
  <2>2. Move(steered, "completed", l)
    BY <1>4, <1>6, StateSets, TransitionMoves
  <2>. QED  BY <1>5, <2>1, <2>2, MoveTransitive
<1>7. CASE ~(reply.complete /\ TransitionAllowed(steered, "completed", l))
  <2>1. NextState(s, reply, l) = steered
    BY <1>7 DEF NextState
  <2>. QED  BY <1>5, <2>1
<1>. QED  BY <1>6, <1>7

-----------------------------------------------------------------------------
(* The row after each request *)

\* The row a turn leaves when the session is not abandoned, part by part.
LEMMA TurnParts ==
  ASSUME NEW r \in Rows, NEW reply \in Replies, r.status # "abandoned"
  PROVE  LET n == AfterTurn(r, reply)
             done == reply.complete /\ n.state = "completed"
         IN  /\ n.fields = Extracted(r.fields, reply.edit)
             /\ n.state = NextState(r.state, reply, n.fields)
             /\ n.skipped = Skipped(r.skipped, reply.edit)
             /\ n.consented = ConsentFlag(r.consented, n.fields)
             /\ n.reviewed = (r.reviewed \/ done)
             /\ n.status = IF done THEN "completed"
                           ELSE IF n.state = "abandoned" THEN "abandoned"
                           ELSE r.status
             /\ n.outcome = IF done THEN "completed"
                            ELSE IF n.state = "abandoned" THEN "abandoned"
                            ELSE r.outcome
             /\ DOMAIN n = {"state", "status", "skipped", "fields", "outcome",
                            "consented", "reviewed"}
BY DEF AfterTurn

LEMMA TurnType ==
  ASSUME NEW r \in Rows, NEW reply \in Replies
  PROVE  AfterTurn(r, reply) \in Rows
<1>. DEFINE n == AfterTurn(r, reply)
<1>1. CASE r.status = "abandoned"
  BY <1>1 DEF AfterTurn
<1>2. CASE r.status # "abandoned"
  <2>1. n.fields \in LeadFields
    BY <1>2, TurnParts, ExtractedType DEF Rows, Replies
  <2>2. n.state \in States
    BY <1>2, TurnParts, TurnMoves DEF Rows, Move
  <2>3. n.skipped \in SUBSET Fields
    BY <1>2, TurnParts, SkippedType DEF Rows, Replies
  <2>4. n.consented \in BOOLEAN
    BY <1>2, TurnParts DEF Rows, ConsentFlag
  <2>5. n.reviewed \in BOOLEAN
    BY <1>2, TurnParts DEF Rows, Replies
  <2>6. n.status \in Statuses /\ n.outcome \in Statuses
    BY <1>2, TurnParts DEF Rows, Statuses
  <2>. QED
    BY <1>2, <2>1, <2>2, <2>3, <2>4, <2>5, <2>6 DEF AfterTurn, Rows
<1>. QED  BY <1>1, <1>2

LEMMA ConfirmType ==
  ASSUME NEW r \in Rows
  PROVE  AfterConfirm(r) \in Rows
BY StateSets DEF AfterConfirm, Rows, Statuses, Confirmable

LEMMA FreshType ==
  ASSUME NEW s \in {"greeting", "collecting_identity"}
  PROVE  FreshRow(s) \in Rows
BY FreshFieldsType, StateSets DEF FreshRow, Rows, Statuses

=============================================================================

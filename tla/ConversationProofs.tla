------------------------- MODULE ConversationProofs -------------------------
(***************************************************************************)
(* Proofs about Conversation, for every set of lead columns and every      *)
(* number of edits per reply.                                              *)
(***************************************************************************)
EXTENDS Conversation, LeadRulesProofs

-----------------------------------------------------------------------------
(* Type correctness *)

\* The rows stay well formed whatever requests arrive.
THEOREM TypeCorrect == Spec => []TypeOK
<1>1. Init => TypeOK
  BY FreshType DEF Init, TypeOK
<1>2. TypeOK /\ [Next]_vars => TypeOK'
  <2>. SUFFICES ASSUME TypeOK, [Next]_vars
                PROVE  TypeOK'
    OBVIOUS
  <2>1. ASSUME NEW reply \in Replies, Turn(reply)
        PROVE  TypeOK'
    <3>1. row' \in Rows
      BY <2>1, TurnType DEF Turn, TypeOK
    <3>2. Recorded(row.fields, reply.edit) \in SUBSET Fields
      BY EditType DEF Recorded, Replies
    <3>. QED  BY <2>1, <3>1, <3>2 DEF Turn, TypeOK
  <2>2. CASE Confirm
    BY <2>2, ConfirmType DEF Confirm, TypeOK
  <2>3. CASE Reset
    BY <2>3, FreshType DEF Reset, TypeOK, AfterReset
  <2>4. CASE UNCHANGED vars
    BY <2>4 DEF vars, TypeOK
  <2>. QED  BY <2>1, <2>2, <2>3, <2>4 DEF Next
<1>. QED  BY <1>1, <1>2, PTL DEF Spec

-----------------------------------------------------------------------------
(* The invariants of the rows *)

\* How a session ended, the consent flag and the refused columns stay in step:
\* their conjunction with the types is inductive.
RowInv == TypeOK /\ EndAgrees /\ FlagAgrees /\ SkippedAreEmpty

LEMMA FreshInv ==
  ASSUME row \in {FreshRow("greeting"), FreshRow("collecting_identity")},
         history = {}
  PROVE  RowInv
<1>1. TypeOK
  BY FreshType DEF TypeOK
<1>2. /\ EndAgrees /\ SkippedAreEmpty
  BY DEF EndAgrees, SkippedAreEmpty, FreshRow
<1>3. FlagAgrees
  BY FreshFieldsType DEF FlagAgrees, FreshRow, ConsentBool, None
<1>. QED  BY <1>1, <1>2, <1>3 DEF RowInv

LEMMA TurnKeepsRowInv ==
  ASSUME RowInv, TypeOK', NEW reply \in Replies, Turn(reply)
  PROVE  RowInv'
<1>. DEFINE done == reply.complete /\ row'.state = "completed"
<1>. USE DEF RowInv
<1>1. CASE row.status = "abandoned"
  <2>1. row' = row
    BY <1>1 DEF Turn, AfterTurn
  <2>. QED
    BY <2>1 DEF EndAgrees, FlagAgrees, SkippedAreEmpty, ConsentBool
<1>2. CASE row.status # "abandoned"
  <2>1. /\ row \in Rows /\ row' = AfterTurn(row, reply)
        /\ reply.edit \in Edits
    BY DEF TypeOK, Turn, Replies
  <2>2. /\ row'.fields = Extracted(row.fields, reply.edit)
        /\ row'.state = NextState(row.state, reply, row'.fields)
        /\ row'.skipped = Skipped(row.skipped, reply.edit)
        /\ row'.consented = ConsentFlag(row.consented, row'.fields)
        /\ row'.reviewed = (row.reviewed \/ done)
        /\ row'.status = IF done THEN "completed"
                         ELSE IF row'.state = "abandoned" THEN "abandoned"
                         ELSE row.status
        /\ row'.outcome = IF done THEN "completed"
                          ELSE IF row'.state = "abandoned" THEN "abandoned"
                          ELSE row.outcome
    BY <1>2, <2>1, TurnParts
  <2>3. row.state \in Terminal => row'.state = row.state
    BY <2>1, <2>2, TurnMoves DEF Rows, Move
  <2>4. EndAgrees'
    BY <1>2, <2>1, <2>2, <2>3 DEF EndAgrees, Terminal, Rows, Statuses, Replies
  <2>5. FlagAgrees'
    BY <2>2 DEF FlagAgrees, ConsentFlag, ConsentBool, IsConsentValue
  <2>6. SkippedAreEmpty'
    <3>1. /\ row.skipped \in SUBSET Fields /\ row.fields \in LeadFields
          /\ \A f \in row.skipped : row.fields[f] = None
      BY <2>1 DEF Rows, SkippedAreEmpty
    <3>2. \A f \in Skipped(row.skipped, reply.edit) :
             Extracted(row.fields, reply.edit)[f] = None
      BY <2>1, <3>1, SkippedEmpty
    <3>. QED  BY <2>2, <3>2 DEF SkippedAreEmpty
  <2>. QED  BY <2>4, <2>5, <2>6
<1>. QED  BY <1>1, <1>2

LEMMA ConfirmKeepsRowInv ==
  ASSUME RowInv, TypeOK', Confirm
  PROVE  RowInv'
<1>. USE DEF RowInv
<1>1. CASE row.state \notin Confirmable
  BY <1>1 DEF Confirm, AfterConfirm, EndAgrees, FlagAgrees, SkippedAreEmpty,
              ConsentBool
<1>2. CASE row.state \in Confirmable
  <2>1. row \in Rows
    BY DEF TypeOK
  <2>2. /\ row'.state = "completed" /\ row'.status = "completed"
        /\ row'.outcome = "completed" /\ row'.reviewed = TRUE
        /\ row'.consented = (row.consented \/ ConsentBool(row.fields))
        /\ row'.fields = row.fields /\ row'.skipped = row.skipped
    BY <1>2, <2>1 DEF Confirm, AfterConfirm, Rows
  <2>. QED
    BY <2>2 DEF EndAgrees, FlagAgrees, SkippedAreEmpty, ConsentBool
<1>. QED  BY <1>1, <1>2

\* The inductive invariant of a session: the two records of its end agree, the
\* consent flag agrees with the answer, and a refused column is empty.
THEOREM RowInvariant == Spec => []RowInv
<1>1. Init => RowInv
  BY FreshInv DEF Init
<1>2. RowInv /\ TypeOK' /\ [Next]_vars => RowInv'
  <2>. SUFFICES ASSUME RowInv, TypeOK', [Next]_vars
                PROVE  RowInv'
    OBVIOUS
  <2>1. ASSUME NEW reply \in Replies, Turn(reply)
        PROVE  RowInv'
    BY <2>1, TurnKeepsRowInv
  <2>2. CASE Confirm
    BY <2>2, ConfirmKeepsRowInv
  <2>3. CASE Reset
    <3>1. row' = FreshRow("greeting") /\ history' = {}
      BY <2>3 DEF Reset, AfterReset
    <3>2. EndAgrees' /\ SkippedAreEmpty'
      BY <3>1 DEF EndAgrees, SkippedAreEmpty, FreshRow
    <3>3. FlagAgrees'
      BY <3>1, FreshFieldsType DEF FlagAgrees, FreshRow, ConsentBool, None
    <3>. QED  BY <3>2, <3>3 DEF RowInv
  <2>4. CASE UNCHANGED vars
    BY <2>4 DEF vars, RowInv, TypeOK, EndAgrees, FlagAgrees, SkippedAreEmpty,
                ConsentBool
  <2>. QED  BY <2>1, <2>2, <2>3, <2>4 DEF Next
<1>. QED  BY <1>1, <1>2, TypeCorrect, PTL DEF Spec

\* EndAgrees: status, outcome, state and the confirmed summary tell the same end,
\* after every turn, confirmation and reset.
THEOREM EndsAgree == Spec => []EndAgrees
<1>1. RowInv => EndAgrees
  BY DEF RowInv
<1>. QED  BY <1>1, RowInvariant, PTL

\* FlagAgrees: the consent flag never contradicts an answered consent question.
THEOREM FlagsAgree == Spec => []FlagAgrees
<1>1. RowInv => FlagAgrees
  BY DEF RowInv
<1>. QED  BY <1>1, RowInvariant, PTL

\* SkippedAreEmpty: a column the lead refused to fill holds no text.
THEOREM RefusedAreEmpty == Spec => []SkippedAreEmpty
<1>1. RowInv => SkippedAreEmpty
  BY DEF RowInv
<1>. QED  BY <1>1, RowInvariant, PTL

-----------------------------------------------------------------------------
(* What a request may never do *)

\* A turn moves the state as TurnMoves says and sets the flag on a yes.
LEMMA TurnStep ==
  ASSUME TypeOK, NEW reply \in Replies, Turn(reply)
  PROVE  \/ row' = row
         \/ /\ Move(row.state, row'.state, row'.fields)
            /\ ConsentBool(row'.fields) => row'.consented
<1>1. CASE row.status = "abandoned"
  BY <1>1 DEF Turn, AfterTurn
<1>2. CASE row.status # "abandoned"
  BY <1>2, TurnParts, TurnMoves DEF TypeOK, Turn, Rows, ConsentFlag
<1>. QED  BY <1>1, <1>2

LEMMA ConfirmStep ==
  ASSUME TypeOK, Confirm
  PROVE  \/ row' = row
         \/ /\ row.state \in Confirmable /\ row'.state = "completed"
            /\ row' = AfterConfirm(row)
BY DEF TypeOK, Confirm, AfterConfirm, Rows

\* No turn and no confirmation rewinds a conversation.
THEOREM NeverRewinds == Spec => NoRewind
<1>1. TypeOK /\ [Next]_vars => [ForwardStep]_vars
  <2>. SUFFICES ASSUME TypeOK, Next
                PROVE  ForwardStep
    BY DEF ForwardStep
  <2>0. row.state \in States /\ Rank[row.state] >= Rank[row.state]
    BY RankOf DEF TypeOK, Rows
  <2>1. ASSUME NEW reply \in Replies, Turn(reply)
        PROVE  ForwardStep
    BY <2>0, <2>1, TurnStep DEF ForwardStep, Move
  <2>2. CASE Confirm
    <3>1. \A s \in Confirmable :
             /\ Rank["completed"] >= Rank[s]
             /\ s \in Terminal => s = "completed"
      BY RankValues DEF Confirmable, Terminal
    <3>. QED  BY <2>0, <2>2, <3>1, ConfirmStep DEF ForwardStep
  <2>3. CASE Reset
    BY <2>3 DEF Reset, ForwardStep
  <2>. QED  BY <2>1, <2>2, <2>3 DEF Next
<1>. QED  BY <1>1, TypeCorrect, PTL DEF Spec, NoRewind

\* SummaryNeedsAcceptedAnswer: whatever the LLM replies, a turn reaches the summary
\* only with an answer that consent_bool takes for a yes, recorded as consent.
THEOREM SummaryAccepted == Spec => SummaryNeedsAcceptedAnswer
<1>1. TypeOK /\ [Next]_vars => [AcceptedSummaryStep]_vars
  <2>. SUFFICES ASSUME TypeOK, Next
                PROVE  AcceptedSummaryStep
    BY DEF AcceptedSummaryStep
  <2>1. ASSUME NEW reply \in Replies, Turn(reply)
        PROVE  AcceptedSummaryStep
    BY <2>1, TurnStep DEF AcceptedSummaryStep, Move
  <2>2. CASE Confirm
    BY <2>2, ConfirmStep DEF AcceptedSummaryStep
  <2>3. CASE Reset
    BY <2>3 DEF Reset, AfterReset, FreshRow, AcceptedSummaryStep
  <2>. QED  BY <2>1, <2>2, <2>3 DEF Next
<1>. QED  BY <1>1, TypeCorrect, PTL DEF Spec, SummaryNeedsAcceptedAnswer

\* Whatever the LLM replies, a turn completes only with everything known.
THEOREM CompletionChecked == Spec => CompletedByTurnMeetsCriteria
<1>1. TypeOK /\ [Next]_vars => [CheckedCompletionStep]_vars
  <2>. SUFFICES ASSUME TypeOK, Next
                PROVE  CheckedCompletionStep
    BY DEF CheckedCompletionStep
  <2>1. ASSUME NEW reply \in Replies, Turn(reply)
        PROVE  CheckedCompletionStep
    BY <2>1, TurnStep DEF CheckedCompletionStep, Move
  <2>2. CASE Confirm
    BY <2>2, ConfirmStep DEF CheckedCompletionStep
  <2>3. CASE Reset
    BY <2>3 DEF Reset, AfterReset, FreshRow, CheckedCompletionStep
  <2>. QED  BY <2>1, <2>2, <2>3 DEF Next
<1>. QED  BY <1>1, TypeCorrect, PTL DEF Spec, CompletedByTurnMeetsCriteria

-----------------------------------------------------------------------------
(* The conversation implements the lifecycle *)

\* A reply that does not call the conversation done reaches "completed" only
\* from the summary.
LEMMA UnflaggedCompletion ==
  ASSUME NEW s \in States, NEW l, NEW reply \in Replies,
         ~reply.complete, s # "completed",
         NextState(s, reply, l) = "completed"
  PROVE  s = "reviewing_summary"
<1>. DEFINE begun  == IF s = "greeting" THEN "collecting_identity" ELSE s
            wanted == IF reply.next = NoSuggestion THEN begun ELSE reply.next
            st     == Steered(begun, wanted, l)
<1>1. begun \in States /\ begun # "completed"
  BY StateSets
<1>2. st = "completed"
  BY DEF NextState, ConsentAnswered
<1>3. DefaultNextState(begun, l) # "completed"
  <2>1. begun \in Pipeline /\ begun # "collecting_preferences"
          => NextStage(begun) # "completed"
    BY NextStageIsNext, StateSets
  <2>. QED  BY <1>1, <2>1 DEF DefaultNextState
<1>4. TransitionAllowed(begun, "completed", l)
  BY <1>1, <1>2, <1>3 DEF Steered
<1>. QED  BY <1>1, <1>4, StateSets DEF TransitionAllowed

\* The phases of the states.
LEMMA Phases ==
  ASSUME row.state \in States
  PROVE  /\ Phase = "collecting"
              <=> row.state \in States \ {"requesting_consent",
                     "reviewing_summary", "completed", "abandoned"}
         /\ Phase = "asking" <=> row.state = "requesting_consent"
         /\ Phase = "review" <=> row.state = "reviewing_summary"
         /\ Phase = "closed" <=> row.state = "completed"
         /\ Phase = "dropped" <=> row.state = "abandoned"
BY DEF Phase

\* A move stays in its phase or goes to a later one, but for the way back
\* from the summary.
LEMMA MovePhases ==
  ASSUME NEW s \in States, NEW n, NEW l, Move(s, n, l)
  PROVE  /\ n \in States
         /\ n \in Pipeline \cup {"greeting"} => s \in Pipeline \cup {"greeting"}
         /\ n \in {"requesting_consent", "reviewing_summary"}
              => s \notin Terminal
         /\ s \in Terminal => n = s
<1>1. n \in States /\ Rank[s] \in 1..13 /\ STATES[Rank[s]] = s
  BY RankOf DEF Move
<1>2. n \in Pipeline \cup {"greeting"} => Rank[n] \in 1..9
  <2>1. n \in Pipeline => Rank[n] \in 1..9
    <3>1. \A i \in 2..9 : i \in 1..13 /\ i \in 1..9
      OBVIOUS
    <3>. QED  BY <3>1, Ranks DEF Pipeline
  <2>. QED  BY <2>1, RankValues
<1>3. Rank[s] \in 1..9 => s \in Pipeline \cup {"greeting"}
  <2>1. Rank[s] \in 2..9 => s \in Pipeline
    BY <1>1 DEF Pipeline
  <2>2. Rank[s] = 1 => s = "greeting"
    BY <1>1 DEF STATES
  <2>. QED  BY <1>1, <2>1, <2>2
<1>4. n \in Pipeline \cup {"greeting"} => s \in Pipeline \cup {"greeting"}
  BY <1>1, <1>2, <1>3, StateSets DEF Move
<1>. QED  BY <1>1, <1>4 DEF Move, Terminal

LEMMA TurnImplements ==
  ASSUME RowInv, RowInv', NEW reply \in Replies, Turn(reply)
  PROVE  [Lifecycle!Next]_(Lifecycle!vars)
<1>1. CASE row' = row
  BY <1>1 DEF Lifecycle!vars, Phase, ConsentBool
<1>2. CASE row' # row
  <2>0. /\ row \in Rows /\ row' \in Rows
        /\ row.state \in States /\ row'.state \in States
    BY DEF RowInv, TypeOK, Rows
  <2>1. row.status # "abandoned"
    BY <1>2 DEF Turn, AfterTurn
  <2>2. /\ row'.state = NextState(row.state, reply, row'.fields)
        /\ row'.status = IF reply.complete /\ row'.state = "completed"
                         THEN "completed"
                         ELSE IF row'.state = "abandoned" THEN "abandoned"
                         ELSE row.status
    BY <2>0, <2>1, TurnParts DEF Turn
  <2>3. Move(row.state, row'.state, row'.fields)
    BY <2>0, <2>2, TurnMoves
  <2>4. ConsentBool(row'.fields) \in BOOLEAN
    BY DEF ConsentBool
  <2>5. row.state # "abandoned"
    BY <2>1 DEF RowInv, EndAgrees
  <2>. USE DEF Lifecycle!Next
  <2>6. CASE row'.state \in Pipeline \cup {"greeting"}
    <3>1. row.state \in Pipeline \cup {"greeting"}
      BY <2>0, <2>3, <2>6, MovePhases
    <3>2. Phase' = Phase /\ Phase # "dropped" /\ row'.status = row.status
      BY <2>2, <2>6, <3>1, StateSets DEF Phase
    <3>. QED  BY <2>4, <3>2 DEF Lifecycle!Talk
  <2>7. CASE row'.state = "requesting_consent"
    <3>1. row.state \notin Terminal
      BY <2>0, <2>3, <2>7, MovePhases
    <3>2. Phase' = "asking" /\ row'.status = row.status
      BY <2>2, <2>7 DEF Phase
    <3>3. Phase \in {"collecting", "asking", "review"}
      BY <3>1 DEF Phase, Terminal
    <3>. QED  BY <2>4, <3>2, <3>3 DEF Lifecycle!Talk, Lifecycle!Ask
  <2>8. CASE row'.state = "reviewing_summary"
    <3>1. row.state \notin Terminal
      BY <2>0, <2>3, <2>8, MovePhases
    <3>2. Phase' = "review" /\ row'.status = row.status
      BY <2>2, <2>8 DEF Phase
    <3>3. CASE row.state = "reviewing_summary"
      BY <2>4, <3>2, <3>3 DEF Lifecycle!Talk, Phase
    <3>4. CASE row.state # "reviewing_summary"
      <4>1. ConsentBool(row'.fields)
        BY <2>3, <2>8, <3>4 DEF Move
      <4>2. Phase \in {"collecting", "asking"}
        BY <3>1, <3>4 DEF Phase, Terminal
      <4>. QED  BY <2>4, <3>2, <4>1, <4>2 DEF Lifecycle!Present
    <3>. QED  BY <3>3, <3>4
  <2>9. CASE row'.state = "completed"
    <3>1. Phase' = "closed" /\ Phase # "dropped"
      BY <2>5, <2>9 DEF Phase
    <3>2. row.state # "completed" => ConsentBool(row'.fields)
      BY <2>3, <2>9 DEF Move, AllCriteria
    <3>3. CASE row'.status = "completed"
      <4>1. row.state = "completed" => Phase = "closed"
        BY DEF Phase
      <4>. QED  BY <2>4, <3>1, <3>2, <3>3, <4>1 DEF Lifecycle!Close
    <3>4. CASE row'.status # "completed"
      <4>1. ~reply.complete /\ row'.status = row.status
        BY <2>2, <2>9, <3>4
      <4>2. CASE row.state = "completed"
        BY <2>4, <3>1, <4>1, <4>2 DEF Lifecycle!Talk, Phase
      <4>3. CASE row.state # "completed"
        <5>1. row.state = "reviewing_summary"
          BY <2>0, <2>2, <2>9, <4>1, <4>3, UnflaggedCompletion
        <5>2. Phase = "review"
          BY <5>1 DEF Phase
        <5>. QED
          BY <2>4, <3>1, <3>2, <4>1, <4>3, <5>2 DEF Lifecycle!Finish
      <4>. QED  BY <4>2, <4>3
    <3>. QED  BY <3>3, <3>4
  <2>10. CASE row'.state = "abandoned"
    <3>1. row.state \notin Terminal
      BY <2>0, <2>3, <2>5, <2>10, MovePhases DEF Terminal
    <3>2. Phase' = "dropped" /\ row'.status = "abandoned"
      BY <2>2, <2>10 DEF Phase
    <3>3. Phase \notin {"closed", "dropped"}
      BY <3>1 DEF Phase, Terminal
    <3>. QED  BY <2>4, <3>2, <3>3 DEF Lifecycle!Drop
  <2>. QED  BY <2>0, <2>6, <2>7, <2>8, <2>9, <2>10, StateSets
<1>. QED  BY <1>1, <1>2

LEMMA ConfirmImplements ==
  ASSUME RowInv, Confirm
  PROVE  [Lifecycle!Next]_(Lifecycle!vars)
<1>1. CASE row' = row
  BY <1>1 DEF Lifecycle!vars, Phase, ConsentBool
<1>2. CASE row' # row
  <2>1. /\ row.state \in Confirmable /\ row'.state = "completed"
        /\ row'.status = "completed" /\ row'.fields = row.fields
    BY <1>2, ConfirmStep DEF RowInv, TypeOK, Rows, AfterConfirm
  <2>2. /\ Phase \in {"asking", "review", "closed"} /\ Phase' = "closed"
        /\ ConsentBool(row'.fields) = ConsentBool(row.fields)
        /\ ConsentBool(row.fields) \in BOOLEAN
    BY <2>1 DEF Confirmable, Phase, ConsentBool
  <2>. QED  BY <2>1, <2>2 DEF Lifecycle!Next, Lifecycle!Close
<1>. QED  BY <1>1, <1>2

\* The engine, whatever the LLM replies and the form does, keeps the promises
\* of LeadLifecycle.
THEOREM ImplementsLifecycle == Spec => Implements
<1>1. Init => Lifecycle!Init
  <2>. SUFFICES ASSUME Init
                PROVE  Lifecycle!Init
    OBVIOUS
  <2>1. /\ row.state \in {"greeting", "collecting_identity"}
        /\ row.status = "active" /\ row.fields = FreshFields
    BY DEF Init, FreshRow
  <2>2. Phase = "collecting" /\ ConsentBool(row.fields) = FALSE
    BY <2>1, FreshFieldsType DEF Phase, ConsentBool, None
  <2>. QED  BY <2>1, <2>2 DEF Lifecycle!Init
<1>2. RowInv /\ RowInv' /\ [Next]_vars => [Lifecycle!Next]_(Lifecycle!vars)
  <2>. SUFFICES ASSUME RowInv, RowInv', [Next]_vars
                PROVE  [Lifecycle!Next]_(Lifecycle!vars)
    OBVIOUS
  <2>1. ASSUME NEW reply \in Replies, Turn(reply)
        PROVE  [Lifecycle!Next]_(Lifecycle!vars)
    BY <2>1, TurnImplements
  <2>2. CASE Confirm
    BY <2>2, ConfirmImplements
  <2>3. CASE Reset
    <3>1. /\ row'.state = "greeting" /\ row'.status = "active"
          /\ row'.fields = FreshFields
      BY <2>3 DEF Reset, AfterReset, FreshRow
    <3>2. Phase' = "collecting" /\ ConsentBool(row'.fields) = FALSE
      BY <3>1, FreshFieldsType DEF Phase, ConsentBool, None
    <3>. QED  BY <3>1, <3>2 DEF Lifecycle!Next, Lifecycle!Reopen
  <2>4. CASE UNCHANGED vars
    BY <2>4 DEF vars, Lifecycle!vars, Phase, ConsentBool
  <2>. QED  BY <2>1, <2>2, <2>3, <2>4 DEF Next
<1>. QED  BY <1>1, <1>2, RowInvariant, PTL DEF Spec, Implements, Lifecycle!Spec
=============================================================================

--------------------------- MODULE SessionRequests ---------------------------
(***************************************************************************)
(* Overlapping HTTP requests on one session stored in PostgreSQL.          *)
(*                                                                         *)
(* Every request runs in one transaction of its own (session_scope): it    *)
(* loads the session row, later the lead row, changes the two objects in   *)
(* memory and writes back the columns that differ from what it loaded.     *)
(* An UPDATE keeps its row locked until the transaction ends.  Turns and   *)
(* confirmations run on the one event loop and their database calls block  *)
(* it; resets and deletions run in worker threads.                         *)
(***************************************************************************)
EXTENDS LeadRules

CONSTANTS Requests,     \* requests that may arrive, each served once
          StartRows,    \* committed rows the session may have at first
          TriedReplies  \* what the LLM may answer

Free == "free"    \* the holder of what nobody holds

ASSUME RequestAssumption ==
  /\ StartRows \subseteq Rows /\ TriedReplies \subseteq Replies
  /\ Free \notin Requests

VARIABLES row,     \* the committed session and lead rows
          exists,  \* the session has not been deleted
          req,     \* per request: its kind, its place in the handler, the
                   \* rows as it loaded and as it changed them, and the
                   \* tables the database call it is in must lock
          locks,   \* who holds the row lock of each table
          loop     \* the request that occupies the event loop

vars == <<row, exists, req, locks, loop>>

Tables == {"session", "lead"}
Kinds == {"turn", "confirm", "reset", "delete"}
OnLoop(r) == req[r].kind \in {"turn", "confirm"}

\* idle: not arrived; opened: session loaded; thinking: the LLM is asked;
\* flushing: the extraction is written; speaking: the reply is synthesized;
\* closing: the changes are written and committed; done: answered or failed.
Places == {"idle", "opened", "thinking", "flushing", "speaking", "closing",
           "done"}

RequestStates == [kind : Kinds, pc : Places, snap : Rows, local : Rows,
                  wants : SUBSET Tables]

NewRequest == [kind |-> "turn", pc |-> "idle", snap |-> FreshRow("greeting"),
               local |-> FreshRow("greeting"), wants |-> {}]

TypeOK ==
  /\ row \in Rows /\ exists \in BOOLEAN
  /\ req \in [Requests -> RequestStates]
  /\ locks \in [Tables -> Requests \cup {Free}]
  /\ loop \in Requests \cup {Free}

Init ==
  /\ row \in StartRows /\ exists = TRUE
  /\ req = [r \in Requests |-> NewRequest]
  /\ locks = [t \in Tables |-> Free]
  /\ loop = Free

-----------------------------------------------------------------------------
(* The unit of work of a transaction *)

\* Which rows the transaction must update, going by the modelled columns.
Dirty(old, new) ==
  {t \in Tables :
     IF t = "session"
     THEN <<old.state, old.status, old.skipped>>
            # <<new.state, new.status, new.skipped>>
     ELSE <<old.fields, old.outcome, old.consented, old.reviewed>>
            # <<new.fields, new.outcome, new.consented, new.reviewed>>}

\* Mutant of WriteBack: every column is written, changed or not.
WriteAll(db, old, new) == new

\* Only the columns that differ from what was loaded are written.
WriteBack(db, old, new) ==
  [c \in DOMAIN db |->
     IF c = "fields"
     THEN [f \in Fields |-> IF new.fields[f] # old.fields[f]
                            THEN new.fields[f] ELSE db.fields[f]]
     ELSE IF new[c] # old[c] THEN new[c] ELSE db[c]]

\* The flush in the middle of a turn writes the extraction only.
Extraction(old, new) ==
  [old EXCEPT !.fields = new.fields, !.skipped = new.skipped,
              !.state = IF @ = "greeting" THEN "collecting_identity" ELSE @]

Holds(r) == {t \in Tables : locks[t] = r}
Granted(r) == req[r].wants \subseteq Holds(r)

\* Mutant of Released: a transaction that ends keeps its row locks.
ReleasedNever(r) == locks

Released(r) == [t \in Tables |-> IF locks[t] = r THEN Free ELSE locks[t]]

\* The transaction ends, committed or rolled back, and the handler returns.
End(r) ==
  /\ req' = [req EXCEPT ![r] = [NewRequest EXCEPT !.kind = req[r].kind,
                                                  !.pc = "done"]]
  /\ locks' = Released(r)
  /\ loop' = IF loop = r THEN Free ELSE loop

-----------------------------------------------------------------------------
(* Steps of a request *)

\* The handler starts and loads the session row (404 when it is gone).
Open(r, k) ==
  /\ req[r].pc = "idle"
  /\ k \in {"turn", "confirm"} => loop = Free
  /\ req' = [req EXCEPT ![r] = [@ EXCEPT !.kind = k, !.snap = row,
                                  !.pc = IF exists THEN "opened" ELSE "done"]]
  /\ loop' = IF k = "confirm" /\ exists THEN r ELSE loop
  /\ UNCHANGED <<row, exists, locks>>

\* The lead row as loaded now, the session row as loaded before.
Joined(r) == [row EXCEPT !.state = req[r].snap.state,
                         !.status = req[r].snap.status,
                         !.skipped = req[r].snap.skipped]

\* A turn loads the lead, after its audio was transcribed, and asks the LLM;
\* an abandoned session is answered at once, a deleted one fails.
LoadTurn(r) ==
  /\ req[r].pc = "opened" /\ req[r].kind = "turn" /\ loop = Free
  /\ IF exists /\ req[r].snap.status # "abandoned"
     THEN /\ req' = [req EXCEPT ![r] = [@ EXCEPT !.pc = "thinking",
                                                 !.snap = Joined(r)]]
          /\ UNCHANGED <<locks, loop>>
     ELSE End(r)
  /\ UNCHANGED <<row, exists>>

\* The other handlers load the lead, decide and start to write.
LoadOther(r) ==
  /\ req[r].pc = "opened" /\ req[r].kind # "turn"
  /\ IF ~exists THEN End(r)
     ELSE LET old == Joined(r)
              new == CASE req[r].kind = "confirm" -> AfterConfirm(old)
                       [] req[r].kind = "reset"   -> AfterReset
                       [] req[r].kind = "delete"  -> old
          IN  /\ req' = [req EXCEPT ![r] =
                   [@ EXCEPT !.pc = "closing", !.snap = old, !.local = new,
                      !.wants = IF req[r].kind = "delete" THEN Tables
                                ELSE Dirty(old, new)]]
              /\ UNCHANGED <<locks, loop>>
  /\ UNCHANGED <<row, exists>>

\* The LLM, the transcription or the parsing fails: nothing is written.
Fail(r) ==
  /\ req[r].pc = "thinking" /\ loop = Free
  /\ End(r)
  /\ UNCHANGED <<row, exists>>

\* The LLM answers; the turn is computed and its extraction flushed.  The
\* language column, and raw_json and the scores of a lead's first turn, which are
\* not modelled, may make the rows dirty as well.
Answer(r, reply, touched) ==
  /\ req[r].pc = "thinking" /\ loop = Free
  /\ LET old == req[r].snap
         new == AfterTurn(old, reply)
     IN  req' = [req EXCEPT ![r] =
                   [@ EXCEPT !.pc = "flushing", !.local = new,
                      !.wants = Dirty(old, Extraction(old, new)) \cup touched]]
  /\ loop' = r
  /\ UNCHANGED <<row, exists, locks>>

\* The database grants a row lock, in the order the UPDATEs are sent: the
\* session first, unless the cascade deletes the lead before it.
Lock(r, t) ==
  /\ req[r].pc \in {"flushing", "closing"}
  /\ t \in req[r].wants \ Holds(r) /\ locks[t] = Free
  /\ LET first == IF req[r].kind = "delete" THEN "lead" ELSE "session"
     IN  t = first \/ first \notin req[r].wants \ Holds(r)
  /\ locks' = [locks EXCEPT ![t] = r]
  /\ UNCHANGED <<row, exists, req, loop>>

\* The flush returns.  The reply is synthesized, unless the lead dropped out;
\* rows that were deleted meanwhile make it fail.
Flushed(r) ==
  /\ req[r].pc = "flushing" /\ Granted(r)
  /\ IF ~exists THEN End(r)
     ELSE IF req[r].local.status = "abandoned"
     THEN /\ req' = [req EXCEPT ![r] = [@ EXCEPT !.pc = "closing",
                                !.wants = req[r].wants \cup Dirty(req[r].snap, req[r].local)]]
          /\ UNCHANGED <<locks, loop>>
     ELSE /\ req' = [req EXCEPT ![r] = [@ EXCEPT !.pc = "speaking"]]
          /\ loop' = Free
          /\ UNCHANGED locks
  /\ UNCHANGED <<row, exists>>

\* Speech synthesis ends, well or badly, and the transaction is committed.
Spoken(r) ==
  /\ req[r].pc = "speaking" /\ loop = Free
  /\ req' = [req EXCEPT ![r] = [@ EXCEPT !.pc = "closing",
                     !.wants = req[r].wants \cup Dirty(req[r].snap, req[r].local)]]
  /\ loop' = r
  /\ UNCHANGED <<row, exists, locks>>

\* The last UPDATEs and the COMMIT.
Commit(r) ==
  /\ req[r].pc = "closing" /\ Granted(r)
  /\ IF ~exists THEN UNCHANGED <<row, exists>>
     ELSE IF req[r].kind = "delete" THEN exists' = FALSE /\ UNCHANGED row
     ELSE /\ row' = WriteBack(row, req[r].snap, req[r].local)
          /\ UNCHANGED exists
  /\ End(r)

\* r waits for a lock that q holds.
Waits(r, q) ==
  /\ req[r].pc \in {"flushing", "closing"}
  /\ \E t \in req[r].wants : locks[t] = q /\ q # r

\* PostgreSQL breaks a cycle of waiting transactions: one of them fails.
Deadlock(r) ==
  /\ \E q \in Requests : Waits(r, q) /\ Waits(q, r)
  /\ End(r)
  /\ UNCHANGED <<row, exists>>

Serve(r) ==
  \/ LoadTurn(r)
  \/ LoadOther(r)
  \/ \E reply \in TriedReplies, touched \in SUBSET Tables :
        Answer(r, reply, touched)
  \/ \E t \in Tables : Lock(r, t)
  \/ Flushed(r)
  \/ Spoken(r)
  \/ Commit(r)
  \/ Deadlock(r)

Next ==
  \E r \in Requests :
     \/ \E k \in Kinds : Open(r, k)
     \/ Serve(r)
     \/ Fail(r)

\* Arrived requests are served; whether another one arrives, or the LLM
\* fails, is not promised.
Spec == Init /\ [][Next]_vars /\ \A r \in Requests : WF_vars(Serve(r))

-----------------------------------------------------------------------------
(* Properties *)

Committed(r) == req[r].pc = "closing" /\ req'[r].pc = "done"

\* However requests overlap, only a reset opens a closed session again.
OnlyResetReopens ==
  [][row.status # "active" /\ row'.status = "active"
       => \E r \in Requests : req[r].kind = "reset" /\ Committed(r)]_vars

\* The session status and the lead's status drift apart only when a request
\* loaded the two rows on either side of another one's commit.
DriftNeedsTornRead ==
  [][row.status = row.outcome /\ row'.status # row'.outcome
       => \E r \in Requests : /\ Committed(r)
                              /\ req[r].snap.status # req[r].snap.outcome]_vars

\* Every request ends, unless one on the event loop waits for a row while a
\* turn awaits its speech: that turn can only go on, and free its rows, when
\* the loop is free.
Underway(r) == req[r].pc \notin {"idle", "done"}
LoopWaitsOverSpeech ==
  /\ \E r \in Requests : req[r].pc = "speaking"
  /\ \E r, q \in Requests : loop = r /\ Waits(r, q)
EndsUnlessSpokenOver ==
  []~LoopWaitsOverSpeech => <>[](\A r \in Requests : ~Underway(r))
=============================================================================

------------------------ MODULE SessionRequestsProofs ------------------------
(***************************************************************************)
(* Proofs about SessionRequests, for every set of requests, of rows the    *)
(* session may have at first and of replies of the LLM.                    *)
(***************************************************************************)
EXTENDS SessionRequests, LeadRulesProofs

-----------------------------------------------------------------------------
(* The unit of work *)

LEMMA DirtyType ==
  ASSUME NEW old, NEW new
  PROVE  Dirty(old, new) \in SUBSET Tables
BY DEF Dirty

LEMMA WriteBackParts ==
  ASSUME NEW db \in Rows, NEW old \in Rows, NEW new \in Rows
  PROVE  LET w == WriteBack(db, old, new)
         IN  /\ w \in Rows
             /\ w.status = IF new.status # old.status THEN new.status ELSE db.status
             /\ w.outcome = IF new.outcome # old.outcome THEN new.outcome ELSE db.outcome
BY DEF WriteBack, Rows, LeadFields

LEMMA JoinedType ==
  ASSUME NEW r \in Requests, row \in Rows, req \in [Requests -> RequestStates]
  PROVE  Joined(r) \in Rows
BY DEF Joined, Rows, RequestStates

-----------------------------------------------------------------------------
(* What a request makes of the rows it loaded *)

\* A turn neither reopens a session nor drives its two statuses apart.
LEMMA TurnStatuses ==
  ASSUME NEW old \in Rows, NEW reply \in Replies
  PROVE  LET new == AfterTurn(old, reply)
         IN  /\ new.status = "active" => old.status = "active"
             /\ old.status = old.outcome => new.status = new.outcome
<1>1. CASE old.status = "abandoned"
  BY <1>1 DEF AfterTurn
<1>2. CASE old.status # "abandoned"
  BY <1>2, TurnParts
<1>. QED  BY <1>1, <1>2

\* Neither does a confirmation.
LEMMA ConfirmStatuses ==
  ASSUME NEW old \in Rows
  PROVE  LET new == AfterConfirm(old)
         IN  /\ new.status = "active" => old.status = "active"
             /\ old.status = old.outcome => new.status = new.outcome
BY DEF AfterConfirm, Rows

-----------------------------------------------------------------------------
(* Type correctness *)

LEMMA FreshRowType == NewRequest \in RequestStates
BY FreshType DEF NewRequest, RequestStates, Kinds, Places, Tables

\* What the steps of a request change of its record.
LEMMA RecordUpdates ==
  ASSUME NEW q \in RequestStates, NEW p \in Places, NEW a \in Rows, NEW b \in Rows,
         NEW w \in SUBSET Tables
  PROVE  /\ [q EXCEPT !.pc = p] \in RequestStates
         /\ [q EXCEPT !.pc = p, !.snap = a] \in RequestStates
         /\ [q EXCEPT !.pc = p, !.wants = w] \in RequestStates
         /\ [q EXCEPT !.pc = p, !.local = b, !.wants = w] \in RequestStates
         /\ [q EXCEPT !.pc = p, !.snap = a, !.local = b, !.wants = w] \in RequestStates
BY DEF RequestStates

LEMMA RecordParts ==
  ASSUME NEW q \in RequestStates
  PROVE  /\ q.kind \in Kinds /\ q.snap \in Rows /\ q.local \in Rows
         /\ q.wants \in SUBSET Tables
BY DEF RequestStates

LEMMA RequestUpdate ==
  ASSUME TypeOK, NEW r \in Requests, NEW s \in RequestStates,
         req' = [req EXCEPT ![r] = s]
  PROVE  req' \in [Requests -> RequestStates]
BY DEF TypeOK

LEMMA EndType ==
  ASSUME TypeOK, NEW r \in Requests, End(r)
  PROVE  /\ req' \in [Requests -> RequestStates]
         /\ locks' \in [Tables -> Requests \cup {Free}]
         /\ loop' \in Requests \cup {Free}
BY FreshRowType DEF TypeOK, End, Released, RequestStates, Places

\* The rows, what every request holds of them and the locks stay well formed
\* whatever requests overlap.
THEOREM TypeCorrect == Spec => []TypeOK
<1>1. Init => TypeOK
  BY FreshRowType, RequestAssumption DEF Init, TypeOK
<1>2. TypeOK /\ [Next]_vars => TypeOK'
  <2>. SUFFICES ASSUME TypeOK, [Next]_vars
                PROVE  TypeOK'
    OBVIOUS
  <2>. USE DEF TypeOK
  <2>1. ASSUME NEW r \in Requests, NEW k \in Kinds, Open(r, k)
        PROVE  TypeOK'
    <3>1. row \in Rows /\ req[r] \in RequestStates
      OBVIOUS
    <3>. DEFINE p == IF exists THEN "opened" ELSE "done"
                s == [req[r] EXCEPT !.kind = k, !.snap = row, !.pc = p]
    <3>2. p \in Places
      BY DEF Places
    <3>3. req' = [req EXCEPT ![r] = s]
      BY <2>1 DEF Open
    <3>. HIDE DEF p
    <3>4. s \in RequestStates
      BY <3>1, <3>2 DEF RequestStates
    <3>. HIDE DEF s
    <3>5. req' \in [Requests -> RequestStates]
      BY <3>3, <3>4, RequestUpdate
    <3>6. loop' \in Requests \cup {Free} /\ UNCHANGED <<row, exists, locks>>
      BY <2>1 DEF Open
    <3>. QED  BY <3>5, <3>6
  <2>2. ASSUME NEW r \in Requests, LoadTurn(r)
        PROVE  TypeOK'
    <3>1. CASE exists /\ req[r].snap.status # "abandoned"
      <4>1. [req[r] EXCEPT !.pc = "thinking", !.snap = Joined(r)] \in RequestStates
        BY JoinedType, RecordUpdates DEF Places
      <4>2. req' \in [Requests -> RequestStates]
        BY <2>2, <3>1, <4>1, RequestUpdate DEF LoadTurn
      <4>. QED  BY <2>2, <3>1, <4>2 DEF LoadTurn
    <3>2. CASE ~(exists /\ req[r].snap.status # "abandoned")
      BY <2>2, <3>2, EndType DEF LoadTurn
    <3>. QED  BY <3>1, <3>2
  <2>3. ASSUME NEW r \in Requests, LoadOther(r)
        PROVE  TypeOK'
    <3>1. CASE ~exists
      BY <2>3, <3>1, EndType DEF LoadOther
    <3>2. CASE exists
      <4>. DEFINE old == Joined(r)
                  new == CASE req[r].kind = "confirm" -> AfterConfirm(old)
                           [] req[r].kind = "reset"   -> AfterReset
                           [] req[r].kind = "delete"  -> old
      <4>1. old \in Rows
        BY JoinedType
      <4>2. new \in Rows
        BY <2>3, <4>1, ConfirmType, FreshType
           DEF LoadOther, AfterReset, RequestStates, Kinds
      <4>. HIDE DEF old, new
      <4>3. PICK w \in SUBSET Tables :
              req' = [req EXCEPT ![r] = [@ EXCEPT !.pc = "closing", !.snap = old,
                                                  !.local = new, !.wants = w]]
        BY <2>3, <3>2, DirtyType DEF LoadOther, old, new
      <4>4. [req[r] EXCEPT !.pc = "closing", !.snap = old, !.local = new, !.wants = w]
              \in RequestStates
        BY <4>1, <4>2, RecordUpdates DEF Places
      <4>5. req' \in [Requests -> RequestStates]
        BY <4>3, <4>4, RequestUpdate
      <4>. QED  BY <2>3, <3>2, <4>5 DEF LoadOther
    <3>. QED  BY <3>1, <3>2
  <2>4. ASSUME NEW r \in Requests, NEW reply \in TriedReplies,
               NEW touched \in SUBSET Tables, Answer(r, reply, touched)
        PROVE  TypeOK'
    <3>. DEFINE new == AfterTurn(req[r].snap, reply)
    <3>1. new \in Rows
      BY <2>4, TurnType, RequestAssumption DEF Answer, RequestStates
    <3>. HIDE DEF new
    <3>2. PICK w \in SUBSET Tables :
            req' = [req EXCEPT ![r] = [@ EXCEPT !.pc = "flushing", !.local = new,
                                                !.wants = w]]
      BY <2>4, DirtyType DEF Answer, Tables, new
    <3>3. [req[r] EXCEPT !.pc = "flushing", !.local = new, !.wants = w] \in RequestStates
      BY <3>1, RecordUpdates DEF Places
    <3>4. req' \in [Requests -> RequestStates]
      BY <3>2, <3>3, RequestUpdate
    <3>. QED  BY <2>4, <3>4 DEF Answer
  <2>5. ASSUME NEW r \in Requests, NEW t \in Tables, Lock(r, t)
        PROVE  TypeOK'
    BY <2>5 DEF Lock
  <2>6. ASSUME NEW r \in Requests, Flushed(r)
        PROVE  TypeOK'
    <3>. DEFINE w == req[r].wants \cup Dirty(req[r].snap, req[r].local)
    <3>0. req[r] \in RequestStates /\ w \in SUBSET Tables
      BY DirtyType, RecordParts
    <3>1. CASE ~exists
      BY <2>6, <3>1, EndType DEF Flushed
    <3>2. CASE exists /\ req[r].local.status = "abandoned"
      <4>1. [req[r] EXCEPT !.pc = "closing", !.wants = w] \in RequestStates
        <5>. HIDE DEF w
        <5>. QED  BY <3>0, RecordUpdates DEF Places
      <4>2. req' \in [Requests -> RequestStates]
        BY <2>6, <3>2, <4>1, RequestUpdate DEF Flushed
      <4>. QED  BY <2>6, <3>2, <4>2 DEF Flushed
    <3>3. CASE exists /\ req[r].local.status # "abandoned"
      <4>1. [req[r] EXCEPT !.pc = "speaking"] \in RequestStates
        BY RecordUpdates DEF Places
      <4>2. req' \in [Requests -> RequestStates]
        BY <2>6, <3>3, <4>1, RequestUpdate DEF Flushed
      <4>. QED  BY <2>6, <3>3, <4>2 DEF Flushed
    <3>. QED  BY <3>1, <3>2, <3>3
  <2>7. ASSUME NEW r \in Requests, Spoken(r)
        PROVE  TypeOK'
    <3>. DEFINE w == req[r].wants \cup Dirty(req[r].snap, req[r].local)
    <3>0. req[r] \in RequestStates /\ w \in SUBSET Tables
      BY DirtyType, RecordParts
    <3>1. [req[r] EXCEPT !.pc = "closing", !.wants = w] \in RequestStates
      <4>. HIDE DEF w
      <4>. QED  BY <3>0, RecordUpdates DEF Places
    <3>2. req' \in [Requests -> RequestStates]
      BY <2>7, <3>1, RequestUpdate DEF Spoken
    <3>. QED  BY <2>7, <3>2 DEF Spoken
  <2>8. ASSUME NEW r \in Requests, Commit(r)
        PROVE  TypeOK'
    <3>0. req[r].snap \in Rows /\ req[r].local \in Rows
      BY RecordParts
    <3>1. WriteBack(row, req[r].snap, req[r].local) \in Rows
      BY <3>0, WriteBackParts
    <3>2. row' \in Rows /\ exists' \in BOOLEAN
      BY <2>8, <3>1 DEF Commit
    <3>. QED  BY <2>8, <3>2, EndType DEF Commit
  <2>9. ASSUME NEW r \in Requests, Deadlock(r) \/ Fail(r)
        PROVE  TypeOK'
    BY <2>9, EndType DEF Deadlock, Fail
  <2>10. CASE UNCHANGED vars
    BY <2>10 DEF vars
  <2>. QED
    BY <2>1, <2>2, <2>3, <2>4, <2>5, <2>6, <2>7, <2>8, <2>9, <2>10
       DEF Next, Serve
<1>. QED  BY <1>1, <1>2, PTL DEF Spec

-----------------------------------------------------------------------------
(* What an overlapping request decides, and what it holds *)

\* What a request is about to write closes or keeps the session unless it is a
\* reset, moves both statuses alike if it read them alike, and is locked before
\* it is committed.
Decided(r) ==
  req[r].pc \in {"flushing", "speaking", "closing"} =>
    LET old == req[r].snap
        new == req[r].local
    IN  /\ new.status = "active" /\ req[r].kind # "reset" => old.status = "active"
        /\ old.status = old.outcome => new.status = new.outcome
        /\ req[r].pc = "closing" /\ req[r].kind # "delete"
             => Dirty(old, new) \subseteq req[r].wants

\* Only a request that writes holds rows; only one that may hold the event loop
\* does.
Held(r) ==
  /\ Holds(r) # {} => req[r].pc \in {"flushing", "speaking", "closing"}
  /\ loop = r => req[r].pc \in {"opened", "flushing", "closing"}

RequestInv == TypeOK /\ \A r \in Requests : Decided(r) /\ Held(r)

\* What the steps of other requests leave alone.
LEMMA OthersKeep ==
  ASSUME TypeOK, TypeOK', NEW r \in Requests, NEW q \in Requests, q # r,
         Decided(q), Held(q), req'[q] = req[q],
         Holds(q)' \subseteq Holds(q), loop' = q => loop = q
  PROVE  Decided(q)' /\ Held(q)'
BY DEF Decided, Held, Dirty

\* A request that ends holds nothing.
LEMMA EndKeeps ==
  ASSUME RequestInv, TypeOK', NEW r \in Requests, End(r)
  PROVE  \A q \in Requests : Decided(q)' /\ Held(q)'
<1>. SUFFICES ASSUME NEW q \in Requests
              PROVE  Decided(q)' /\ Held(q)'
  OBVIOUS
<1>. USE DEF RequestInv, TypeOK
<1>1. CASE q = r
  <2>1. req'[q].pc = "done"
    BY <1>1 DEF End, NewRequest
  <2>2. Holds(q)' = {} /\ loop' # q
    BY <1>1, RequestAssumption DEF End, Released, Holds
  <2>. QED  BY <2>1, <2>2 DEF Decided, Held
<1>2. CASE q # r
  <2>1. req'[q] = req[q] /\ Holds(q)' \subseteq Holds(q) /\ (loop' = q => loop = q)
    BY <1>2, RequestAssumption DEF End, Released, Holds
  <2>. QED  BY <1>2, <2>1, OthersKeep
<1>. QED  BY <1>1, <1>2

LEMMA OpenKeeps ==
  ASSUME RequestInv, TypeOK', NEW r \in Requests, NEW k \in Kinds, Open(r, k)
  PROVE  \A q \in Requests : Decided(q)' /\ Held(q)'
<1>. SUFFICES ASSUME NEW q \in Requests
              PROVE  Decided(q)' /\ Held(q)'
  OBVIOUS
<1>. USE DEF RequestInv
<1>1. CASE q = r
  <2>1. /\ req'[q].pc \in {"opened", "done"} /\ Holds(q)' = Holds(q)
        /\ loop' = q => req'[q].pc = "opened"
    BY <1>1 DEF Open, TypeOK, Holds, RequestStates, Held
  <2>. QED  BY <1>1, <2>1 DEF Decided, Held, Open
<1>2. CASE q # r
  <2>1. req'[q] = req[q] /\ Holds(q)' = Holds(q) /\ (loop' = q => loop = q)
    BY <1>2 DEF Open, TypeOK, Holds
  <2>. QED  BY <1>2, <2>1, OthersKeep
<1>. QED  BY <1>1, <1>2

LEMMA LoadKeeps ==
  ASSUME RequestInv, TypeOK', NEW r \in Requests, LoadTurn(r) \/ LoadOther(r)
  PROVE  \A q \in Requests : Decided(q)' /\ Held(q)'
<1>. USE DEF RequestInv
<1>1. CASE End(r)
  BY <1>1, EndKeeps
<1>2. CASE ~End(r)
  <2>. SUFFICES ASSUME NEW q \in Requests
                PROVE  Decided(q)' /\ Held(q)'
    OBVIOUS
  <2>0. /\ locks' = locks /\ loop' = loop /\ (q # r => req'[q] = req[q])
        /\ req \in [Requests -> RequestStates] /\ Holds(q)' = Holds(q)
    BY <1>2 DEF LoadTurn, LoadOther, TypeOK, Holds
  <2>1. CASE q # r
    BY <2>0, <2>1, OthersKeep
  <2>2. CASE q = r /\ LoadTurn(r)
    <3>2. req[r].pc = "opened" /\ loop = Free /\ loop # q
      BY <2>2, RequestAssumption DEF LoadTurn
    <3>3. req' = [req EXCEPT ![r] = [@ EXCEPT !.pc = "thinking", !.snap = Joined(r)]]
      BY <1>2, <2>2 DEF LoadTurn
    <3>4. req[r] \in RequestStates
      BY <2>0
    <3>5. req'[r] = [req[r] EXCEPT !.pc = "thinking", !.snap = Joined(r)]
      BY <2>0, <3>3
    <3>6. req'[r].pc = "thinking"
      BY <3>4, <3>5 DEF RequestStates
    <3>1. req'[q].pc = "thinking" /\ req[q].pc = "opened" /\ loop # q
      BY <2>2, <3>2, <3>6
    <3>. QED  BY <2>0, <3>1 DEF Decided, Held
  <2>3. CASE q = r /\ LoadOther(r)
    <3>. DEFINE old == Joined(r)
                new == CASE req[r].kind = "confirm" -> AfterConfirm(old)
                         [] req[r].kind = "reset"   -> AfterReset
                         [] req[r].kind = "delete"  -> old
    <3>1. old \in Rows
      BY JoinedType DEF TypeOK
    <3>2. /\ req[r].pc = "opened" /\ req[r].kind \in {"confirm", "reset", "delete"}
          /\ req' = [req EXCEPT ![r] =
               [@ EXCEPT !.pc = "closing", !.snap = old, !.local = new,
                         !.wants = IF req[r].kind = "delete" THEN Tables
                                   ELSE Dirty(old, new)]]
      BY <1>2, <2>3, RecordParts DEF LoadOther, TypeOK, Kinds
    <3>3. /\ new.status = "active" /\ req[r].kind # "reset" => old.status = "active"
          /\ old.status = old.outcome => new.status = new.outcome
      BY <3>1, <3>2, ConfirmStatuses DEF AfterReset, FreshRow
    <3>. HIDE DEF old, new
    <3>4. /\ req'[q].pc = "closing" /\ req'[q].kind = req[r].kind
          /\ req'[q].snap = old /\ req'[q].local = new
          /\ req[r].kind # "delete" => req'[q].wants = Dirty(old, new)
      BY <2>0, <2>3, <3>2 DEF RequestStates
    <3>5. Dirty(req'[q].snap, req'[q].local) = Dirty(old, new)
      BY <3>4
    <3>. QED  BY <2>0, <2>3, <3>2, <3>3, <3>4, <3>5 DEF Decided, Held, Dirty
  <2>. QED  BY <2>1, <2>2, <2>3
<1>. QED  BY <1>1, <1>2

LEMMA AnswerKeeps ==
  ASSUME RequestInv, TypeOK', NEW r \in Requests, NEW reply \in TriedReplies,
         NEW touched \in SUBSET Tables, Answer(r, reply, touched)
  PROVE  \A q \in Requests : Decided(q)' /\ Held(q)'
<1>. SUFFICES ASSUME NEW q \in Requests
              PROVE  Decided(q)' /\ Held(q)'
  OBVIOUS
<1>. USE DEF RequestInv
<1>. DEFINE old == req[r].snap
            new == AfterTurn(old, reply)
<1>1. /\ req \in [Requests -> RequestStates] /\ Holds(q)' = Holds(q)
      /\ loop = Free /\ loop' = r /\ req[r].pc = "thinking"
  BY DEF Answer, TypeOK, Holds
<1>2. CASE q # r
  BY <1>1, <1>2, OthersKeep DEF Answer
<1>3. CASE q = r
  <2>1. /\ new.status = "active" => old.status = "active"
        /\ old.status = old.outcome => new.status = new.outcome
    BY <1>1, RecordParts, TurnStatuses, RequestAssumption
  <2>2. PICK w : req' = [req EXCEPT ![r] = [@ EXCEPT !.pc = "flushing", !.local = new,
                                                     !.wants = w]]
    BY DEF Answer
  <2>. HIDE DEF new
  <2>3. /\ req'[q].pc = "flushing" /\ req'[q].snap = old /\ req'[q].local = new
    BY <1>1, <1>3, <2>2 DEF RequestStates
  <2>. QED  BY <1>1, <1>3, <2>1, <2>3 DEF Decided, Held
<1>. QED  BY <1>2, <1>3

LEMMA LockKeeps ==
  ASSUME RequestInv, TypeOK', NEW r \in Requests, NEW t \in Tables, Lock(r, t)
  PROVE  \A q \in Requests : Decided(q)' /\ Held(q)'
<1>. SUFFICES ASSUME NEW q \in Requests
              PROVE  Decided(q)' /\ Held(q)'
  OBVIOUS
<1>. USE DEF RequestInv
<1>1. req' = req /\ loop' = loop /\ Decided(q) /\ Held(q)
  BY DEF Lock
<1>2. CASE q = r
  BY <1>1, <1>2 DEF Lock, Decided, Held, Dirty
<1>3. CASE q # r
  <2>1. Holds(q)' \subseteq Holds(q)
    BY <1>3 DEF Lock, TypeOK, Holds
  <2>. QED  BY <1>1, <1>3, <2>1, OthersKeep
<1>. QED  BY <1>2, <1>3

\* The flush has returned, or the reply is spoken: what is left to write is
\* wanted, too.
LEMMA SpeechKeeps ==
  ASSUME RequestInv, TypeOK', NEW r \in Requests, Flushed(r) \/ Spoken(r)
  PROVE  \A q \in Requests : Decided(q)' /\ Held(q)'
<1>. USE DEF RequestInv
<1>1. CASE End(r)
  BY <1>1, EndKeeps
<1>2. CASE ~End(r)
  <2>. SUFFICES ASSUME NEW q \in Requests
                PROVE  Decided(q)' /\ Held(q)'
    OBVIOUS
  <2>0. /\ Holds(q)' = Holds(q) /\ (q # r => req'[q] = req[q])
        /\ req \in [Requests -> RequestStates]
        /\ req[r].pc \in {"flushing", "speaking"}
        /\ loop' = q => loop = q \/ (q = r /\ Spoken(r))
    BY <1>2, RequestAssumption DEF Flushed, Spoken, TypeOK, Holds
  <2>1. CASE q # r
    BY <2>0, <2>1, OthersKeep
  <2>2. CASE q = r
    <3>. DEFINE new == [req[r] EXCEPT !.pc = "closing",
                          !.wants = req[r].wants \cup Dirty(req[r].snap, req[r].local)]
    <3>1. \/ req'[q] = new
          \/ req'[q] = [req[r] EXCEPT !.pc = "speaking"] /\ loop' = Free
      BY <1>2, <2>0, <2>2 DEF Flushed, Spoken
    <3>2. CASE req'[q] = new
      <4>1. /\ req'[q].pc = "closing" /\ req'[q].snap = req[q].snap
            /\ req'[q].local = req[q].local /\ req'[q].kind = req[q].kind
            /\ Dirty(req[q].snap, req[q].local) \subseteq req'[q].wants
        BY <2>0, <2>2, <3>2 DEF RequestStates
      <4>. QED  BY <2>0, <2>2, <4>1 DEF Decided, Held, Dirty
    <3>3. CASE req'[q] = [req[r] EXCEPT !.pc = "speaking"] /\ loop' = Free
      <4>1. /\ req'[q].pc = "speaking" /\ req'[q].snap = req[q].snap
            /\ req'[q].local = req[q].local /\ req'[q].kind = req[q].kind
        BY <2>0, <2>2, <3>3 DEF RequestStates
      <4>. QED  BY <2>0, <2>2, <3>3, <4>1, RequestAssumption DEF Decided, Held
    <3>. QED  BY <3>1, <3>2, <3>3
  <2>. QED  BY <2>1, <2>2
<1>. QED  BY <1>1, <1>2

\* The inductive invariant of overlapping requests: what a request is about to
\* write reopens nothing unless it is a reset and is locked before the commit, and
\* rows and the event loop are held only at the places of a handler that need them.
THEOREM RequestInvariant == Spec => []RequestInv
<1>1. Init => RequestInv
  <2>. SUFFICES ASSUME Init
                PROVE  RequestInv
    OBVIOUS
  <2>1. TypeOK
    BY FreshRowType, RequestAssumption DEF Init, TypeOK
  <2>2. ASSUME NEW r \in Requests
        PROVE  req[r].pc = "idle" /\ Holds(r) = {} /\ loop # r
    BY <2>2, RequestAssumption DEF Init, NewRequest, Holds
  <2>. QED  BY <2>1, <2>2 DEF RequestInv, Decided, Held
<1>2. RequestInv /\ TypeOK' /\ [Next]_vars => RequestInv'
  <2>. SUFFICES ASSUME RequestInv, TypeOK', [Next]_vars
                PROVE  \A q \in Requests : Decided(q)' /\ Held(q)'
    BY DEF RequestInv
  <2>1. ASSUME NEW r \in Requests, NEW k \in Kinds, Open(r, k)
        PROVE  \A q \in Requests : Decided(q)' /\ Held(q)'
    BY <2>1, OpenKeeps
  <2>2. ASSUME NEW r \in Requests, LoadTurn(r) \/ LoadOther(r)
        PROVE  \A q \in Requests : Decided(q)' /\ Held(q)'
    BY <2>2, LoadKeeps
  <2>3. ASSUME NEW r \in Requests, NEW reply \in TriedReplies,
               NEW touched \in SUBSET Tables, Answer(r, reply, touched)
        PROVE  \A q \in Requests : Decided(q)' /\ Held(q)'
    BY <2>3, AnswerKeeps
  <2>4. ASSUME NEW r \in Requests, NEW t \in Tables, Lock(r, t)
        PROVE  \A q \in Requests : Decided(q)' /\ Held(q)'
    BY <2>4, LockKeeps
  <2>5. ASSUME NEW r \in Requests, Flushed(r) \/ Spoken(r)
        PROVE  \A q \in Requests : Decided(q)' /\ Held(q)'
    BY <2>5, SpeechKeeps
  <2>6. ASSUME NEW r \in Requests, Commit(r) \/ Deadlock(r) \/ Fail(r)
        PROVE  \A q \in Requests : Decided(q)' /\ Held(q)'
    BY <2>6, EndKeeps DEF Commit, Deadlock, Fail
  <2>7. CASE UNCHANGED vars
    BY <2>7 DEF vars, RequestInv, Decided, Held, Holds, Dirty
  <2>. QED
    BY <2>1, <2>2, <2>3, <2>4, <2>5, <2>6, <2>7 DEF Next, Serve
<1>. QED  BY <1>1, <1>2, TypeCorrect, PTL DEF Spec

\* A request that has not arrived, or ended in whatever way (committed, failed,
\* rolled back to break a deadlock), holds neither a row nor the event loop.
EndedHoldsNothing ==
  \A r \in Requests : ~Underway(r) => Holds(r) = {} /\ loop # r

\* However a request ended, it is in nobody's way.
THEOREM NothingHeldAfterwards == Spec => []EndedHoldsNothing
<1>1. RequestInv => EndedHoldsNothing
  BY DEF RequestInv, Held, EndedHoldsNothing, Underway
<1>. QED  BY <1>1, RequestInvariant, PTL

-----------------------------------------------------------------------------
(* What a commit may do *)

\* Only a commit changes the rows, and not that of a deletion.
LEMMA RowStep ==
  ASSUME RequestInv, Next, row' # row
  PROVE  \E r \in Requests :
           /\ req[r].pc = "closing" /\ Granted(r) /\ req[r].kind # "delete"
           /\ row' = WriteBack(row, req[r].snap, req[r].local)
           /\ req'[r].pc = "done"
           /\ req[r] \in RequestStates /\ row \in Rows
<1>1. PICK r \in Requests : Commit(r)
  BY DEF Next, Serve, Open, LoadTurn, LoadOther, Answer, Lock, Flushed, Spoken,
         Deadlock, Fail
<1>2. req'[r].pc = "done"
  BY <1>1 DEF RequestInv, TypeOK, Commit, End, NewRequest
<1>. QED  BY <1>1, <1>2 DEF RequestInv, TypeOK, Commit

\* However requests overlap, only a reset opens a closed session again.
THEOREM ReopenedByReset == Spec => OnlyResetReopens
<1>. DEFINE Step == row.status # "active" /\ row'.status = "active"
                      => \E r \in Requests : req[r].kind = "reset" /\ Committed(r)
<1>1. RequestInv /\ [Next]_vars => [Step]_vars
  <2>. SUFFICES ASSUME RequestInv, Next, row.status # "active", row'.status = "active"
                PROVE  \E r \in Requests : req[r].kind = "reset" /\ Committed(r)
    OBVIOUS
  <2>1. PICK r \in Requests :
           /\ req[r].pc = "closing" /\ Granted(r) /\ req[r].kind # "delete"
           /\ row' = WriteBack(row, req[r].snap, req[r].local)
           /\ req'[r].pc = "done"
           /\ req[r] \in RequestStates /\ row \in Rows
    BY RowStep
  <2>2. req[r].snap \in Rows /\ req[r].local \in Rows
    BY <2>1, RecordParts
  <2>3. row'.status = IF req[r].local.status # req[r].snap.status
                      THEN req[r].local.status ELSE row.status
    BY <2>1, <2>2, WriteBackParts
  <2>. QED  BY <2>1, <2>3 DEF RequestInv, Decided, Committed
<1>. QED  BY <1>1, RequestInvariant, PTL DEF Spec, OnlyResetReopens

\* The two statuses of a session drift apart only by a request that read them
\* apart.
THEOREM DriftIsTornRead == Spec => DriftNeedsTornRead
<1>. DEFINE Step == row.status = row.outcome /\ row'.status # row'.outcome
                      => \E r \in Requests : /\ Committed(r)
                                             /\ req[r].snap.status # req[r].snap.outcome
<1>1. RequestInv /\ [Next]_vars => [Step]_vars
  <2>. SUFFICES ASSUME RequestInv, Next, row.status = row.outcome,
                       row'.status # row'.outcome
                PROVE  \E r \in Requests : /\ Committed(r)
                                           /\ req[r].snap.status # req[r].snap.outcome
    OBVIOUS
  <2>1. PICK r \in Requests :
           /\ req[r].pc = "closing" /\ Granted(r) /\ req[r].kind # "delete"
           /\ row' = WriteBack(row, req[r].snap, req[r].local)
           /\ req'[r].pc = "done"
           /\ req[r] \in RequestStates /\ row \in Rows
    BY RowStep
  <2>. DEFINE old == req[r].snap
              new == req[r].local
  <2>2. old \in Rows /\ new \in Rows
    BY <2>1, RecordParts
  <2>3. /\ row'.status = IF new.status # old.status THEN new.status ELSE row.status
        /\ row'.outcome = IF new.outcome # old.outcome THEN new.outcome ELSE row.outcome
    BY <2>1, <2>2, WriteBackParts
  <2>4. old.status = old.outcome => new.status = new.outcome
    BY <2>1 DEF RequestInv, Decided
  <2>. QED  BY <2>1, <2>3, <2>4 DEF Committed
<1>. QED  BY <1>1, RequestInvariant, PTL DEF Spec, DriftNeedsTornRead

\* What is written back differs from the row only where the request changed it.
LEMMA WriteBackDirty ==
  ASSUME NEW db \in Rows, NEW old \in Rows, NEW new \in Rows
  PROVE  Dirty(db, WriteBack(db, old, new)) \subseteq Dirty(old, new)
<1>. DEFINE w == WriteBack(db, old, new)
<1>1. /\ w.state = IF new.state # old.state THEN new.state ELSE db.state
      /\ w.status = IF new.status # old.status THEN new.status ELSE db.status
      /\ w.skipped = IF new.skipped # old.skipped THEN new.skipped ELSE db.skipped
      /\ w.outcome = IF new.outcome # old.outcome THEN new.outcome ELSE db.outcome
      /\ w.consented = IF new.consented # old.consented THEN new.consented ELSE db.consented
      /\ w.reviewed = IF new.reviewed # old.reviewed THEN new.reviewed ELSE db.reviewed
  BY DEF WriteBack, Rows
<1>2. new.fields = old.fields => w.fields = db.fields
  BY DEF WriteBack, Rows, LeadFields
<1>. QED  BY <1>1, <1>2 DEF Dirty, Tables

\* A row is changed only by a request that holds its lock while it commits: no
\* request writes over a row another one has changed and not yet committed.
RowsChangeUnderLock ==
  [][\A t \in Dirty(row, row') :
       \E r \in Requests : locks[t] = r /\ Committed(r)]_vars

\* Rows change hands only through their locks.
THEOREM LockedWrites == Spec => RowsChangeUnderLock
<1>. DEFINE Step == \A t \in Dirty(row, row') :
                      \E r \in Requests : locks[t] = r /\ Committed(r)
<1>1. RequestInv /\ [Next]_vars => [Step]_vars
  <2>. SUFFICES ASSUME RequestInv, Next, NEW t \in Dirty(row, row')
                PROVE  \E r \in Requests : locks[t] = r /\ Committed(r)
    OBVIOUS
  <2>0. row' # row
    BY DEF Dirty
  <2>1. PICK r \in Requests :
           /\ req[r].pc = "closing" /\ Granted(r) /\ req[r].kind # "delete"
           /\ row' = WriteBack(row, req[r].snap, req[r].local)
           /\ req'[r].pc = "done"
           /\ req[r] \in RequestStates /\ row \in Rows
    BY <2>0, RowStep
  <2>2. t \in Dirty(req[r].snap, req[r].local)
    BY <2>1, RecordParts, WriteBackDirty
  <2>3. t \in Holds(r)
    BY <2>1, <2>2 DEF RequestInv, Decided, Granted
  <2>. QED  BY <2>1, <2>3 DEF Holds, Committed
<1>. QED  BY <1>1, RequestInvariant, PTL DEF Spec, RowsChangeUnderLock
=============================================================================

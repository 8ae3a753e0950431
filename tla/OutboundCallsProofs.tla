------------------------- MODULE OutboundCallsProofs -------------------------
(***************************************************************************)
(* Proofs about OutboundCalls, for every set of calls and every number of  *)
(* faults: whatever order requests, callbacks, webhooks and builds of the  *)
(* greeting come in.                                                       *)
(***************************************************************************)
EXTENDS OutboundCalls, FiniteSetTheorems, TLAPS

USE DEF Marks

-----------------------------------------------------------------------------
(* Type correctness *)

LEMMA Singletons ==
  /\ Cardinality({}) = 0
  /\ \A x : Cardinality({x}) = 1
BY FS_EmptySet, FS_Singleton

LEMMA VoiceType ==
  ASSUME NEW f \in Calls \cup {Nobody}
  PROVE  Voice(f) \in Calls \cup {Nobody}
BY DEF Voice

\* A refresh is scheduled only when there is something to refresh; without this
\* the build of a webhook might meet one.
TypeInv == TypeOK /\ (scheduled => cache # {})

LEMMA HangsUpType ==
  ASSUME TypeOK, NEW q \in Calls, NEW ok \in BOOLEAN, HangsUp(q, ok)
  PROVE  /\ leg' \in [Calls -> {"none", "ringing", "up", "over"}]
         /\ news' \in [Calls -> SUBSET {"alive", "over"}]
         /\ odd' \in [Calls -> SUBSET Marks]
         /\ faults' \in 0..MaxFaults
<1>1. /\ leg \in [Calls -> {"none", "ringing", "up", "over"}]
      /\ news \in [Calls -> SUBSET {"alive", "over"}]
      /\ odd \in [Calls -> SUBSET Marks]
      /\ faults \in 0..MaxFaults /\ MaxFaults \in Nat
  BY CallsAssumption DEF TypeOK
<1>2. /\ leg' = [leg EXCEPT ![q] = leg'[q]] /\ leg'[q] \in {leg[q], "over"}
      /\ news' = [news EXCEPT ![q] = news'[q]]
      /\ news'[q] \in {news[q], news[q] \cup {"over"}}
  BY <1>1 DEF HangsUp
<1>3. \/ UNCHANGED <<odd, faults>>
      \/ /\ odd' = [odd EXCEPT ![q] = @ \cup {"kept"}]
         /\ faults < MaxFaults /\ faults' = faults + 1
  BY DEF HangsUp
<1>4. faults' \in 0..MaxFaults
  BY <1>1, <1>3
<1>5. odd' \in [Calls -> SUBSET Marks]
  BY <1>1, <1>3
<1>6. leg' \in [Calls -> {"none", "ringing", "up", "over"}]
  BY <1>1, <1>2
<1>7. news'[q] \in SUBSET {"alive", "over"}
  BY <1>1, <1>2
<1>8. news' \in [Calls -> SUBSET {"alive", "over"}]
  BY <1>1, <1>2, <1>7
<1>. QED  BY <1>4, <1>5, <1>6, <1>8

Records == [status : {"none", "active", "completed"}, own : BOOLEAN,
            greeting : SUBSET (Calls \cup {Nobody}), session : BOOLEAN]

Places == [pc : {"idle", "ending", "dialing", "done"}, todo : SUBSET Calls,
           greeting : SUBSET (Calls \cup {Nobody})]

LEMMA EndingPlace ==
  ASSUME place \in [Calls -> Places], NEW p \in Calls, NEW t \in SUBSET Calls, NEW f,
         f = [place EXCEPT ![p].pc = "ending", ![p].todo = t]
  PROVE  /\ f \in [Calls -> Places]
         /\ f[p].pc = "ending" /\ f[p].todo = t /\ f[p].greeting = place[p].greeting
         /\ \A x \in Calls \ {p} : f[x] = place[x]
<1>1. place[p] \in Places
  OBVIOUS
<1>. DEFINE r == [place[p] EXCEPT !.pc = "ending"]
            s == [r EXCEPT !.todo = t]
<1>2. /\ r \in Places /\ r.pc = "ending" /\ r.greeting = place[p].greeting
  BY <1>1 DEF Places
<1>. HIDE DEF r
<1>3. s \in Places /\ s.pc = "ending" /\ s.todo = t /\ s.greeting = place[p].greeting
  BY <1>2 DEF Places
<1>4. f = [place EXCEPT ![p] = s]
  BY DEF r
<1>. QED  BY <1>3, <1>4

\* A record is marked completed, if there is one.
LEMMA CompletedParts ==
  ASSUME rec \in [Calls -> Records], NEW q \in Calls
  PROVE  /\ Completed(q) \in [Calls -> Records]
         /\ \A x \in Calls \ {q} : Completed(q)[x] = rec[x]
         /\ Completed(q)[q].status = IF rec[q].status = "none" THEN "none" ELSE "completed"
         /\ Completed(q)[q].own = rec[q].own
         /\ Completed(q)[q].greeting = rec[q].greeting
         /\ Completed(q)[q].session = rec[q].session
BY DEF Records, Completed

\* The record a webhook finds, or adds.
LEMMA KnownParts ==
  ASSUME rec \in [Calls -> Records], NEW p \in Calls
  PROVE  /\ Known(p) \in Records
         /\ rec[p].status # "none" => Known(p) = rec[p]
         /\ rec[p].status = "none" => /\ Known(p).own = FALSE /\ Known(p).greeting = {}
                                      /\ Known(p).session = FALSE
BY DEF Known, Records, Blank

\* The record after the session of a call was asked for.
LEMMA SeedRecord ==
  ASSUME rec \in [Calls -> Records], NEW p \in Calls, NEW g, Seed(p, g)
  PROVE  /\ rec' \in [Calls -> Records]
         /\ \A x \in Calls \ {p} : rec'[x] = rec[x]
         /\ rec'[p].status = "active" /\ rec'[p].session = TRUE
         /\ rec[p].status # "none" => /\ rec'[p].own = rec[p].own
                                      /\ rec'[p].greeting = rec[p].greeting
         /\ rec[p].status = "none" => rec'[p].own = FALSE /\ rec'[p].greeting = {}
<1>1. rec' = [rec EXCEPT ![p] = [Known(p) EXCEPT !.status = "active", !.session = TRUE]]
  BY DEF Seed
<1>2. /\ rec'[p].status = "active" /\ rec'[p].session = TRUE
      /\ rec'[p].own = Known(p).own /\ rec'[p].greeting = Known(p).greeting
      /\ rec'[p] \in Records
  BY <1>1, KnownParts DEF Records
<1>. QED  BY <1>1, <1>2, KnownParts

\* The rest of what a webhook changes.
LEMMA SeedRest ==
  ASSUME rec \in [Calls -> Records], NEW p \in Calls, NEW g, Seed(p, g)
  PROVE  LET first == rec[p].status = "none" \/ ~rec[p].session
         IN  /\ profile' = IF first THEN SeedFacts(p) ELSE profile
             /\ lead' = [lead EXCEPT ![p] = IF first THEN {SeedFacts(p)} ELSE @]
             /\ served' = [served EXCEPT ![p] = g]
             /\ hook' = [hook EXCEPT ![p] = "served"]
             /\ odd' = [odd EXCEPT ![p] = @
                  \cup (IF rec[p].status = "none" THEN {"early"} ELSE {})
                  \cup (IF leg[p] = "over" THEN {"late"} ELSE {})]
<1>1. Known(p).session <=> rec[p].status # "none" /\ rec[p].session
  BY KnownParts
<1>. QED  BY <1>1 DEF Seed, Unregistered

LEMMA SeedType ==
  ASSUME TypeOK, NEW p \in Calls, NEW g \in SUBSET (Calls \cup {Nobody}), Seed(p, g)
  PROVE  /\ rec' \in [Calls -> Records] /\ profile' \in Calls \cup {Nobody}
         /\ lead' \in [Calls -> SUBSET (Calls \cup {Nobody})]
         /\ served' \in [Calls -> SUBSET (Calls \cup {Nobody})]
         /\ hook' \in [Calls -> {"none", "sent", "cold", "served"}]
         /\ odd' \in [Calls -> SUBSET Marks]
<1>1. /\ rec \in [Calls -> Records] /\ SeedFacts(p) \in Calls \cup {Nobody}
      /\ profile \in Calls \cup {Nobody}
      /\ lead \in [Calls -> SUBSET (Calls \cup {Nobody})]
      /\ served \in [Calls -> SUBSET (Calls \cup {Nobody})]
      /\ hook \in [Calls -> {"none", "sent", "cold", "served"}]
      /\ odd \in [Calls -> SUBSET Marks]
  BY DEF TypeOK, Records, SeedFacts
<1>2. rec' \in [Calls -> Records]
  BY <1>1, SeedRecord
<1>3. /\ profile' \in {SeedFacts(p), profile}
      /\ lead' = [lead EXCEPT ![p] = lead'[p]] /\ lead'[p] \in {{SeedFacts(p)}, lead[p]}
      /\ served' = [served EXCEPT ![p] = g]
      /\ hook' = [hook EXCEPT ![p] = "served"]
      /\ odd' = [odd EXCEPT ![p] = odd'[p]]
      /\ odd'[p] \subseteq odd[p] \cup {"early", "late"}
  BY <1>1, SeedRest
<1>4. profile' \in Calls \cup {Nobody}
  BY <1>1, <1>3
<1>5. lead'[p] \in SUBSET (Calls \cup {Nobody})
  BY <1>1, <1>3
<1>6. lead' \in [Calls -> SUBSET (Calls \cup {Nobody})]
  BY <1>1, <1>3, <1>5
<1>7. /\ served' \in [Calls -> SUBSET (Calls \cup {Nobody})]
      /\ hook' \in [Calls -> {"none", "sent", "cold", "served"}]
  BY <1>1, <1>3
<1>8. odd' \in [Calls -> SUBSET Marks]
  BY <1>1, <1>3
<1>. QED  BY <1>2, <1>4, <1>6, <1>7, <1>8

LEMMA DialingType ==
  ASSUME place \in [Calls -> Places], NEW p \in Calls, Dialing(p)
  PROVE  profile' \in Calls \cup {Nobody} /\ place' \in [Calls -> Places]
BY VoiceType DEF Places, Dialing, Prepared

LEMMA InitialTypes == Init => TypeInv
<1>. SUFFICES ASSUME Init
              PROVE  TypeInv
  OBVIOUS
<1>1. /\ Idle \in Places /\ Absent \in Records /\ NoBuild.by = {} /\ MaxFaults \in Nat
      /\ build.by = {Nobody} /\ build.of = Nobody /\ Nobody \notin Calls
  BY CallsAssumption DEF Init, Places, Idle, Absent, Blank, Records, NoBuild, Refresh
<1>2. /\ place \in [Calls -> Places] /\ rec \in [Calls -> Records]
      /\ leg \in [Calls -> {"none", "ringing", "up", "over"}]
      /\ news \in [Calls -> SUBSET {"alive", "over"}]
      /\ hook \in [Calls -> {"none", "sent", "cold", "served"}]
      /\ stream \in [Calls -> {"none", "open", "closed"}]
      /\ named \subseteq Calls /\ exotel \subseteq Calls
  BY <1>1 DEF Init
<1>3. /\ served \in [Calls -> SUBSET (Calls \cup {Nobody})]
      /\ lead \in [Calls -> SUBSET (Calls \cup {Nobody})]
      /\ odd \in [Calls -> SUBSET Marks]
      /\ rivals \subseteq SUBSET Calls /\ faults \in 0..MaxFaults
      /\ jobs \subseteq Calls /\ turns \in 0..MaxTurns
  BY <1>1, CallsAssumption DEF Init
<1>4. /\ profile \in Calls \cup {Nobody}
      /\ cache = {} /\ scheduled = FALSE /\ cache \subseteq Calls \cup {Nobody}
      /\ build \in [by : SUBSET (Calls \cup {Nobody}), of : Calls \cup {Nobody}]
  BY DEF Init, Refresh
<1>5. Cardinality(cache) <= 1 /\ Cardinality(build.by) <= 1
  <2>1. Cardinality(cache) = 0 /\ Cardinality(build.by) = 1
    BY <1>1, <1>4, Singletons, Zenon
  <2>. QED  BY <2>1
<1>6. /\ build.by \subseteq Calls /\ build.by # {} => cache = {} /\ ~scheduled
      /\ scheduled => cache # {}
      /\ scheduled \in BOOLEAN
  BY <1>1, <1>4
<1>. QED  BY <1>2, <1>3, <1>4, <1>5, <1>6 DEF TypeInv, TypeOK, Places, Records

\* The values of the variables, whatever order calls, news and webhooks come in.
THEOREM TypesHold == Spec => []TypeInv
<1>1. TypeInv /\ [Next]_vars => TypeInv'
  <2>. SUFFICES ASSUME TypeInv, [Next]_vars
                PROVE  TypeInv'
    OBVIOUS
  <2>0. /\ place \in [Calls -> Places] /\ rec \in [Calls -> Records]
        /\ \A f \in Calls \cup {Nobody} : Voice(f) \in Calls \cup {Nobody}
        /\ MaxFaults \in Nat /\ Nobody \notin Calls
    BY CallsAssumption, VoiceType DEF TypeInv, TypeOK, Places, Records
  <2>1. ASSUME NEW p \in Calls, PlaceCall(p)
        PROVE  TypeInv'
    <3>1. ASSUME NEW x \in rivals'
          PROVE  x \in SUBSET Calls
      <4>1. /\ rivals \subseteq SUBSET Calls
            /\ rivals' = rivals \cup {{p, q} : q \in {c \in Calls : Placing(c)}}
        BY <2>1 DEF PlaceCall, TypeInv, TypeOK
      <4>. QED  BY <3>1, <4>1
    <3>2. place' \in [Calls -> Places] /\ profile' \in Calls \cup {Nobody}
      <4>1. CASE ActiveCalls = {}
        BY <2>0, <2>1, <4>1, DialingType DEF PlaceCall
      <4>2. CASE ActiveCalls # {}
        <5>1. /\ place' = [place EXCEPT ![p].pc = "ending", ![p].todo = ActiveCalls]
              /\ profile' = profile /\ ActiveCalls \in SUBSET Calls
          BY <2>1, <4>2 DEF PlaceCall, ActiveCalls
        <5>2. place' \in [Calls -> Places]
          BY <2>0, <5>1, EndingPlace
        <5>. QED  BY <5>1, <5>2 DEF TypeInv, TypeOK
      <4>. QED  BY <4>1, <4>2
    <3>. QED
      BY <2>1, <3>1, <3>2
         DEF PlaceCall, TypeInv, TypeOK, Places, kinds, carrier, greetings
  <2>2. ASSUME NEW p \in Calls, NEW q \in Calls, EndPrior(p, q)
        PROVE  TypeInv'
    <3>1. PICK ok \in BOOLEAN : HangsUp(q, ok)
      BY <2>2 DEF EndPrior
    <3>2. rec' \in [Calls -> Records]
      BY <2>0, <2>2, CompletedParts DEF EndPrior
    <3>3. place' \in [Calls -> Places] /\ profile' \in Calls \cup {Nobody}
      <4>1. CASE place[p].todo = {q}
        BY <2>0, <2>2, <4>1, DialingType DEF EndPrior
      <4>2. CASE place[p].todo # {q}
        <5>1. /\ place' = [place EXCEPT ![p].todo = @ \ {q}]
              /\ profile' = profile
          BY <2>2, <4>2 DEF EndPrior
        <5>2. place' \in [Calls -> Places]
          BY <2>0, <5>1 DEF Places
        <5>. QED  BY <5>1, <5>2 DEF TypeInv, TypeOK
      <4>. QED  BY <4>1, <4>2
    <3>4. /\ leg' \in [Calls -> {"none", "ringing", "up", "over"}]
          /\ news' \in [Calls -> SUBSET {"alive", "over"}]
          /\ odd' \in [Calls -> SUBSET Marks]
          /\ faults' \in 0..MaxFaults
      BY <3>1, HangsUpType DEF TypeInv
    <3>. QED
      BY <2>2, <3>2, <3>3, <3>4
         DEF EndPrior, DropsPending, TypeInv, TypeOK, Places, Records, kinds, greetings
  <2>3. ASSUME NEW p \in Calls, Creates(p)
        PROVE  TypeInv'
    <3>1. /\ leg' \in [Calls -> {"none", "ringing", "up", "over"}]
          /\ news' \in [Calls -> SUBSET {"alive", "over"}]
      BY <2>3 DEF Creates, TypeInv, TypeOK
    <3>. QED  BY <2>3, <3>1 DEF Creates, TypeInv, TypeOK, kinds, greetings, history
  <2>4. ASSUME NEW p \in Calls, Registers(p)
        PROVE  TypeInv'
    <3>1. place' \in [Calls -> Places]
      BY <2>0, <2>4 DEF Registers, Places, Idle
    <3>2. rec' \in [Calls -> Records]
      BY <2>0, <2>4 DEF Registers, Places, Records, Blank
    <3>. QED
      BY <2>4, <3>1, <3>2
         DEF Registers, TypeInv, TypeOK, Places, Records, kinds, carrier, greetings, history
  <2>5. ASSUME NEW p \in Calls, DialFails(p)
        PROVE  TypeInv'
    <3>1. place' \in [Calls -> Places]
      BY <2>0, <2>5 DEF DialFails, Places, Idle
    <3>2. /\ odd' \in [Calls -> SUBSET Marks]
          /\ faults' \in 0..MaxFaults
      <4>1. /\ odd \in [Calls -> SUBSET Marks]
            /\ faults \in 0..MaxFaults
        BY DEF TypeInv, TypeOK
      <4>2. \/ UNCHANGED <<odd, faults>>
            \/ /\ faults < MaxFaults /\ faults' = faults + 1
               /\ odd' = [odd EXCEPT ![p] = @ \cup {"lost"}]
        BY <2>5 DEF DialFails
      <4>3. faults' \in 0..MaxFaults
        BY <2>0, <4>1, <4>2
      <4>. QED  BY <4>1, <4>2, <4>3
    <3>3. UNCHANGED <<kinds, carrier, rec, stream, profile, greetings, served, jobs, lead,
                      rivals, turns>>
      BY <2>5 DEF DialFails
    <3>. QED
      BY <3>1, <3>2, <3>3 DEF TypeInv, TypeOK, Places, kinds, carrier, greetings
  <2>6. ASSUME NEW q \in Calls, HangUp(q)
        PROVE  TypeInv'
    <3>1. PICK ok \in BOOLEAN : HangsUp(q, ok)
      BY <2>6 DEF HangUp
    <3>2. rec' \in [Calls -> Records]
      BY <2>0, <2>6, CompletedParts DEF HangUp
    <3>3. /\ leg' \in [Calls -> {"none", "ringing", "up", "over"}]
          /\ news' \in [Calls -> SUBSET {"alive", "over"}]
          /\ odd' \in [Calls -> SUBSET Marks]
          /\ faults' \in 0..MaxFaults
      BY <3>1, HangsUpType DEF TypeInv
    <3>. QED
      BY <2>6, <3>2, <3>3
         DEF HangUp, DropsPending, TypeInv, TypeOK, Records, kinds, greetings
  <2>7. ASSUME NEW p \in Calls, Answer(p) \/ AsksAgain(p) \/ CallEnds(p)
        PROVE  TypeInv'
    <3>0. /\ leg \in [Calls -> {"none", "ringing", "up", "over"}]
          /\ news \in [Calls -> SUBSET {"alive", "over"}]
          /\ hook \in [Calls -> {"none", "sent", "cold", "served"}]
          /\ faults \in 0..MaxFaults
      BY DEF TypeInv, TypeOK
    <3>1. leg' \in [Calls -> {"none", "ringing", "up", "over"}]
      BY <2>7, <3>0 DEF Answer, AsksAgain, CallEnds
    <3>2. news' \in [Calls -> SUBSET {"alive", "over"}]
      BY <2>7, <3>0 DEF Answer, AsksAgain, CallEnds
    <3>3. hook' \in [Calls -> {"none", "sent", "cold", "served"}] /\ faults' \in 0..MaxFaults
      BY <2>0, <2>7, <3>0 DEF Answer, AsksAgain, CallEnds, history
    <3>4. UNCHANGED <<place, kinds, rec, stream, profile, greetings, served, jobs, lead, odd,
                      rivals, turns>>
      BY <2>7 DEF Answer, AsksAgain, CallEnds, history
    <3>. QED
      BY <3>1, <3>2, <3>3, <3>4 DEF TypeInv, TypeOK, kinds, greetings
  <2>8. ASSUME NEW p \in Calls, NEW e \in {"alive", "over"}, StatusCallback(p, e)
        PROVE  TypeInv'
    <3>1. rec' \in [Calls -> Records]
      BY <2>0, <2>8 DEF StatusCallback, Shown, Records
    <3>2. /\ news' \in [Calls -> SUBSET {"alive", "over"}]
          /\ odd' \in [Calls -> SUBSET Marks]
      BY <2>8 DEF StatusCallback, TypeInv, TypeOK
    <3>. QED
      BY <2>8, <3>1, <3>2 DEF StatusCallback, TypeInv, TypeOK, Records, kinds, greetings
  <2>9. ASSUME NEW p \in Calls, GreetingWebhook(p)
        PROVE  TypeInv'
    <3>1. \E g \in SUBSET (Calls \cup {Nobody}) : Seed(p, g)
      BY <2>0, <2>9 DEF GreetingWebhook, Records, TypeInv, TypeOK
    <3>2. /\ scheduled' \in BOOLEAN /\ (scheduled' => cache # {})
      BY <2>9 DEF GreetingWebhook, TypeInv, TypeOK
    <3>. QED
      BY <2>9, <3>1, <3>2, SeedType
         DEF GreetingWebhook, TypeInv, TypeOK, Records, kinds, carrier
  <2>10. ASSUME NEW p \in Calls, GreetingNeeded(p)
        PROVE  TypeInv'
    <3>1. /\ hook' \in [Calls -> {"none", "sent", "cold", "served"}]
          /\ odd' \in [Calls -> SUBSET Marks]
      BY <2>10 DEF GreetingNeeded, Unregistered, TypeInv, TypeOK
    <3>. QED  BY <2>10, <3>1 DEF GreetingNeeded, TypeInv, TypeOK, kinds, greetings
  <2>11. ASSUME NEW p \in Calls, GreetingLocked(p)
        PROVE  TypeInv'
    <3>1. CASE UNCHANGED build
      <4>1. ~MustBuild
        BY <2>11, <3>1 DEF GreetingLocked
      <4>2. Seed(p, cache) /\ cache \in SUBSET (Calls \cup {Nobody})
        BY <2>11, <4>1 DEF GreetingLocked, TypeInv, TypeOK
      <4>. QED
        BY <2>11, <3>1, <4>2, SeedType
           DEF GreetingLocked, TypeInv, TypeOK, Records, kinds
    <3>2. CASE cache = {} /\ build' = [by |-> {p}, of |-> Generated]
      <4>1. /\ build'.by = {p} /\ Cardinality(build'.by) <= 1
            /\ build' \in [by : SUBSET (Calls \cup {Nobody}), of : Calls \cup {Nobody}]
        <5>1. Generated \in Calls \cup {Nobody}
          BY <2>0 DEF Generated, TypeInv, TypeOK
        <5>2. Cardinality({p}) = 1
          BY Singletons, Zenon
        <5>. QED  BY <3>2, <5>1, <5>2
      <4>. QED
        <5>1. UNCHANGED <<place, kinds, leg, news, stream, cache, scheduled, jobs, rivals,
                          faults, turns>>
          BY <2>11 DEF GreetingLocked
        <5>2. UNCHANGED <<rec, profile, lead, served, hook, odd>>
          BY <2>11, <3>2 DEF GreetingLocked, MustBuild
        <5>3. ~scheduled
          BY <3>2 DEF TypeInv
        <5>. QED  BY <3>2, <4>1, <5>1, <5>2, <5>3 DEF TypeInv, TypeOK, kinds
    <3>. QED  BY <2>11, <3>1, <3>2 DEF GreetingLocked, MustBuild
  <2>12. ASSUME NEW p \in Calls, GreetingBuilt(p)
         PROVE  TypeInv'
    <3>1. /\ build.of \in Calls \cup {Nobody} /\ build.by = {p} /\ cache' = {build.of}
          /\ build'.by = {} /\ build'.of = Nobody
          /\ build' \in [by : SUBSET (Calls \cup {Nobody}), of : Calls \cup {Nobody}]
          /\ Seed(p, {build.of})
      BY <2>12 DEF GreetingBuilt, NoBuild, TypeInv, TypeOK
    <3>2. Cardinality(cache') <= 1 /\ Cardinality(build'.by) <= 1
      <4>1. Cardinality(cache') = 1 /\ Cardinality(build'.by) = 0
        BY <3>1, Singletons, Zenon
      <4>. QED  BY <4>1
    <3>3. /\ rec' \in [Calls -> Records] /\ profile' \in Calls \cup {Nobody}
          /\ lead' \in [Calls -> SUBSET (Calls \cup {Nobody})]
          /\ served' \in [Calls -> SUBSET (Calls \cup {Nobody})]
          /\ hook' \in [Calls -> {"none", "sent", "cold", "served"}]
          /\ odd' \in [Calls -> SUBSET Marks]
      BY <3>1, SeedType DEF TypeInv
    <3>. QED
      BY <2>12, <3>1, <3>2, <3>3 DEF GreetingBuilt, TypeInv, TypeOK, Records, kinds
  <2>13. ASSUME NEW p \in Calls, StreamStarts(p)
         PROVE  TypeInv'
    <3>1. rec' \in [Calls -> Records]
      BY <2>0, <2>13 DEF StreamStarts, Known, Records, Blank
    <3>2. /\ lead' \in [Calls -> SUBSET (Calls \cup {Nobody})]
          /\ served' \in [Calls -> SUBSET (Calls \cup {Nobody})]
          /\ stream' \in [Calls -> {"none", "open", "closed"}]
      BY <2>0, <2>13 DEF StreamStarts, Generated, TypeInv, TypeOK
    <3>3. odd' \in [Calls -> SUBSET Marks]
      BY <2>13 DEF StreamStarts, Unregistered, TypeInv, TypeOK
    <3>4. UNCHANGED <<place, kinds, carrier, profile, greetings, jobs, rivals, faults, turns>>
      BY <2>13 DEF StreamStarts
    <3>. QED
      BY <3>1, <3>2, <3>3, <3>4 DEF TypeInv, TypeOK, Records, kinds, carrier, greetings
  <2>14. ASSUME NEW p \in Calls, StreamCloses(p)
         PROVE  TypeInv'
    <3>1. rec' \in [Calls -> Records]
      BY <2>0, <2>14, CompletedParts DEF StreamCloses
    <3>2. /\ stream' \in [Calls -> {"none", "open", "closed"}]
          /\ leg' \in [Calls -> {"none", "ringing", "up", "over"}]
      BY <2>14 DEF StreamCloses, TypeInv, TypeOK
    <3>. QED
      BY <2>14, <3>1, <3>2
         DEF StreamCloses, TypeInv, TypeOK, Records, kinds, greetings, history
  <2>15. CASE RefreshStarts
    <3>1. /\ build' \in [by : SUBSET (Calls \cup {Nobody}), of : Calls \cup {Nobody}]
          /\ build'.by \in {build.by, {Nobody}}
      BY <2>0, <2>15 DEF RefreshStarts, Generated, Refresh, TypeInv, TypeOK
    <3>2. Cardinality(build'.by) <= 1
      <4>1. Cardinality({Nobody}) = 1
        BY Singletons, Zenon
      <4>2. Cardinality(build.by) <= 1
        BY DEF TypeInv, TypeOK
      <4>3. CASE build'.by = {Nobody}
        <5>1. Cardinality(build'.by) = 1
          BY <4>1, <4>3
        <5>. QED  BY <5>1
      <4>4. CASE build'.by = build.by
        BY <4>2, <4>4
      <4>. QED  BY <3>1, <4>3, <4>4
    <3>3. ~(build'.by \subseteq Calls /\ build'.by # {})
      BY <2>0, <2>15, <3>1 DEF RefreshStarts, TypeInv, TypeOK, Refresh
    <3>. QED
      BY <2>15, <3>1, <3>2, <3>3 DEF RefreshStarts, TypeInv, TypeOK, kinds, carrier, history
  <2>16. CASE RefreshEnds
    <3>1. /\ build.of \in Calls \cup {Nobody} /\ cache' = {build.of}
          /\ build'.by = {} /\ build'.of = Nobody
          /\ build' \in [by : SUBSET (Calls \cup {Nobody}), of : Calls \cup {Nobody}]
      BY <2>16 DEF RefreshEnds, NoBuild, TypeInv, TypeOK
    <3>2. Cardinality(cache') <= 1 /\ Cardinality(build'.by) <= 1
      <4>1. Cardinality(cache') = 1 /\ Cardinality(build'.by) = 0
        BY <3>1, Singletons, Zenon
      <4>. QED  BY <4>1
    <3>. QED
      BY <2>16, <3>1, <3>2 DEF RefreshEnds, TypeInv, TypeOK, kinds, carrier, history
  <2>17. CASE BuildFails
    <3>1. /\ build'.by = {} /\ build'.of = Nobody
          /\ build' \in [by : SUBSET (Calls \cup {Nobody}), of : Calls \cup {Nobody}]
      BY <2>17 DEF BuildFails, NoBuild
    <3>2. Cardinality(build'.by) <= 1
      <4>1. Cardinality(build'.by) = 0
        BY <3>1, Singletons, Zenon
      <4>. QED  BY <4>1
    <3>3. hook' \in [Calls -> {"none", "sent", "cold", "served"}] /\ faults' \in 0..MaxFaults
      BY <2>0, <2>17 DEF BuildFails, TypeInv, TypeOK
    <3>. QED
      BY <2>17, <3>1, <3>2, <3>3 DEF BuildFails, TypeInv, TypeOK, kinds
  <2>18. ASSUME NEW p \in Calls, TurnWebhook(p)
         PROVE  TypeInv'
    <3>1. PICK heard \in BOOLEAN :
            /\ jobs' = IF heard THEN jobs \cup {p} ELSE jobs
            /\ rec' = [rec EXCEPT ![p] = [Known(p) EXCEPT !.status = "active",
                                                          !.session = @ \/ ~heard]]
            /\ lead' = [lead EXCEPT ![p] = IF heard \/ Known(p).session THEN @ ELSE {}]
      BY <2>18 DEF TurnWebhook
    <3>2. rec' \in [Calls -> Records]
      <4>1. [Known(p) EXCEPT !.status = "active", !.session = @ \/ ~heard] \in Records
        BY <2>0, KnownParts DEF Records
      <4>. QED  BY <2>0, <3>1, <4>1
    <3>3. /\ jobs' \subseteq Calls /\ lead' \in [Calls -> SUBSET (Calls \cup {Nobody})]
      BY <3>1 DEF TypeInv, TypeOK
    <3>4. turns' \in 0..MaxTurns
      BY <2>18, CallsAssumption DEF TurnWebhook, TypeInv, TypeOK
    <3>5. odd' \in [Calls -> SUBSET Marks]
      BY <2>18 DEF TurnWebhook, Unregistered, TypeInv, TypeOK
    <3>. QED
      BY <2>18, <3>2, <3>3, <3>4, <3>5
         DEF TurnWebhook, TypeInv, TypeOK, Records, kinds, carrier, greetings
  <2>19. ASSUME NEW p \in Calls, TurnStarts(p)
         PROVE  TypeInv'
    <3>1. rec' \in [Calls -> Records]
      <4>1. [Known(p) EXCEPT !.session = TRUE] \in Records
        BY <2>0, KnownParts DEF Records
      <4>. QED  BY <2>0, <2>19, <4>1 DEF TurnStarts
    <3>2. jobs' \subseteq Calls /\ lead' \in [Calls -> SUBSET (Calls \cup {Nobody})]
      BY <2>19 DEF TurnStarts, TurnLeads, TypeInv, TypeOK
    <3>3. odd' \in [Calls -> SUBSET Marks]
      BY <2>19 DEF TurnStarts, Unregistered, TypeInv, TypeOK
    <3>. QED
      BY <2>19, <3>1, <3>2, <3>3
         DEF TurnStarts, TypeInv, TypeOK, Records, kinds, carrier, greetings
  <2>20. ASSUME NEW p \in Calls, EditLead(p)
         PROVE  TypeInv'
    <3>1. /\ lead' \in [Calls -> SUBSET (Calls \cup {Nobody})]
          /\ odd' \in [Calls -> SUBSET Marks]
      BY <2>20 DEF EditLead, TypeInv, TypeOK
    <3>2. turns' \in 0..MaxTurns
      BY <2>20, CallsAssumption DEF EditLead, TypeInv, TypeOK
    <3>. QED  BY <2>20, <3>1, <3>2 DEF EditLead, TypeInv, TypeOK, kinds, carrier, greetings
  <2>21. CASE UNCHANGED vars
    BY <2>21 DEF vars, TypeInv, TypeOK
  <2>. QED
    BY <2>1, <2>2, <2>3, <2>4, <2>5, <2>6, <2>7, <2>8, <2>9, <2>10, <2>11, <2>12,
       <2>13, <2>14, <2>15, <2>16, <2>17, <2>18, <2>19, <2>20, <2>21 DEF Next, CallStep
<1>. QED  BY InitialTypes, <1>1, PTL DEF Spec

-----------------------------------------------------------------------------
(* What each action does to the calls *)

\* Nothing about the call changes.
Kept(x) ==
  /\ place'[x] = place[x] /\ leg'[x] = leg[x] /\ news'[x] = news[x]
  /\ hook'[x] = hook[x] /\ rec'[x] = rec[x] /\ stream'[x] = stream[x]
  /\ served'[x] = served[x] /\ lead'[x] = lead[x] /\ odd'[x] = odd[x]
  /\ (x \in jobs') <=> (x \in jobs)

OthersKept(p) == UNCHANGED kinds /\ \A x \in Calls \ {p} : Kept(x)

\* What went out of order stays known; the reply to its request is not lost now.
Marked(p) == odd[p] \subseteq odd'[p] /\ ("lost" \in odd'[p] => "lost" \in odd[p])

LEMMA PlaceCallEffect ==
  ASSUME TypeInv, NEW p \in Calls, PlaceCall(p)
  PROVE  /\ OthersKept(p)
         /\ UNCHANGED <<carrier, rec, stream, greetings, served, jobs, lead, odd>>
         /\ place[p].pc = "idle"
         /\ \/ /\ ActiveCalls = {} /\ place'[p].pc = "dialing" /\ profile' = p
               /\ place'[p].greeting = Prepared(p)
            \/ /\ place'[p].pc = "ending" /\ place'[p].todo = ActiveCalls
               /\ UNCHANGED profile
         /\ rivals \subseteq rivals'
         /\ \A q \in Calls : Placing(q) => {p, q} \in rivals'
<1>1. place \in [Calls -> Places]
  BY DEF TypeInv, TypeOK, Places
<1>2. UNCHANGED <<kinds, carrier, rec, stream, greetings, served, jobs, lead, odd>>
  BY DEF PlaceCall
<1>3. rivals \subseteq rivals' /\ \A q \in Calls : Placing(q) => {p, q} \in rivals'
  BY DEF PlaceCall
<1>4. CASE ActiveCalls = {}
  <2>1. /\ place' = [place EXCEPT ![p] =
                      [pc |-> "dialing", todo |-> {}, greeting |-> Prepared(p)]]
        /\ profile' = p
    BY <1>4 DEF PlaceCall, Dialing
  <2>2. /\ place'[p].pc = "dialing" /\ place'[p].greeting = Prepared(p)
        /\ \A x \in Calls \ {p} : place'[x] = place[x]
    BY <1>1, <2>1
  <2>. QED
    BY <1>2, <1>3, <1>4, <2>1, <2>2 DEF PlaceCall, OthersKept, Kept, carrier
<1>5. CASE ActiveCalls # {}
  <2>1. ActiveCalls \in SUBSET Calls
    BY DEF ActiveCalls
  <2>2. /\ place' = [place EXCEPT ![p].pc = "ending", ![p].todo = ActiveCalls]
        /\ UNCHANGED profile
    BY <1>5 DEF PlaceCall
  <2>3. /\ place'[p].pc = "ending" /\ place'[p].todo = ActiveCalls
        /\ \A x \in Calls \ {p} : place'[x] = place[x]
    BY <1>1, <2>1, <2>2, EndingPlace
  <2>. QED
    BY <1>2, <1>3, <2>2, <2>3 DEF PlaceCall, OthersKept, Kept, carrier
<1>. QED  BY <1>4, <1>5

\* The carrier is asked to end call q: it ends, or was over, or goes on because
\* the request failed.
LEMMA HangsUpEffect ==
  ASSUME TypeInv, NEW q \in Calls, NEW ok \in BOOLEAN, HangsUp(q, ok)
  PROVE  /\ \A x \in Calls \ {q} : /\ leg'[x] = leg[x] /\ news'[x] = news[x]
                                   /\ odd'[x] = odd[x]
         /\ \/ UNCHANGED <<leg[q], news[q], odd[q]>> /\ (q \in exotel \/ ~Live(q))
            \/ /\ q \notin exotel /\ Live(q)
               /\ leg'[q] = "over" /\ news'[q] = news[q] \cup {"over"} /\ odd'[q] = odd[q]
            \/ /\ q \notin exotel /\ Live(q)
               /\ leg'[q] = leg[q] /\ news'[q] = news[q] /\ odd'[q] = odd[q] \cup {"kept"}
<1>1. /\ leg \in [Calls -> {"none", "ringing", "up", "over"}]
      /\ news \in [Calls -> SUBSET {"alive", "over"}]
      /\ odd \in [Calls -> SUBSET Marks]
  BY DEF TypeInv, TypeOK
<1>2. CASE ok /\ q \notin exotel /\ Live(q)
  <2>1. /\ leg' = [leg EXCEPT ![q] = "over"]
        /\ news' = [news EXCEPT ![q] = @ \cup {"over"}]
        /\ odd' = odd
    BY <1>2 DEF HangsUp
  <2>. QED  BY <1>1, <1>2, <2>1
<1>3. CASE ok /\ (q \in exotel \/ ~Live(q))
  <2>1. /\ leg' = [leg EXCEPT ![q] = @] /\ news' = [news EXCEPT ![q] = @] /\ odd' = odd
    BY <1>3 DEF HangsUp
  <2>. QED  BY <1>1, <1>3, <2>1
<1>4. CASE ~ok
  <2>1. /\ leg' = [leg EXCEPT ![q] = @] /\ news' = [news EXCEPT ![q] = @]
        /\ odd' = [odd EXCEPT ![q] = @ \cup {"kept"}]
        /\ q \notin exotel /\ Live(q)
    BY <1>4 DEF HangsUp
  <2>. QED  BY <1>1, <2>1
<1>. QED  BY <1>2, <1>3, <1>4

\* The engine ends q as one of the calls before p.
LEMMA EndPriorEffect ==
  ASSUME TypeInv, NEW p \in Calls, NEW q \in Calls, EndPrior(p, q)
  PROVE  /\ place[p].pc = "ending" /\ q \in place[p].todo
         /\ \/ /\ place[p].todo = {q} /\ place'[p].pc = "dialing" /\ profile' = p
               /\ place'[p].greeting = Prepared(p)
            \/ /\ place'[p].pc = "ending" /\ place'[p].todo = place[p].todo \ {q}
               /\ UNCHANGED profile
         /\ \A x \in Calls \ {p} : place'[x] = place[x]
         /\ rec' = Completed(q) /\ DropsPending(q) /\ \E ok \in BOOLEAN : HangsUp(q, ok)
         /\ UNCHANGED <<kinds, hook, stream, greetings, served, lead, rivals>>
<1>1. place \in [Calls -> Places]
  BY DEF TypeInv, TypeOK, Places
<1>2. CASE place[p].todo = {q}
  <2>1. /\ place' = [place EXCEPT ![p] =
                      [pc |-> "dialing", todo |-> {}, greeting |-> Prepared(p)]]
        /\ profile' = p
    BY <1>2 DEF EndPrior, Dialing
  <2>. QED  BY <1>1, <1>2, <2>1 DEF EndPrior
<1>3. CASE place[p].todo # {q}
  <2>1. place' = [place EXCEPT ![p].todo = @ \ {q}] /\ UNCHANGED profile
    BY <1>3 DEF EndPrior
  <2>2. /\ place'[p].pc = place[p].pc /\ place'[p].todo = place[p].todo \ {q}
        /\ \A x \in Calls \ {p} : place'[x] = place[x]
    BY <1>1, <2>1 DEF Places
  <2>. QED  BY <2>1, <2>2 DEF EndPrior
<1>. QED  BY <1>2, <1>3

LEMMA CreatesEffect ==
  ASSUME TypeInv, NEW p \in Calls, Creates(p)
  PROVE  /\ OthersKept(p)
         /\ UNCHANGED <<place, hook, rec, stream, greetings, served, jobs, lead, odd, rivals>>
         /\ place[p].pc = "dialing" /\ leg[p] = "none" /\ leg'[p] = "ringing"
         /\ news'[p] = IF p \in exotel THEN {} ELSE {"alive"}
BY DEF TypeInv, TypeOK, Creates, OthersKept, Kept, history, greetings

LEMMA RegistersEffect ==
  ASSUME TypeInv, NEW p \in Calls, Registers(p)
  PROVE  /\ OthersKept(p)
         /\ UNCHANGED <<carrier, stream, greetings, served, jobs, lead, odd, rivals>>
         /\ place[p].pc = "dialing" /\ place'[p].pc = "done"
         /\ rec'[p].status = "active" /\ rec'[p].own /\ ~rec'[p].session
         /\ rec'[p].greeting = place[p].greeting
<1>1. place \in [Calls -> Places] /\ rec \in [Calls -> Records]
  BY DEF TypeInv, TypeOK, Places, Records
<1>2. /\ rec'[p].status = "active" /\ rec'[p].own /\ ~rec'[p].session
      /\ rec'[p].greeting = place[p].greeting
      /\ \A x \in Calls \ {p} : rec'[x] = rec[x]
  BY <1>1 DEF Registers, Blank
<1>3. place'[p].pc = "done" /\ \A x \in Calls \ {p} : place'[x] = place[x]
  BY <1>1 DEF Registers, Idle
<1>. QED  BY <1>2, <1>3 DEF Registers, OthersKept, Kept, history, carrier

LEMMA DialFailsEffect ==
  ASSUME TypeInv, NEW p \in Calls, DialFails(p)
  PROVE  /\ OthersKept(p)
         /\ UNCHANGED <<carrier, rec, stream, greetings, served, jobs, lead, rivals>>
         /\ place[p].pc = "dialing" /\ place'[p].pc = "done"
         /\ IF leg[p] = "none" THEN odd'[p] = odd[p] ELSE odd'[p] = odd[p] \cup {"lost"}
<1>1. /\ place \in [Calls -> Places]
      /\ odd \in [Calls -> SUBSET Marks]
  BY DEF TypeInv, TypeOK, Places
<1>2. place'[p].pc = "done" /\ \A x \in Calls \ {p} : place'[x] = place[x]
  BY <1>1 DEF DialFails, Idle
<1>3. odd' = IF leg[p] = "none" THEN odd ELSE [odd EXCEPT ![p] = @ \cup {"lost"}]
  BY DEF DialFails
<1>. QED  BY <1>1, <1>2, <1>3 DEF DialFails, OthersKept, Kept, carrier

LEMMA CarrierEffect ==
  ASSUME TypeInv, NEW p \in Calls, Answer(p) \/ AsksAgain(p) \/ CallEnds(p)
  PROVE  /\ OthersKept(p)
         /\ UNCHANGED <<place, rec, stream, greetings, served, jobs, lead, odd, rivals>>
         /\ \/ /\ leg[p] = "ringing" /\ leg'[p] = "up"
               /\ IF p \in exotel THEN UNCHANGED <<news[p], hook[p]>>
                  ELSE news'[p] = news[p] \cup {"alive"} /\ hook'[p] = "sent"
            \/ /\ hook[p] = "served" /\ leg[p] = "up" /\ hook'[p] = "sent" /\ p \notin jobs
               /\ UNCHANGED <<leg[p], news[p]>>
            \/ /\ Live(p) /\ leg'[p] = "over" /\ UNCHANGED hook[p]
               /\ news'[p] = IF p \in exotel THEN news[p] ELSE news[p] \cup {"over"}
<1>1. /\ leg \in [Calls -> {"none", "ringing", "up", "over"}]
      /\ news \in [Calls -> SUBSET {"alive", "over"}]
      /\ hook \in [Calls -> {"none", "sent", "cold", "served"}]
  BY DEF TypeInv, TypeOK
<1>2. CASE Answer(p)
  BY <1>1, <1>2 DEF Answer, OthersKept, Kept, history
<1>3. CASE AsksAgain(p)
  BY <1>1, <1>3 DEF AsksAgain, OthersKept, Kept
<1>4. CASE CallEnds(p)
  BY <1>1, <1>4 DEF CallEnds, OthersKept, Kept, history
<1>. QED  BY <1>2, <1>3, <1>4

LEMMA StatusCallbackEffect ==
  ASSUME TypeInv, NEW p \in Calls, NEW e \in {"alive", "over"}, StatusCallback(p, e)
  PROVE  /\ OthersKept(p)
         /\ UNCHANGED <<place, leg, hook, stream, greetings, served, jobs, lead, rivals>>
         /\ e \in news[p] /\ news'[p] = news[p] \ {e}
         /\ rec'[p].status = IF rec[p].status = "none" THEN "none" ELSE Shown(e)
         /\ rec'[p].own = rec[p].own /\ rec'[p].greeting = rec[p].greeting
         /\ rec'[p].session = rec[p].session
         /\ Marked(p)
         /\ rec[p].status = "none" => "early" \in odd'[p]
         /\ e = "alive" /\ leg[p] = "over" /\ "over" \notin news[p] =>
              "reordered" \in odd'[p]
<1>1. /\ rec \in [Calls -> Records]
      /\ news \in [Calls -> SUBSET {"alive", "over"}]
      /\ odd \in [Calls -> SUBSET Marks]
  BY DEF TypeInv, TypeOK, Records
<1>2. /\ rec'[p].status = IF rec[p].status = "none" THEN "none" ELSE Shown(e)
      /\ rec'[p].own = rec[p].own /\ rec'[p].greeting = rec[p].greeting
      /\ rec'[p].session = rec[p].session
      /\ \A x \in Calls \ {p} : rec'[x] = rec[x]
  BY <1>1 DEF StatusCallback, Records
<1>3. /\ Marked(p)
      /\ rec[p].status = "none" => "early" \in odd'[p]
      /\ e = "alive" /\ leg[p] = "over" /\ "over" \notin news[p] =>
           "reordered" \in odd'[p]
      /\ \A x \in Calls \ {p} : odd'[x] = odd[x]
  BY <1>1 DEF StatusCallback, Marked
<1>. QED  BY <1>1, <1>2, <1>3 DEF StatusCallback, OthersKept, Kept

\* The session of call p is asked for, with a greeting.
Seeded(p, g) ==
  /\ rec'[p].status = "active" /\ rec'[p].session
  /\ IF rec[p].status = "none" THEN ~rec'[p].own /\ rec'[p].greeting = {}
     ELSE rec'[p].own = rec[p].own /\ rec'[p].greeting = rec[p].greeting
  /\ lead'[p] = IF rec[p].status = "none" \/ ~rec[p].session
                THEN {SeedFacts(p)} ELSE lead[p]
  /\ served'[p] = g /\ hook'[p] = "served"
  /\ Marked(p)
  /\ rec[p].status = "none" => "early" \in odd'[p]
  /\ leg[p] = "over" => "late" \in odd'[p]

LEMMA SeedEffect ==
  ASSUME TypeInv, NEW p \in Calls, NEW g, Seed(p, g)
  PROVE  /\ Seeded(p, g)
         /\ \A x \in Calls \ {p} : /\ rec'[x] = rec[x] /\ lead'[x] = lead[x]
                                   /\ served'[x] = served[x] /\ hook'[x] = hook[x]
                                   /\ odd'[x] = odd[x]
<1>1. /\ rec \in [Calls -> Records]
      /\ lead \in [Calls -> SUBSET (Calls \cup {Nobody})]
      /\ served \in [Calls -> SUBSET (Calls \cup {Nobody})]
      /\ hook \in [Calls -> {"none", "sent", "cold", "served"}]
      /\ odd \in [Calls -> SUBSET Marks]
  BY DEF TypeInv, TypeOK, Records
<1>2. /\ \A x \in Calls \ {p} : rec'[x] = rec[x]
      /\ rec'[p].status = "active" /\ rec'[p].session
      /\ IF rec[p].status = "none" THEN ~rec'[p].own /\ rec'[p].greeting = {}
         ELSE rec'[p].own = rec[p].own /\ rec'[p].greeting = rec[p].greeting
  BY <1>1, SeedRecord
<1>. DEFINE first == rec[p].status = "none" \/ ~rec[p].session
<1>3. /\ lead' = [lead EXCEPT ![p] = IF first THEN {SeedFacts(p)} ELSE @]
      /\ served' = [served EXCEPT ![p] = g]
      /\ hook' = [hook EXCEPT ![p] = "served"]
      /\ odd' = [odd EXCEPT ![p] = @
           \cup (IF rec[p].status = "none" THEN {"early"} ELSE {})
           \cup (IF leg[p] = "over" THEN {"late"} ELSE {})]
  BY <1>1, SeedRest
<1>4. /\ lead'[p] = IF first THEN {SeedFacts(p)} ELSE lead[p]
      /\ \A x \in Calls \ {p} : lead'[x] = lead[x]
  BY <1>1, <1>3
<1>5. /\ Marked(p)
      /\ rec[p].status = "none" => "early" \in odd'[p]
      /\ leg[p] = "over" => "late" \in odd'[p]
      /\ \A x \in Calls \ {p} : odd'[x] = odd[x]
  BY <1>1, <1>3 DEF Marked
<1>6. /\ served'[p] = g /\ hook'[p] = "served"
      /\ \A x \in Calls \ {p} : served'[x] = served[x] /\ hook'[x] = hook[x]
  BY <1>1, <1>3
<1>. QED  BY <1>2, <1>4, <1>5, <1>6 DEF Seeded

\* The steps in which the greeting webhook of p is answered.
LEMMA GreetingEffect ==
  ASSUME TypeInv, NEW p \in Calls,
         GreetingWebhook(p) \/ GreetingLocked(p) \/ GreetingBuilt(p)
  PROVE  /\ OthersKept(p) /\ UNCHANGED <<place, leg, news, stream, jobs, rivals>>
         /\ \/ /\ hook[p] = "sent" /\ UNCHANGED build
               /\ \E g : Seeded(p, g) /\ (rec[p].greeting # {} => g = rec[p].greeting)
            \/ hook[p] = "cold" /\ build.by = {} /\ UNCHANGED build /\ \E g : Seeded(p, g)
            \/ hook[p] = "cold" /\ Kept(p) /\ build'.by = {p}
            \/ build.by = {p} /\ build'.by = {} /\ \E g : Seeded(p, g)
<1>1. CASE GreetingWebhook(p)
  <2>1. PICK g : Seed(p, g) /\ (rec[p].greeting # {} => g = rec[p].greeting)
    BY <1>1 DEF GreetingWebhook
  <2>. QED
    BY <1>1, <2>1, SeedEffect DEF GreetingWebhook, Asked, OthersKept, Kept
<1>2. CASE GreetingLocked(p)
  <2>1. CASE Seed(p, cache) /\ UNCHANGED build
    BY <1>2, <2>1, SeedEffect DEF GreetingLocked, OthersKept, Kept
  <2>2. CASE /\ build' = [by |-> {p}, of |-> Generated]
             /\ UNCHANGED <<rec, profile, lead, served, hook, odd>>
    BY <1>2, <2>2 DEF GreetingLocked, OthersKept, Kept
  <2>. QED  BY <1>2, <2>1, <2>2 DEF GreetingLocked
<1>3. CASE GreetingBuilt(p)
  <2>1. Seed(p, {build.of}) /\ build'.by = {}
    BY <1>3 DEF GreetingBuilt, NoBuild
  <2>. QED
    BY <1>3, <2>1, SeedEffect DEF GreetingBuilt, OthersKept, Kept
<1>. QED  BY <1>1, <1>2, <1>3

LEMMA GreetingNeededEffect ==
  ASSUME TypeInv, NEW p \in Calls, GreetingNeeded(p)
  PROVE  /\ OthersKept(p)
         /\ UNCHANGED <<place, leg, news, rec, stream, greetings, served, jobs, lead, rivals>>
         /\ hook[p] = "sent" /\ hook'[p] = "cold" /\ rec[p].greeting = {}
         /\ Marked(p)
         /\ rec[p].status = "none" => "early" \in odd'[p]
<1>1. /\ hook \in [Calls -> {"none", "sent", "cold", "served"}]
      /\ odd \in [Calls -> SUBSET Marks]
  BY DEF TypeInv, TypeOK
<1>2. /\ Marked(p) /\ \A x \in Calls \ {p} : odd'[x] = odd[x]
      /\ rec[p].status = "none" => "early" \in odd'[p]
  BY <1>1 DEF GreetingNeeded, Unregistered, Marked
<1>. QED  BY <1>1, <1>2 DEF GreetingNeeded, Asked, OthersKept, Kept

LEMMA StreamEffect ==
  ASSUME TypeInv, NEW p \in Calls, StreamStarts(p) \/ StreamCloses(p)
  PROVE  /\ OthersKept(p) /\ UNCHANGED <<place, news, hook, greetings, jobs, rivals>>
         /\ Marked(p)
         /\ rec[p].status = "none" /\ rec'[p].status # "none" => "early" \in odd'[p]
         /\ \/ /\ p \in exotel /\ leg[p] = "up" /\ leg'[p] = leg[p]
               /\ stream'[p] = "open"
               /\ rec'[p].status = "active" /\ rec'[p].session
               /\ IF rec[p].status = "none" THEN ~rec'[p].own /\ rec'[p].greeting = {}
                  ELSE rec'[p].own = rec[p].own /\ rec'[p].greeting = rec[p].greeting
            \/ /\ stream[p] = "open" /\ stream'[p] = "closed" /\ leg'[p] = "over"
               /\ rec' = Completed(p) /\ UNCHANGED <<served[p], lead[p]>>
<1>1. /\ rec \in [Calls -> Records] /\ leg \in [Calls -> {"none", "ringing", "up", "over"}]
      /\ lead \in [Calls -> SUBSET (Calls \cup {Nobody})]
      /\ served \in [Calls -> SUBSET (Calls \cup {Nobody})]
      /\ stream \in [Calls -> {"none", "open", "closed"}]
      /\ odd \in [Calls -> SUBSET Marks]
  BY DEF TypeInv, TypeOK, Records
<1>2. CASE StreamStarts(p)
  <2>1. /\ \A x \in Calls \ {p} : rec'[x] = rec[x]
        /\ rec'[p].status = "active" /\ rec'[p].session
        /\ IF rec[p].status = "none" THEN ~rec'[p].own /\ rec'[p].greeting = {}
           ELSE rec'[p].own = rec[p].own /\ rec'[p].greeting = rec[p].greeting
    <3>1. CASE rec[p].status = "none"
      BY <1>1, <1>2, <3>1 DEF StreamStarts, Known, Blank, Records
    <3>2. CASE rec[p].status # "none"
      BY <1>1, <1>2, <3>2 DEF StreamStarts, Known, Records
    <3>. QED  BY <3>1, <3>2
  <2>2. /\ Marked(p)
        /\ rec[p].status = "none" => "early" \in odd'[p]
        /\ \A x \in Calls \ {p} : odd'[x] = odd[x]
    BY <1>1, <1>2 DEF StreamStarts, Unregistered, Marked
  <2>3. /\ stream'[p] = "open" /\ \A x \in Calls \ {p} : stream'[x] = stream[x]
        /\ \A x \in Calls \ {p} : lead'[x] = lead[x] /\ served'[x] = served[x]
    BY <1>1, <1>2 DEF StreamStarts
  <2>. QED
    BY <1>2, <2>1, <2>2, <2>3 DEF StreamStarts, Connects, OthersKept, Kept, carrier
<1>3. CASE StreamCloses(p)
  <2>1. rec' = Completed(p) /\ \A x \in Calls \ {p} : rec'[x] = rec[x]
    BY <1>1, <1>3, CompletedParts DEF StreamCloses
  <2>2. rec[p].status = "none" => rec'[p].status = "none"
    BY <1>1, <2>1, CompletedParts
  <2>. QED
    BY <1>1, <1>3, <2>1, <2>2 DEF StreamCloses, OthersKept, Kept, Marked, history
<1>. QED  BY <1>2, <1>3

\* What a turn, and an edit of the lead, leave alone.
TurnKeeps(p) ==
  /\ UNCHANGED <<place, carrier, stream, profile, greetings, served, rivals>>
  /\ rec'[p].own = rec[p].own /\ rec'[p].greeting = rec[p].greeting
  /\ Marked(p)

\* A turn that comes for a call with a record.
LEMMA TurnWebhookEffect ==
  ASSUME TypeInv, NEW p \in Calls, rec[p].status # "none", TurnWebhook(p)
  PROVE  /\ OthersKept(p) /\ TurnKeeps(p)
         /\ hook[p] = "served" /\ served[p] # {} /\ leg[p] \in {"up", "over"}
         /\ rec'[p].status = "active"
         /\ \/ rec'[p].session = rec[p].session /\ lead'[p] = lead[p]
            \/ rec'[p].session /\ lead'[p] = IF rec[p].session THEN lead[p] ELSE {}
         /\ leg[p] = "over" => "late" \in odd'[p]
<1>1. /\ rec \in [Calls -> Records] /\ Known(p) = rec[p]
      /\ lead \in [Calls -> SUBSET (Calls \cup {Nobody})]
      /\ odd \in [Calls -> SUBSET Marks]
  BY KnownParts DEF TypeInv, TypeOK, Records
<1>2. PICK heard \in BOOLEAN :
        /\ jobs' = IF heard THEN jobs \cup {p} ELSE jobs
        /\ rec' = [rec EXCEPT ![p] = [Known(p) EXCEPT !.status = "active",
                                                      !.session = @ \/ ~heard]]
        /\ lead' = [lead EXCEPT ![p] = IF heard \/ Known(p).session THEN @ ELSE {}]
  BY DEF TurnWebhook
<1>3. /\ rec'[p].status = "active" /\ rec'[p].own = rec[p].own
      /\ rec'[p].greeting = rec[p].greeting
      /\ rec'[p].session = (rec[p].session \/ ~heard)
      /\ \A x \in Calls \ {p} : rec'[x] = rec[x]
  BY <1>1, <1>2 DEF Records
<1>4. /\ lead'[p] = IF heard \/ rec[p].session THEN lead[p] ELSE {}
      /\ \A x \in Calls \ {p} : lead'[x] = lead[x]
  BY <1>1, <1>2
<1>5. \A x \in Calls \ {p} : (x \in jobs') <=> (x \in jobs)
  BY <1>2
<1>6. /\ Marked(p) /\ \A x \in Calls \ {p} : odd'[x] = odd[x]
      /\ leg[p] = "over" => "late" \in odd'[p]
  BY <1>1 DEF TurnWebhook, Unregistered, Marked
<1>7. UNCHANGED <<place, kinds, carrier, stream, profile, greetings, served, rivals>>
  BY DEF TurnWebhook
<1>8. OthersKept(p) /\ TurnKeeps(p)
  BY <1>3, <1>4, <1>5, <1>6, <1>7 DEF OthersKept, Kept, TurnKeeps, carrier
<1>9. \/ rec'[p].session = rec[p].session /\ lead'[p] = lead[p]
      \/ rec'[p].session /\ lead'[p] = IF rec[p].session THEN lead[p] ELSE {}
  <2>1. rec[p].session \in BOOLEAN
    BY <1>1 DEF Records
  <2>2. CASE heard
    BY <1>3, <1>4, <2>1, <2>2
  <2>3. CASE ~heard
    BY <1>3, <1>4, <2>3
  <2>. QED  BY <2>2, <2>3
<1>. QED  BY <1>3, <1>6, <1>8, <1>9 DEF TurnWebhook, Listening

LEMMA TurnStartsEffect ==
  ASSUME TypeInv, NEW p \in Calls, rec[p].status # "none", TurnStarts(p)
  PROVE  /\ OthersKept(p) /\ TurnKeeps(p)
         /\ p \in jobs /\ p \notin jobs'
         /\ rec'[p].status = rec[p].status /\ rec'[p].session
         /\ IF rec[p].session /\ lead[p] # {} THEN lead'[p] = lead[p]
            ELSE lead'[p] \in {{profile}, {}}
         /\ leg[p] = "over" => "overran" \in odd'[p]
<1>1. /\ rec \in [Calls -> Records] /\ Known(p) = rec[p]
      /\ lead \in [Calls -> SUBSET (Calls \cup {Nobody})]
      /\ odd \in [Calls -> SUBSET Marks]
  BY KnownParts DEF TypeInv, TypeOK, Records
<1>2. /\ rec'[p].status = rec[p].status /\ rec'[p].own = rec[p].own
      /\ rec'[p].greeting = rec[p].greeting /\ rec'[p].session
      /\ \A x \in Calls \ {p} : rec'[x] = rec[x]
  BY <1>1 DEF TurnStarts, Records
<1>3. /\ IF rec[p].session /\ lead[p] # {} THEN lead'[p] = lead[p]
         ELSE lead'[p] \in {{profile}, {}}
      /\ \A x \in Calls \ {p} : lead'[x] = lead[x]
  BY <1>1 DEF TurnStarts, TurnLeads
<1>4. /\ Marked(p) /\ \A x \in Calls \ {p} : odd'[x] = odd[x]
      /\ leg[p] = "over" => "overran" \in odd'[p]
  BY <1>1 DEF TurnStarts, Unregistered, Marked
<1>5. /\ UNCHANGED <<place, kinds, carrier, stream, profile, greetings, served, rivals>>
      /\ p \in jobs /\ jobs' = jobs \ {p}
  BY DEF TurnStarts
<1>6. OthersKept(p) /\ TurnKeeps(p)
  BY <1>2, <1>3, <1>4, <1>5 DEF OthersKept, Kept, TurnKeeps, carrier
<1>. QED  BY <1>2, <1>3, <1>4, <1>5, <1>6

LEMMA EditLeadEffect ==
  ASSUME TypeInv, NEW p \in Calls, EditLead(p)
  PROVE  /\ OthersKept(p) /\ TurnKeeps(p) /\ UNCHANGED <<rec, jobs>>
         /\ "edited" \in odd'[p]
<1>1. /\ lead \in [Calls -> SUBSET (Calls \cup {Nobody})]
      /\ odd \in [Calls -> SUBSET Marks]
  BY DEF TypeInv, TypeOK
<1>2. \A x \in Calls \ {p} : lead'[x] = lead[x]
  BY <1>1 DEF EditLead
<1>3. /\ Marked(p) /\ "edited" \in odd'[p] /\ \A x \in Calls \ {p} : odd'[x] = odd[x]
  BY <1>1 DEF EditLead, Marked
<1>. QED  BY <1>2, <1>3 DEF EditLead, OthersKept, Kept, TurnKeeps, carrier

-----------------------------------------------------------------------------
(* The invariant of one call *)

Reached(p) == rec[p].status # "none"
Finished(p) == rec[p].status = "completed" /\ place[p].pc = "done"

\* A record, and only a record, holds the facts of its call or a session; one
\* that is there before the call is registered was made by a webhook that came
\* too early.
RecordInv(p) ==
  /\ Reached(p) <=> rec[p].own \/ rec[p].session
  /\ Reached(p) /\ ~rec[p].own => "early" \in odd[p]
  /\ Reached(p) /\ place[p].pc # "done" => "early" \in odd[p]

\* The placing request is over when it registers the call, or loses the reply.
PlacedInv(p) ==
  /\ rec[p].own => place[p].pc = "done"
  /\ "lost" \in odd[p] => place[p].pc = "done" /\ ~rec[p].own

\* The carrier knows a call only from its dialing on, and asks for the greeting
\* only of an answered Twilio call.
CarrierInv(p) ==
  /\ leg[p] # "none" => place[p].pc \in {"dialing", "done"}
  /\ leg[p] \in {"none", "ringing"} => hook[p] = "none"
  /\ p \in exotel => hook[p] = "none" /\ news[p] = {}
  /\ stream[p] # "none" => p \in exotel /\ leg[p] # "none" /\ Reached(p)

\* The greeting prepared for a call with a name goes from the placing request
\* to the record and from there to the carrier.
GreetingInv(p) ==
  p \in named \ exotel =>
    /\ place[p].pc = "dialing" => place[p].greeting = {p}
    /\ rec[p].own => rec[p].greeting = {p}
    /\ rec[p].greeting \in {{}, {p}}
    /\ hook[p] = "cold" => "early" \in odd[p]
    /\ served[p] # {} => served[p] = {p} \/ "early" \in odd[p]

\* Turns come for calls that were greeted.
JobInv(p) ==
  /\ served[p] # {} => Reached(p)
  /\ p \in jobs => served[p] # {} /\ hook[p] = "served"

\* A greeted call keeps its session and its lead, unless its record was replaced
\* by the one the placing request registers: only then a turn makes a new lead.
LeadInv(p) ==
  p \notin exotel /\ "edited" \notin odd[p] =>
    /\ "early" \notin odd[p] => lead[p] \subseteq {p}
    /\ ~rec[p].own \/ "early" \notin odd[p] =>
         /\ served[p] # {} => rec[p].session
         /\ rec[p].session => lead[p] # {}

\* Once nothing is on its way about a call that is over, its record is complete
\* or something came out of order.
EndInv(p) ==
  /\ p \notin exotel /\ "over" \in news[p] => leg[p] = "over"
  /\ p \notin exotel /\ leg[p] = "over" /\ "over" \notin news[p] =>
       Finished(p) \/ \E c \in {"early", "reordered", "late"} : c \in odd[p]
  /\ stream[p] = "closed" => Finished(p) \/ "early" \in odd[p]

\* A build of a webhook is the build of one that waits.
BuildInv(p) == p \in build.by => hook[p] = "cold"

CallInv(p) == /\ RecordInv(p) /\ PlacedInv(p) /\ CarrierInv(p) /\ GreetingInv(p)
              /\ JobInv(p) /\ LeadInv(p) /\ EndInv(p) /\ BuildInv(p)

\* The invariant of a call depends on that call only.
LEMMA KeptCall ==
  ASSUME NEW x, CallInv(x), Kept(x), UNCHANGED kinds, x \in build'.by => x \in build.by
  PROVE  CallInv(x)'
BY DEF CallInv, RecordInv, PlacedInv, CarrierInv, GreetingInv, JobInv, LeadInv, EndInv,
       BuildInv, Kept, kinds, Reached, Finished

LEMMA PreparedGreeting ==
  ASSUME NEW p, p \in named \ exotel
  PROVE  Prepared(p) = {p}
BY DEF Prepared, Voice

\* Ending or completing a call.
LEMMA CompletedCall ==
  ASSUME TypeInv, NEW q \in Calls, CallInv(q), rec' = Completed(q),
         \E ok \in BOOLEAN : HangsUp(q, ok),
         place'[q].pc = place[q].pc
           \/ (leg[q] = "none" /\ place[q].pc # "done" /\ place'[q].pc # "done"),
         place'[q].pc = "dialing" =>
           place'[q].greeting = IF place[q].pc = "dialing" THEN place[q].greeting
                                ELSE Prepared(q),
         DropsPending(q), UNCHANGED <<kinds, hook, stream, build, served, lead>>
  PROVE  CallInv(q)'
<1>1. PICK ok \in BOOLEAN : HangsUp(q, ok)
  OBVIOUS
<1>2. /\ rec[q].status \in {"none", "active", "completed"}
      /\ leg[q] \in {"none", "ringing", "up", "over"}
  BY DEF TypeInv, TypeOK
<1>3. /\ rec'[q].status = IF rec[q].status = "none" THEN "none" ELSE "completed"
      /\ rec'[q].own = rec[q].own /\ rec'[q].greeting = rec[q].greeting
      /\ rec'[q].session = rec[q].session
  BY CompletedParts DEF TypeInv, TypeOK, Records
<1>4. \/ UNCHANGED <<leg[q], news[q], odd[q]>> /\ (q \in exotel \/ ~Live(q))
      \/ /\ q \notin exotel /\ Live(q)
         /\ leg'[q] = "over" /\ news'[q] = news[q] \cup {"over"} /\ odd'[q] = odd[q]
      \/ /\ q \notin exotel /\ Live(q)
         /\ leg'[q] = leg[q] /\ news'[q] = news[q] /\ odd'[q] = odd[q] \cup {"kept"}
  BY <1>1, HangsUpEffect
<1>5. RecordInv(q)'
  BY <1>3, <1>4 DEF CallInv, RecordInv, Reached
<1>6. CarrierInv(q)'
  BY <1>2, <1>3, <1>4 DEF CallInv, CarrierInv, Reached, Live, kinds
<1>7. GreetingInv(q)'
  BY <1>3, <1>4, PreparedGreeting DEF CallInv, GreetingInv, kinds
<1>8. LeadInv(q)' /\ JobInv(q)' /\ BuildInv(q)' /\ PlacedInv(q)'
  <2>1. LeadInv(q)'
    BY <1>3, <1>4 DEF CallInv, LeadInv, kinds
  <2>2. JobInv(q)' /\ BuildInv(q)'
    BY <1>3 DEF CallInv, JobInv, BuildInv, Reached, DropsPending
  <2>3. PlacedInv(q)'
    BY <1>3, <1>4 DEF CallInv, PlacedInv, CarrierInv, Live
  <2>. QED  BY <2>1, <2>2, <2>3
<1>9. EndInv(q)'
  BY <1>2, <1>3, <1>4
     DEF CallInv, EndInv, CarrierInv, RecordInv, Reached, Finished, Live, kinds
<1>. QED  BY <1>5, <1>6, <1>7, <1>8, <1>9 DEF CallInv

\* A webhook that is answered.
LEMMA SeededCall ==
  ASSUME TypeInv, NEW p \in Calls, CallInv(p), NEW g, Seeded(p, g),
         \/ hook[p] = "sent" /\ (rec[p].greeting # {} => g = rec[p].greeting)
         \/ hook[p] = "cold",
         UNCHANGED <<kinds, place, leg, news, stream, jobs>>,
         p \notin build'.by
  PROVE  CallInv(p)'
<1>1. /\ hook[p] \in {"sent", "cold"} /\ p \notin exotel /\ stream[p] = "none"
      /\ leg[p] \in {"up", "over"} /\ place[p].pc \in {"dialing", "done"}
      /\ rec[p].own \in BOOLEAN /\ rec[p].session \in BOOLEAN
  BY DEF CallInv, CarrierInv, TypeInv, TypeOK
<1>2. RecordInv(p)' /\ PlacedInv(p)'
  BY DEF Seeded, Marked, CallInv, RecordInv, PlacedInv, Reached
<1>3. CarrierInv(p)'
  BY <1>1 DEF Seeded, CallInv, CarrierInv, Reached, kinds
<1>4. GreetingInv(p)'
  BY <1>1 DEF Seeded, Marked, CallInv, GreetingInv, RecordInv, Reached, kinds
<1>5. LeadInv(p)' /\ JobInv(p)'
  <2>1. JobInv(p)'
    BY <1>1 DEF Seeded, CallInv, JobInv, Reached
  <2>2. LeadInv(p)'
    BY <1>1 DEF Seeded, Marked, SeedFacts, CallInv, LeadInv, RecordInv, Reached, kinds
  <2>. QED  BY <2>1, <2>2
<1>6. EndInv(p)'
  BY <1>1 DEF Seeded, Marked, CallInv, EndInv, kinds
<1>. QED  BY <1>2, <1>3, <1>4, <1>5, <1>6 DEF CallInv, BuildInv

CallsInv == \A x \in Calls : CallInv(x)

\* The turns of a call, and the edits of its lead, all concern a call with a
\* record, and leave the other calls alone.
LEMMA TurnEffect ==
  ASSUME TypeInv, CallsInv, NEW p \in Calls, TurnWebhook(p) \/ TurnStarts(p) \/ EditLead(p)
  PROVE  /\ OthersKept(p) /\ TurnKeeps(p)
         /\ rec'[p].status = "active" \/ rec'[p].status = rec[p].status
<1>1. CASE TurnWebhook(p)
  <2>1. rec[p].status # "none"
    BY <1>1 DEF CallsInv, CallInv, JobInv, Reached, TurnWebhook, Listening
  <2>. QED  BY <1>1, <2>1, TurnWebhookEffect
<1>2. CASE TurnStarts(p)
  <2>1. rec[p].status # "none"
    BY <1>2 DEF CallsInv, CallInv, JobInv, Reached, TurnStarts
  <2>. QED  BY <1>2, <2>1, TurnStartsEffect
<1>3. CASE EditLead(p)
  BY <1>3, EditLeadEffect
<1>. QED  BY <1>1, <1>2, <1>3

\* A step of one call keeps the invariant of every call if it keeps that of its
\* own.
LEMMA OneCall ==
  ASSUME CallsInv, NEW p \in Calls, OthersKept(p), CallInv(p)',
         \A x \in Calls \ {p} : x \in build'.by => x \in build.by
  PROVE  CallsInv'
<1>. SUFFICES ASSUME NEW x \in Calls
              PROVE  CallInv(x)'
  BY DEF CallsInv
<1>1. CASE x = p
  BY <1>1
<1>2. CASE x # p
  <2>1. CallInv(x) /\ Kept(x) /\ UNCHANGED kinds /\ (x \in build'.by => x \in build.by)
    BY <1>2 DEF CallsInv, OthersKept
  <2>. QED  BY <2>1, KeptCall
<1>. QED  BY <1>1, <1>2

LEMMA CallsInvStep ==
  ASSUME TypeInv, CallsInv, [Next]_vars
  PROVE  CallsInv'
<1>0. \A x \in Calls : CallInv(x)
  BY DEF CallsInv
<1>1. ASSUME NEW p \in Calls, PlaceCall(p)
      PROVE  CallsInv'
  <2>1. /\ OthersKept(p)
        /\ UNCHANGED <<carrier, rec, stream, greetings, served, jobs, lead, odd>>
        /\ place[p].pc = "idle" /\ place'[p].pc \in {"ending", "dialing"}
        /\ place'[p].pc = "dialing" => place'[p].greeting = Prepared(p)
    BY <1>1, PlaceCallEffect
  <2>2. CallInv(p) /\ UNCHANGED <<named, exotel, leg, news, hook, build>>
    BY <1>0, <2>1 DEF OthersKept, kinds, carrier, greetings
  <2>3. CallInv(p)'
    <3>1. GreetingInv(p)'
      BY <2>1, <2>2, PreparedGreeting DEF CallInv, GreetingInv
    <3>. QED
      BY <2>1, <2>2, <3>1
         DEF CallInv, RecordInv, PlacedInv, CarrierInv, JobInv, LeadInv, EndInv,
             BuildInv, Reached, Finished
  <2>. QED  BY <2>1, <2>2, <2>3, OneCall
<1>2. ASSUME NEW p \in Calls, NEW q \in Calls, EndPrior(p, q)
      PROVE  CallsInv'
  <2>1. /\ place[p].pc = "ending" /\ place'[p].pc \in {"ending", "dialing"}
        /\ place'[p].pc = "dialing" => place'[p].greeting = Prepared(p)
        /\ \A x \in Calls \ {p} : place'[x] = place[x]
        /\ rec' = Completed(q) /\ DropsPending(q) /\ \E ok \in BOOLEAN : HangsUp(q, ok)
        /\ UNCHANGED <<kinds, hook, stream, greetings, served, lead>>
    BY <1>2, EndPriorEffect
  <2>2. UNCHANGED <<named, exotel, build>>
    BY <2>1 DEF kinds, greetings
  <2>3. leg[p] = "none"
    BY <1>0, <2>1 DEF CallInv, CarrierInv
  <2>4. CallInv(q)'
    <3>1. place'[q].pc = place[q].pc
            \/ (leg[q] = "none" /\ place[q].pc # "done" /\ place'[q].pc # "done")
      BY <2>1, <2>3
    <3>2. place'[q].pc = "dialing" =>
            place'[q].greeting = IF place[q].pc = "dialing" THEN place[q].greeting
                                 ELSE Prepared(q)
      BY <2>1
    <3>. QED  BY <1>0, <2>1, <2>2, <3>1, <3>2, CompletedCall
  <2>5. ASSUME NEW x \in Calls, x # q
        PROVE  CallInv(x)'
    <3>1. /\ rec'[x] = rec[x] /\ leg'[x] = leg[x] /\ news'[x] = news[x] /\ odd'[x] = odd[x]
      BY <2>1, <2>5, CompletedParts, HangsUpEffect DEF TypeInv, TypeOK, Records
    <3>2. /\ UNCHANGED <<hook[x], stream[x], served[x], lead[x]>>
          /\ (x \in jobs') <=> (x \in jobs)
      BY <2>1, <2>5 DEF DropsPending
    <3>3. CASE x = p
      <4>1. GreetingInv(x)'
        BY <1>0, <2>1, <2>2, <3>1, <3>2, <3>3, PreparedGreeting DEF CallInv, GreetingInv
      <4>. QED
        BY <1>0, <2>1, <2>2, <2>3, <3>1, <3>2, <3>3, <4>1
           DEF CallInv, RecordInv, PlacedInv, CarrierInv, JobInv, LeadInv, EndInv,
               BuildInv, Reached, Finished
    <3>4. CASE x # p
      BY <1>0, <2>1, <2>2, <3>1, <3>2, <3>4, KeptCall DEF Kept
    <3>. QED  BY <3>3, <3>4
  <2>. QED  BY <2>4, <2>5 DEF CallsInv
<1>3. ASSUME NEW p \in Calls, Creates(p)
      PROVE  CallsInv'
  <2>1. /\ OthersKept(p)
        /\ UNCHANGED <<place, hook, rec, stream, greetings, served, jobs, lead, odd>>
        /\ place[p].pc = "dialing" /\ leg[p] = "none" /\ leg'[p] = "ringing"
        /\ news'[p] = IF p \in exotel THEN {} ELSE {"alive"}
    BY <1>3, CreatesEffect
  <2>2. CallInv(p) /\ UNCHANGED <<named, exotel, build>>
    BY <1>0, <2>1 DEF OthersKept, kinds, greetings
  <2>3. CallInv(p)'
    BY <2>1, <2>2
       DEF CallInv, RecordInv, PlacedInv, CarrierInv, GreetingInv, JobInv, LeadInv,
           EndInv, BuildInv, Reached, Finished
  <2>. QED  BY <2>1, <2>2, <2>3, OneCall
<1>4. ASSUME NEW p \in Calls, Registers(p)
      PROVE  CallsInv'
  <2>1. /\ OthersKept(p)
        /\ UNCHANGED <<carrier, stream, greetings, served, jobs, lead, odd>>
        /\ place[p].pc = "dialing" /\ place'[p].pc = "done"
        /\ rec'[p].status = "active" /\ rec'[p].own /\ ~rec'[p].session
        /\ rec'[p].greeting = place[p].greeting
    BY <1>4, RegistersEffect
  <2>2. CallInv(p) /\ UNCHANGED <<named, exotel, leg, news, hook, build>>
    BY <1>0, <2>1 DEF OthersKept, kinds, carrier, greetings
  <2>3. CallInv(p)'
    BY <2>1, <2>2
       DEF CallInv, RecordInv, PlacedInv, CarrierInv, GreetingInv, JobInv, LeadInv,
           EndInv, BuildInv, Reached, Finished
  <2>. QED  BY <2>1, <2>2, <2>3, OneCall
<1>5. ASSUME NEW p \in Calls, DialFails(p)
      PROVE  CallsInv'
  <2>1. /\ OthersKept(p)
        /\ UNCHANGED <<carrier, rec, stream, greetings, served, jobs, lead>>
        /\ place[p].pc = "dialing" /\ place'[p].pc = "done"
        /\ IF leg[p] = "none" THEN odd'[p] = odd[p] ELSE odd'[p] = odd[p] \cup {"lost"}
    BY <1>5, DialFailsEffect
  <2>2. CallInv(p) /\ UNCHANGED <<named, exotel, leg, news, hook, build>>
    BY <1>0, <2>1 DEF OthersKept, kinds, carrier, greetings
  <2>3. CallInv(p)'
    BY <2>1, <2>2
       DEF CallInv, RecordInv, PlacedInv, CarrierInv, GreetingInv, JobInv, LeadInv,
           EndInv, BuildInv, Reached, Finished
  <2>. QED  BY <2>1, <2>2, <2>3, OneCall
<1>6. ASSUME NEW q \in Calls, HangUp(q)
      PROVE  CallsInv'
  <2>1. /\ rec' = Completed(q) /\ DropsPending(q) /\ \E ok \in BOOLEAN : HangsUp(q, ok)
        /\ UNCHANGED <<place, kinds, hook, stream, build, served, lead>>
    BY <1>6 DEF HangUp, greetings
  <2>2. CallInv(q)'
    BY <1>0, <2>1, CompletedCall
  <2>3. OthersKept(q)
    BY <2>1, CompletedParts, HangsUpEffect
       DEF OthersKept, Kept, DropsPending, TypeInv, TypeOK, Records
  <2>. QED  BY <2>1, <2>2, <2>3, OneCall
<1>7. ASSUME NEW p \in Calls, Answer(p) \/ AsksAgain(p) \/ CallEnds(p)
      PROVE  CallsInv'
  <2>1. /\ OthersKept(p)
        /\ UNCHANGED <<place, rec, stream, greetings, served, jobs, lead, odd>>
        /\ \/ /\ leg[p] = "ringing" /\ leg'[p] = "up"
              /\ IF p \in exotel THEN UNCHANGED <<news[p], hook[p]>>
                 ELSE news'[p] = news[p] \cup {"alive"} /\ hook'[p] = "sent"
           \/ /\ hook[p] = "served" /\ leg[p] = "up" /\ hook'[p] = "sent" /\ p \notin jobs
              /\ UNCHANGED <<leg[p], news[p]>>
           \/ /\ Live(p) /\ leg'[p] = "over" /\ UNCHANGED hook[p]
              /\ news'[p] = IF p \in exotel THEN news[p] ELSE news[p] \cup {"over"}
    BY <1>7, CarrierEffect
  <2>2. CallInv(p) /\ UNCHANGED <<named, exotel, build>>
    BY <1>0, <2>1 DEF OthersKept, kinds, greetings
  <2>3. CallInv(p)'
    BY <2>1, <2>2
       DEF CallInv, RecordInv, PlacedInv, CarrierInv, GreetingInv, JobInv, LeadInv,
           EndInv, BuildInv, Reached, Finished, Live
  <2>. QED  BY <2>1, <2>2, <2>3, OneCall
<1>8. ASSUME NEW p \in Calls, NEW e \in {"alive", "over"}, StatusCallback(p, e)
      PROVE  CallsInv'
  <2>1. /\ OthersKept(p)
        /\ UNCHANGED <<place, leg, hook, stream, greetings, served, jobs, lead>>
        /\ e \in news[p] /\ news'[p] = news[p] \ {e}
        /\ rec'[p].status = IF rec[p].status = "none" THEN "none" ELSE Shown(e)
        /\ rec'[p].own = rec[p].own /\ rec'[p].greeting = rec[p].greeting
        /\ rec'[p].session = rec[p].session
        /\ Marked(p)
        /\ rec[p].status = "none" => "early" \in odd'[p]
        /\ e = "alive" /\ leg[p] = "over" /\ "over" \notin news[p] =>
             "reordered" \in odd'[p]
    BY <1>8, StatusCallbackEffect
  <2>2. CallInv(p) /\ UNCHANGED <<named, exotel, build>>
    BY <1>0, <2>1 DEF OthersKept, kinds, greetings
  <2>3. /\ RecordInv(p)' /\ PlacedInv(p)' /\ CarrierInv(p)' /\ GreetingInv(p)'
        /\ JobInv(p)' /\ LeadInv(p)' /\ BuildInv(p)'
    <3>1. Reached(p) <=> Reached(p)'
      BY <2>1 DEF Reached, Shown
    <3>2. RecordInv(p)' /\ PlacedInv(p)'
      BY <2>1, <2>2, <3>1 DEF CallInv, RecordInv, PlacedInv, Marked
    <3>3. CarrierInv(p)' /\ GreetingInv(p)'
      BY <2>1, <2>2, <3>1 DEF CallInv, CarrierInv, GreetingInv, Marked
    <3>4. JobInv(p)' /\ LeadInv(p)' /\ BuildInv(p)'
      BY <2>1, <2>2, <3>1 DEF CallInv, JobInv, LeadInv, BuildInv, Marked
    <3>. QED  BY <3>2, <3>3, <3>4
  <2>4. EndInv(p)'
    BY <2>1, <2>2
       DEF CallInv, EndInv, RecordInv, PlacedInv, CarrierInv, Reached, Finished, Shown,
           Marked
  <2>. QED  BY <2>1, <2>2, <2>3, <2>4, OneCall DEF CallInv
<1>9. ASSUME NEW p \in Calls,
             GreetingWebhook(p) \/ GreetingLocked(p) \/ GreetingBuilt(p)
      PROVE  CallsInv'
  <2>1. /\ OthersKept(p) /\ UNCHANGED <<place, leg, news, stream, jobs>>
        /\ \/ /\ hook[p] = "sent" /\ UNCHANGED build
              /\ \E g : Seeded(p, g) /\ (rec[p].greeting # {} => g = rec[p].greeting)
           \/ hook[p] = "cold" /\ build.by = {} /\ UNCHANGED build /\ \E g : Seeded(p, g)
           \/ hook[p] = "cold" /\ Kept(p) /\ build'.by = {p}
           \/ build.by = {p} /\ build'.by = {} /\ \E g : Seeded(p, g)
    BY <1>9, GreetingEffect
  <2>2. CallInv(p) /\ UNCHANGED <<named, exotel>>
    BY <1>0, <2>1 DEF OthersKept, kinds
  <2>3. CallInv(p)'
    <3>1. CASE /\ hook[p] = "sent" /\ UNCHANGED build
               /\ \E g : Seeded(p, g) /\ (rec[p].greeting # {} => g = rec[p].greeting)
      <4>1. p \notin build'.by
        BY <2>2, <3>1 DEF CallInv, BuildInv
      <4>. QED  BY <2>1, <2>2, <3>1, <4>1, SeededCall DEF OthersKept
    <3>2. CASE hook[p] = "cold" /\ build.by = {} /\ UNCHANGED build /\ \E g : Seeded(p, g)
      BY <2>1, <2>2, <3>2, SeededCall DEF OthersKept
    <3>3. CASE hook[p] = "cold" /\ Kept(p) /\ build'.by = {p}
      BY <2>1, <2>2, <3>3
         DEF CallInv, RecordInv, PlacedInv, CarrierInv, GreetingInv, JobInv, LeadInv,
             EndInv, BuildInv, Kept, Reached, Finished
    <3>4. CASE build.by = {p} /\ build'.by = {} /\ \E g : Seeded(p, g)
      <4>1. hook[p] = "cold"
        BY <2>2, <3>4 DEF CallInv, BuildInv
      <4>. QED  BY <2>1, <2>2, <3>4, <4>1, SeededCall DEF OthersKept
    <3>. QED  BY <2>1, <3>1, <3>2, <3>3, <3>4
  <2>4. \A x \in Calls \ {p} : x \in build'.by => x \in build.by
    BY <2>1
  <2>. QED  BY <2>1, <2>3, <2>4, OneCall
<1>10. ASSUME NEW p \in Calls, GreetingNeeded(p)
       PROVE  CallsInv'
  <2>1. /\ OthersKept(p)
        /\ UNCHANGED <<place, leg, news, rec, stream, greetings, served, jobs, lead>>
        /\ hook[p] = "sent" /\ hook'[p] = "cold" /\ rec[p].greeting = {}
        /\ Marked(p)
        /\ rec[p].status = "none" => "early" \in odd'[p]
    BY <1>10, GreetingNeededEffect
  <2>2. CallInv(p) /\ UNCHANGED <<named, exotel, build>>
    BY <1>0, <2>1 DEF OthersKept, kinds, greetings
  <2>3. CallInv(p)'
    BY <2>1, <2>2
       DEF CallInv, RecordInv, PlacedInv, CarrierInv, GreetingInv, JobInv, LeadInv,
           EndInv, BuildInv, Reached, Finished, Marked
  <2>. QED  BY <2>1, <2>2, <2>3, OneCall
<1>11. ASSUME NEW p \in Calls, StreamStarts(p) \/ StreamCloses(p)
       PROVE  CallsInv'
  <2>1. /\ OthersKept(p) /\ UNCHANGED <<place, news, hook, greetings, jobs>>
        /\ Marked(p)
        /\ rec[p].status = "none" /\ rec'[p].status # "none" => "early" \in odd'[p]
        /\ \/ /\ p \in exotel /\ leg[p] = "up" /\ leg'[p] = leg[p]
              /\ stream'[p] = "open"
              /\ rec'[p].status = "active" /\ rec'[p].session
              /\ IF rec[p].status = "none" THEN ~rec'[p].own /\ rec'[p].greeting = {}
                 ELSE rec'[p].own = rec[p].own /\ rec'[p].greeting = rec[p].greeting
           \/ /\ stream[p] = "open" /\ stream'[p] = "closed" /\ leg'[p] = "over"
              /\ rec' = Completed(p) /\ UNCHANGED <<served[p], lead[p]>>
    BY <1>11, StreamEffect
  <2>2. CallInv(p) /\ UNCHANGED <<named, exotel, build>>
    BY <1>0, <2>1 DEF OthersKept, kinds, greetings
  <2>3. CASE p \in exotel /\ leg[p] = "up" /\ stream'[p] = "open"
    <3>1. CallInv(p)'
      BY <2>1, <2>2, <2>3
         DEF CallInv, RecordInv, PlacedInv, CarrierInv, GreetingInv, JobInv, LeadInv,
             EndInv, BuildInv, Reached, Finished, Marked
    <3>. QED  BY <2>1, <2>2, <3>1, OneCall
  <2>4. CASE stream[p] = "open" /\ stream'[p] = "closed" /\ leg'[p] = "over"
               /\ rec' = Completed(p)
    <3>1. /\ rec'[p].status = IF rec[p].status = "none" THEN "none" ELSE "completed"
          /\ rec'[p].own = rec[p].own /\ rec'[p].greeting = rec[p].greeting
          /\ rec'[p].session = rec[p].session
      BY <2>4, CompletedParts DEF TypeInv, TypeOK, Records
    <3>2. p \in exotel
      BY <2>2, <2>4 DEF CallInv, CarrierInv
    <3>3. CallInv(p)'
      BY <2>1, <2>2, <2>4, <3>1, <3>2
         DEF CallInv, RecordInv, PlacedInv, CarrierInv, GreetingInv, JobInv, LeadInv,
             EndInv, BuildInv, Reached, Finished, Marked
    <3>. QED  BY <2>1, <2>2, <3>3, OneCall
  <2>. QED  BY <2>1, <2>3, <2>4
<1>12. CASE RefreshStarts \/ RefreshEnds
  <2>1. ASSUME NEW x \in Calls
        PROVE  Kept(x) /\ UNCHANGED kinds /\ (x \in build'.by => x \in build.by)
    BY <1>12, CallsAssumption
       DEF RefreshStarts, RefreshEnds, Refresh, NoBuild, Kept, carrier, history
  <2>. QED  BY <1>0, <2>1, KeptCall DEF CallsInv
<1>13. CASE BuildFails
  <2>. SUFFICES ASSUME NEW x \in Calls
                PROVE  CallInv(x)'
    BY DEF CallsInv
  <2>1. UNCHANGED <<place, kinds, leg, news, rec, stream, served, jobs, lead, odd>>
    BY <1>13 DEF BuildFails
  <2>2. build'.by = {} /\ hook'[x] = IF x \in build.by THEN "served" ELSE hook[x]
    BY <1>13 DEF BuildFails, NoBuild
  <2>3. CASE x \notin build.by
    BY <1>0, <2>1, <2>2, <2>3, KeptCall DEF Kept
  <2>4. CASE x \in build.by
    <3>1. CallInv(x) /\ hook[x] = "cold" /\ hook'[x] = "served"
      BY <1>0, <2>2, <2>4 DEF CallInv, BuildInv
    <3>. QED
      BY <2>1, <2>2, <3>1
         DEF CallInv, RecordInv, PlacedInv, CarrierInv, GreetingInv, JobInv, LeadInv,
             EndInv, BuildInv, Reached, Finished, kinds
  <2>. QED  BY <2>3, <2>4
<1>14. ASSUME NEW p \in Calls, TurnWebhook(p)
       PROVE  CallsInv'
  <2>1. CallInv(p) /\ rec[p].status # "none"
    BY <1>0, <1>14 DEF CallInv, JobInv, Reached, TurnWebhook, Listening
  <2>2. /\ OthersKept(p) /\ TurnKeeps(p)
        /\ hook[p] = "served" /\ served[p] # {} /\ leg[p] \in {"up", "over"}
        /\ rec'[p].status = "active"
        /\ \/ rec'[p].session = rec[p].session /\ lead'[p] = lead[p]
           \/ rec'[p].session /\ lead'[p] = IF rec[p].session THEN lead[p] ELSE {}
        /\ leg[p] = "over" => "late" \in odd'[p]
    BY <1>14, <2>1, TurnWebhookEffect
  <2>3. /\ UNCHANGED <<named, exotel, place, leg, news, hook, stream, build, served>>
        /\ rec'[p].own = rec[p].own /\ rec'[p].greeting = rec[p].greeting
        /\ Marked(p)
    BY <2>2 DEF OthersKept, TurnKeeps, kinds, carrier, greetings
  <2>4. RecordInv(p)' /\ PlacedInv(p)' /\ CarrierInv(p)' /\ GreetingInv(p)' /\ BuildInv(p)'
    BY <2>1, <2>2, <2>3
       DEF CallInv, RecordInv, PlacedInv, CarrierInv, GreetingInv, BuildInv, Reached, Marked
  <2>5. JobInv(p)' /\ EndInv(p)'
    BY <2>1, <2>2, <2>3 DEF CallInv, CarrierInv, JobInv, EndInv, Reached, Marked
  <2>6. LeadInv(p)'
    BY <2>1, <2>2, <2>3 DEF CallInv, LeadInv, Marked
  <2>. QED  BY <2>2, <2>3, <2>4, <2>5, <2>6, OneCall DEF CallInv
<1>15. ASSUME NEW p \in Calls, TurnStarts(p)
       PROVE  CallsInv'
  <2>1. CallInv(p) /\ rec[p].status # "none" /\ served[p] # {} /\ hook[p] = "served"
    BY <1>0, <1>15 DEF CallInv, JobInv, Reached, TurnStarts
  <2>2. /\ OthersKept(p) /\ TurnKeeps(p) /\ p \notin jobs'
        /\ rec'[p].status = rec[p].status /\ rec'[p].session
        /\ IF rec[p].session /\ lead[p] # {} THEN lead'[p] = lead[p]
           ELSE lead'[p] \in {{profile}, {}}
    BY <1>15, <2>1, TurnStartsEffect
  <2>3. /\ UNCHANGED <<named, exotel, place, leg, news, hook, stream, build, served>>
        /\ rec'[p].own = rec[p].own /\ rec'[p].greeting = rec[p].greeting
        /\ Marked(p)
    BY <2>2 DEF OthersKept, TurnKeeps, kinds, carrier, greetings
  <2>4. RecordInv(p)' /\ PlacedInv(p)' /\ CarrierInv(p)' /\ GreetingInv(p)' /\ BuildInv(p)'
    BY <2>1, <2>2, <2>3
       DEF CallInv, RecordInv, PlacedInv, CarrierInv, GreetingInv, BuildInv, Reached, Marked
  <2>5. JobInv(p)' /\ EndInv(p)'
    BY <2>1, <2>2, <2>3 DEF CallInv, JobInv, EndInv, Reached, Finished, Marked
  <2>6. LeadInv(p)'
    BY <2>1, <2>2, <2>3 DEF CallInv, LeadInv, Marked
  <2>. QED  BY <2>2, <2>3, <2>4, <2>5, <2>6, OneCall DEF CallInv
<1>16. ASSUME NEW p \in Calls, EditLead(p)
       PROVE  CallsInv'
  <2>1. CallInv(p) /\ OthersKept(p) /\ TurnKeeps(p) /\ UNCHANGED <<rec, jobs>>
        /\ "edited" \in odd'[p]
    BY <1>0, <1>16, EditLeadEffect
  <2>2. /\ UNCHANGED <<named, exotel, place, leg, news, hook, stream, build, served>>
        /\ Marked(p)
    BY <2>1 DEF OthersKept, TurnKeeps, kinds, carrier, greetings
  <2>3. CallInv(p)'
    BY <2>1, <2>2
       DEF CallInv, RecordInv, PlacedInv, CarrierInv, GreetingInv, JobInv, LeadInv, EndInv,
           BuildInv, Reached, Finished, Marked
  <2>. QED  BY <2>1, <2>2, <2>3, OneCall
<1>17. CASE UNCHANGED vars
  BY <1>0, <1>17, KeptCall DEF vars, Kept, CallsInv, kinds
<1>. QED
  BY <1>1, <1>2, <1>3, <1>4, <1>5, <1>6, <1>7, <1>8, <1>9, <1>10, <1>11, <1>12, <1>13,
     <1>14, <1>15, <1>16, <1>17 DEF Next, CallStep

LEMMA CallsInvInit == Init => CallsInv
<1>. SUFFICES ASSUME Init, NEW x \in Calls
              PROVE  CallInv(x)
  BY DEF CallsInv
<1>1. /\ place[x].pc = "idle" /\ leg[x] = "none" /\ news[x] = {} /\ hook[x] = "none"
      /\ rec[x].status = "none" /\ ~rec[x].own /\ rec[x].greeting = {}
      /\ stream[x] = "none" /\ served[x] = {} /\ lead[x] = {}
      /\ x \notin build.by /\ x \notin jobs /\ odd[x] = {} /\ ~rec[x].session
  BY CallsAssumption DEF Init, Idle, Absent, Blank, Refresh
<1>. QED
  BY <1>1 DEF CallInv, RecordInv, PlacedInv, CarrierInv, GreetingInv, JobInv, LeadInv,
              EndInv, BuildInv, Reached, Finished

\* What one call goes through is in order, for every call and at every time.
THEOREM CallInvariant == Spec => []CallsInv
<1>. QED  BY TypesHold, CallsInvInit, CallsInvStep, PTL DEF Spec

-----------------------------------------------------------------------------
(* What the invariant of one call says *)

\* TypeOK: the values of the variables, and that a webhook builds a greeting
\* only while there is none to refresh.
THEOREM TypeCorrect == Spec => []TypeOK
<1>1. TypeInv => TypeOK
  BY DEF TypeInv
<1>. QED  BY <1>1, TypesHold, PTL

\* GreetedByName: whatever other calls did to the engine's facts and the cached
\* greeting meanwhile, a call placed with a name is greeted by that name, unless
\* the webhook came before the record.
THEOREM NamesAreRight == Spec => []GreetedByName
<1>1. TypeInv /\ CallsInv => GreetedByName
  <2>. SUFFICES ASSUME TypeInv, CallsInv, NEW p \in named \ exotel, served[p] # {}
                PROVE  served[p] = {p} \/ Excused(p, {"early"})
    BY DEF GreetedByName
  <2>1. p \in Calls
    BY DEF TypeInv, TypeOK
  <2>2. GreetingInv(p)
    BY <2>1 DEF CallsInv, CallInv
  <2>. QED  BY <2>2 DEF GreetingInv, Excused
<1>. QED  BY <1>1, TypesHold, CallInvariant, PTL


\* OverIsShown: the record of a call that is over is completed once nothing about
\* it is on its way, in whatever order the news came, unless the news itself
\* came before the record, out of order, or before a late webhook.
THEOREM EndsAreShown == Spec => []OverIsShown
<1>1. CallsInv => OverIsShown
  <2>. SUFFICES ASSUME CallsInv, NEW p \in Calls,
                       leg[p] = "over", news[p] = {}, rec[p].status = "active"
                PROVE  \/ Excused(p, {"early", "reordered", "late"})
                       \/ p \in exotel /\ stream[p] # "closed"
    BY DEF OverIsShown
  <2>1. EndInv(p) /\ ~Finished(p)
    BY DEF CallsInv, CallInv, Finished
  <2>. QED  BY <2>1 DEF EndInv, Excused
<1>. QED  BY <1>1, CallInvariant, PTL

-----------------------------------------------------------------------------
(* Two calls *)

\* The call is not live, or is known to be live by mistake.
Gone(p) == ~Live(p) \/ \E c \in {"lost", "kept"} : c \in odd[p]

\* While q is being placed, another call is still to be placed, or is gone, or
\* is on the list of those to be ended first, or is its rival.
AheadOf(p, q) ==
  Placing(q) =>
    \/ {p, q} \in rivals
    \/ place[p].pc = "idle"
    \/ place[p].pc = "done" /\ Gone(p)
    \/ place[p].pc = "done" /\ place[q].pc = "ending" /\ p \in place[q].todo

PairInv(p, q) ==
  place[p].pc = "done" /\ place[q].pc = "done" =>
    {p, q} \in rivals \/ Gone(p) \/ Gone(q)

\* A Twilio call that was placed is on the list of active calls while it lives.
ListedInv(p) == place[p].pc = "done" => rec[p].status = "active" \/ Gone(p)

RivalsInv ==
  \A p \in Calls \ exotel :
    /\ ListedInv(p)
    /\ \A q \in Calls : p # q => AheadOf(p, q)
    /\ \A q \in Calls \ exotel : p # q => PairInv(p, q)

\* A placed call that is gone stays so, and one that is on the list stays there
\* or is gone.
LEMMA GoneStays ==
  ASSUME TypeInv, CallsInv, [Next]_vars, NEW p \in Calls,
         place[p].pc = "done"
  PROVE  /\ place'[p].pc = "done" /\ UNCHANGED kinds /\ (Gone(p) => Gone(p)')
         /\ p \notin exotel /\ rec[p].status = "active" =>
              rec'[p].status = "active" \/ Gone(p)'
<1>0. CallInv(p) /\ leg[p] \in {"none", "ringing", "up", "over"}
  BY DEF CallsInv, TypeInv, TypeOK
<1>1. ASSUME Kept(p), UNCHANGED kinds
      PROVE  /\ place'[p].pc = "done" /\ UNCHANGED kinds /\ (Gone(p) => Gone(p)')
             /\ rec[p].status = "active" => rec'[p].status = "active"
  BY <1>1 DEF Kept, Gone, Live
<1>2. ASSUME rec' = Completed(p), \E ok \in BOOLEAN : HangsUp(p, ok)
      PROVE  (Gone(p) => Gone(p)') /\ (p \notin exotel => Gone(p)')
  <2>1. \/ UNCHANGED <<leg[p], odd[p]>> /\ (p \in exotel \/ ~Live(p))
        \/ p \notin exotel /\ leg'[p] = "over" /\ odd'[p] = odd[p]
        \/ p \notin exotel /\ leg'[p] = leg[p] /\ odd'[p] = odd[p] \cup {"kept"}
    BY <1>2, HangsUpEffect
  <2>. QED  BY <2>1 DEF Gone, Live
<1>3. ASSUME NEW q \in Calls, OthersKept(q), q # p
      PROVE  /\ place'[p].pc = "done" /\ UNCHANGED kinds /\ (Gone(p) => Gone(p)')
             /\ rec[p].status = "active" => rec'[p].status = "active"
  BY <1>1, <1>3 DEF OthersKept
<1>4. ASSUME NEW q \in Calls,
             PlaceCall(q) \/ Creates(q) \/ Registers(q) \/ DialFails(q)
      PROVE  OthersKept(q) /\ q # p
  BY <1>4, PlaceCallEffect, CreatesEffect, RegistersEffect, DialFailsEffect
<1>5. ASSUME NEW q \in Calls, NEW r \in Calls, EndPrior(q, r)
      PROVE  /\ place'[p].pc = "done" /\ UNCHANGED kinds /\ (Gone(p) => Gone(p)')
             /\ p \notin exotel /\ rec[p].status = "active" =>
                  rec'[p].status = "active" \/ Gone(p)'
  <2>1. /\ place[q].pc = "ending" /\ \A x \in Calls \ {q} : place'[x] = place[x]
        /\ rec' = Completed(r) /\ \E ok \in BOOLEAN : HangsUp(r, ok)
        /\ UNCHANGED kinds
    BY <1>5, EndPriorEffect
  <2>2. CASE r = p
    BY <1>2, <2>1, <2>2
  <2>3. CASE r # p
    <3>1. rec'[p] = rec[p] /\ leg'[p] = leg[p] /\ odd'[p] = odd[p]
      BY <2>1, <2>3, CompletedParts, HangsUpEffect DEF TypeInv, TypeOK, Records
    <3>. QED  BY <2>1, <3>1 DEF Gone, Live
  <2>. QED  BY <2>2, <2>3
<1>6. ASSUME NEW q \in Calls, HangUp(q)
      PROVE  /\ place'[p].pc = "done" /\ UNCHANGED kinds /\ (Gone(p) => Gone(p)')
             /\ p \notin exotel /\ rec[p].status = "active" =>
                  rec'[p].status = "active" \/ Gone(p)'
  <2>1. /\ UNCHANGED <<place, kinds>>
        /\ rec' = Completed(q) /\ \E ok \in BOOLEAN : HangsUp(q, ok)
    BY <1>6 DEF HangUp
  <2>2. CASE q = p
    BY <1>2, <2>1, <2>2
  <2>3. CASE q # p
    <3>1. rec'[p] = rec[p] /\ leg'[p] = leg[p] /\ odd'[p] = odd[p]
      BY <2>1, <2>3, CompletedParts, HangsUpEffect DEF TypeInv, TypeOK, Records
    <3>. QED  BY <2>1, <3>1 DEF Gone, Live
  <2>. QED  BY <2>2, <2>3
<1>7. ASSUME Answer(p) \/ AsksAgain(p) \/ CallEnds(p)
      PROVE  /\ place'[p].pc = "done" /\ UNCHANGED kinds /\ (Gone(p) => Gone(p)')
             /\ rec[p].status = "active" => rec'[p].status = "active"
  BY <1>7, CarrierEffect DEF OthersKept, Gone, Live
<1>8. ASSUME NEW e \in {"alive", "over"}, StatusCallback(p, e)
      PROVE  /\ place'[p].pc = "done" /\ UNCHANGED kinds /\ (Gone(p) => Gone(p)')
             /\ p \notin exotel /\ rec[p].status = "active" =>
                  rec'[p].status = "active" \/ Gone(p)'
  <2>1. /\ UNCHANGED <<place, kinds, leg>> /\ odd[p] \subseteq odd'[p] /\ e \in news[p]
        /\ rec'[p].status = IF rec[p].status = "none" THEN "none" ELSE Shown(e)
    BY <1>8, StatusCallbackEffect DEF OthersKept, Marked
  <2>2. p \notin exotel /\ e = "over" => leg[p] = "over"
    BY <1>0, <2>1 DEF CallInv, EndInv
  <2>. QED  BY <2>1, <2>2 DEF Gone, Live, Shown
<1>9. ASSUME GreetingWebhook(p) \/ GreetingLocked(p) \/ GreetingBuilt(p)
      PROVE  /\ place'[p].pc = "done" /\ UNCHANGED kinds /\ (Gone(p) => Gone(p)')
             /\ rec[p].status = "active" => rec'[p].status = "active"
  <2>1. OthersKept(p) /\ UNCHANGED <<place, leg>> /\ (Kept(p) \/ \E g : Seeded(p, g))
    BY <1>9, GreetingEffect
  <2>. QED  BY <1>1, <2>1 DEF OthersKept, Seeded, Marked, Gone, Live
<1>10. ASSUME GreetingNeeded(p)
       PROVE  /\ place'[p].pc = "done" /\ UNCHANGED kinds /\ (Gone(p) => Gone(p)')
              /\ rec[p].status = "active" => rec'[p].status = "active"
  BY <1>10, GreetingNeededEffect DEF OthersKept, Marked, Gone, Live
<1>11. ASSUME StreamStarts(p) \/ StreamCloses(p)
       PROVE  /\ place'[p].pc = "done" /\ UNCHANGED kinds /\ (Gone(p) => Gone(p)')
              /\ p \notin exotel /\ rec[p].status = "active" =>
                   rec'[p].status = "active" \/ Gone(p)'
  <2>1. /\ OthersKept(p) /\ UNCHANGED place /\ odd[p] \subseteq odd'[p]
        /\ leg'[p] = leg[p] \/ leg'[p] = "over"
        /\ p \in exotel \/ stream[p] = "open"
    BY <1>11, StreamEffect DEF Marked
  <2>2. p \in exotel
    BY <1>0, <2>1 DEF CallInv, CarrierInv
  <2>. QED  BY <2>1, <2>2 DEF OthersKept, Gone, Live
<1>12. CASE RefreshStarts \/ RefreshEnds \/ BuildFails \/ UNCHANGED vars
  <2>1. UNCHANGED <<place, kinds, leg, rec, odd>>
    BY <1>12 DEF RefreshStarts, RefreshEnds, BuildFails, vars, carrier, history, kinds
  <2>. QED  BY <2>1 DEF Gone, Live
<1>13. ASSUME TurnWebhook(p) \/ TurnStarts(p) \/ EditLead(p)
       PROVE  /\ place'[p].pc = "done" /\ UNCHANGED kinds /\ (Gone(p) => Gone(p)')
              /\ rec[p].status = "active" => rec'[p].status = "active"
  <2>1. /\ OthersKept(p) /\ TurnKeeps(p)
        /\ rec'[p].status = "active" \/ rec'[p].status = rec[p].status
    BY <1>13, TurnEffect
  <2>. QED  BY <2>1 DEF OthersKept, TurnKeeps, Gone, Live, Marked, carrier
<1>14. ASSUME NEW q \in Calls, q # p, CallStep(q)
       PROVE  \/ OthersKept(q) \/ HangUp(q) \/ \E r \in Calls : EndPrior(q, r)
  BY <1>14, PlaceCallEffect, CreatesEffect, RegistersEffect, DialFailsEffect,
     CarrierEffect, StatusCallbackEffect, GreetingEffect, GreetingNeededEffect,
     StreamEffect, TurnEffect DEF CallStep
<1>15. ASSUME NEW q \in Calls, CallStep(q)
       PROVE  /\ place'[p].pc = "done" /\ UNCHANGED kinds /\ (Gone(p) => Gone(p)')
              /\ p \notin exotel /\ rec[p].status = "active" =>
                   rec'[p].status = "active" \/ Gone(p)'
  <2>1. CASE q # p
    BY <1>3, <1>5, <1>6, <1>14, <1>15, <2>1
  <2>2. CASE q = p
    BY <1>4, <1>5, <1>6, <1>7, <1>8, <1>9, <1>10, <1>11, <1>13, <1>15, <2>2 DEF CallStep
  <2>. QED  BY <2>1, <2>2
<1>. QED  BY <1>12, <1>15 DEF Next

\* Where a step takes the placing request of a call.
LEMMA PlacingStep ==
  ASSUME TypeInv, CallsInv, [Next]_vars, NEW p \in Calls
  PROVE  \/ place'[p] = place[p]
         \/ place[p].pc = "idle" /\ PlaceCall(p)
         \/ \E r \in Calls : EndPrior(p, r)
         \/ /\ place[p].pc = "dialing" /\ place'[p].pc = "done"
            /\ rec'[p].status = "active" \/ Gone(p)'
<1>1. ASSUME NEW q \in Calls, CallStep(q), q # p
      PROVE  place'[p] = place[p]
  <2>1. CASE \E r \in Calls : EndPrior(q, r)
    BY <1>1, <2>1, EndPriorEffect
  <2>2. CASE HangUp(q)
    BY <2>2 DEF HangUp
  <2>3. CASE ~HangUp(q) /\ ~\E r \in Calls : EndPrior(q, r)
    <3>1. OthersKept(q)
      BY <1>1, <2>3, PlaceCallEffect, CreatesEffect, RegistersEffect, DialFailsEffect,
         CarrierEffect, StatusCallbackEffect, GreetingEffect, GreetingNeededEffect,
         StreamEffect, TurnEffect DEF CallStep
    <3>. QED  BY <1>1, <3>1 DEF OthersKept, Kept
  <2>. QED  BY <2>1, <2>2, <2>3
<1>2. CASE PlaceCall(p)
  BY <1>2, PlaceCallEffect
<1>3. CASE Registers(p)
  BY <1>3, RegistersEffect
<1>4. CASE DialFails(p)
  <2>1. /\ place[p].pc = "dialing" /\ place'[p].pc = "done" /\ leg'[p] = leg[p]
        /\ leg[p] = "none" \/ odd'[p] = odd[p] \cup {"lost"}
    BY <1>4, DialFailsEffect DEF carrier
  <2>. QED  BY <2>1 DEF Gone, Live
<1>5. CASE HangUp(p)
  BY <1>5 DEF HangUp
<1>6. CASE Creates(p) \/ Answer(p) \/ AsksAgain(p) \/ CallEnds(p)
  BY <1>6, CreatesEffect, CarrierEffect
<1>7. CASE \E e \in {"alive", "over"} : StatusCallback(p, e)
  BY <1>7, StatusCallbackEffect
<1>8. CASE \/ GreetingWebhook(p) \/ GreetingNeeded(p) \/ GreetingLocked(p)
           \/ GreetingBuilt(p) \/ StreamStarts(p) \/ StreamCloses(p)
           \/ TurnWebhook(p) \/ TurnStarts(p) \/ EditLead(p)
  BY <1>8, GreetingEffect, GreetingNeededEffect, StreamEffect, TurnEffect DEF TurnKeeps
<1>9. CASE RefreshStarts \/ RefreshEnds \/ BuildFails \/ UNCHANGED vars
  BY <1>9 DEF RefreshStarts, RefreshEnds, BuildFails, vars
<1>. QED
  BY <1>1, <1>2, <1>3, <1>4, <1>5, <1>6, <1>7, <1>8, <1>9 DEF Next, CallStep

\* The requests that overlapped stay known.
LEMMA RivalsStay ==
  ASSUME TypeInv, CallsInv, [Next]_vars
  PROVE  rivals \subseteq rivals' /\ UNCHANGED kinds
<1>1. ASSUME NEW q \in Calls, CallStep(q)
      PROVE  rivals \subseteq rivals' /\ UNCHANGED kinds
  <2>1. CASE PlaceCall(q)
    BY <2>1, PlaceCallEffect DEF OthersKept
  <2>2. CASE HangUp(q) \/ \E r \in Calls : EndPrior(q, r)
    BY <2>2 DEF HangUp, EndPrior
  <2>3. CASE Creates(q) \/ Registers(q) \/ DialFails(q) \/ Answer(q) \/ AsksAgain(q)
               \/ CallEnds(q)
    BY <2>3, CreatesEffect, RegistersEffect, DialFailsEffect, CarrierEffect
       DEF OthersKept
  <2>4. CASE \/ GreetingWebhook(q) \/ GreetingNeeded(q) \/ GreetingLocked(q)
             \/ GreetingBuilt(q) \/ StreamStarts(q) \/ StreamCloses(q)
             \/ \E e \in {"alive", "over"} : StatusCallback(q, e)
             \/ TurnWebhook(q) \/ TurnStarts(q) \/ EditLead(q)
    BY <2>4, GreetingEffect, GreetingNeededEffect, StreamEffect, StatusCallbackEffect,
       TurnEffect DEF OthersKept, TurnKeeps
  <2>. QED  BY <1>1, <2>1, <2>2, <2>3, <2>4 DEF CallStep
<1>2. CASE RefreshStarts \/ RefreshEnds \/ BuildFails \/ UNCHANGED vars
  BY <1>2 DEF RefreshStarts, RefreshEnds, BuildFails, vars, history, kinds
<1>. QED  BY <1>1, <1>2 DEF Next

LEMMA RivalsInvStep ==
  ASSUME TypeInv, CallsInv, RivalsInv, [Next]_vars
  PROVE  RivalsInv'
<1>0. /\ exotel' = exotel /\ rivals \subseteq rivals'
      /\ \A x \in Calls : place[x].pc \in {"idle", "ending", "dialing", "done"}
  BY RivalsStay DEF TypeInv, TypeOK, kinds
<1>. SUFFICES ASSUME NEW p \in Calls \ exotel
              PROVE  /\ ListedInv(p)'
                     /\ \A q \in Calls : p # q => AheadOf(p, q)'
                     /\ \A q \in Calls \ exotel : p # q => PairInv(p, q)'
  BY <1>0 DEF RivalsInv
<1>1. ListedInv(p)'
  <2>1. CASE place[p].pc = "done"
    <3>1. rec[p].status = "active" \/ Gone(p)
      BY <2>1 DEF RivalsInv, ListedInv
    <3>. QED  BY <2>1, <3>1, GoneStays DEF ListedInv
  <2>2. CASE place[p].pc # "done"
    BY <2>2, PlacingStep, PlaceCallEffect, EndPriorEffect DEF ListedInv
  <2>. QED  BY <2>1, <2>2
<1>2. ASSUME NEW q \in Calls, p # q
      PROVE  AheadOf(p, q)'
  <2>0. AheadOf(p, q) /\ {p, q} = {q, p}
    BY <1>2 DEF RivalsInv
  <2>. SUFFICES ASSUME Placing(q)', {p, q} \notin rivals', place'[p].pc # "idle"
                PROVE  /\ place'[p].pc = "done"
                       /\ Gone(p)' \/ (place'[q].pc = "ending" /\ p \in place'[q].todo)
    BY DEF AheadOf
  <2>1. CASE PlaceCall(q)
    <3>1. /\ ~Placing(p) /\ place'[p] = place[p] /\ UNCHANGED <<carrier, odd>>
          /\ ActiveCalls = {} \/ (place'[q].pc = "ending" /\ place'[q].todo = ActiveCalls)
      BY <1>2, <2>0, <2>1, PlaceCallEffect DEF OthersKept, Kept
    <3>2. place[p].pc = "done"
      BY <1>0, <3>1 DEF Placing
    <3>3. p \in ActiveCalls \/ Gone(p)
      BY <3>2 DEF RivalsInv, ListedInv, ActiveCalls
    <3>. QED  BY <3>1, <3>2, <3>3, GoneStays
  <2>2. CASE \E r \in Calls : EndPrior(q, r)
    <3>1. PICK r \in Calls : EndPrior(q, r)
      BY <2>2
    <3>2. /\ place[q].pc = "ending" /\ place'[p] = place[p]
          /\ \/ place'[q].pc = "ending" /\ place'[q].todo = place[q].todo \ {r}
             \/ place[q].todo = {r}
          /\ \E ok \in BOOLEAN : HangsUp(r, ok)
      BY <1>2, <3>1, EndPriorEffect
    <3>3. place[p].pc = "done" /\ (Gone(p) \/ p \in place[q].todo)
      BY <1>0, <2>0, <3>2 DEF AheadOf, Placing
    <3>4. CASE r = p
      <4>1. \/ UNCHANGED <<leg[p], odd[p]>> /\ ~Live(p)
            \/ leg'[p] = "over" /\ odd'[p] = odd[p]
            \/ leg'[p] = leg[p] /\ odd'[p] = odd[p] \cup {"kept"}
        BY <3>2, <3>4, HangsUpEffect
      <4>. QED  BY <3>2, <3>3, <4>1 DEF Gone, Live
    <3>5. CASE r # p
      BY <3>2, <3>3, <3>5, GoneStays
    <3>. QED  BY <3>4, <3>5
  <2>3. CASE place'[q] = place[q]
    <3>1. /\ Placing(q)
          /\ \/ place[p].pc = "idle"
             \/ /\ place[p].pc = "done"
                /\ Gone(p) \/ (place[q].pc = "ending" /\ p \in place[q].todo)
      BY <1>0, <2>0, <2>3 DEF AheadOf, Placing
    <3>2. CASE place[p].pc = "idle"
      <4>1. PlaceCall(p)
        BY <3>2, PlacingStep, EndPriorEffect
      <4>. QED  BY <2>0, <3>1, <4>1, PlaceCallEffect
    <3>3. CASE place[p].pc = "done"
      BY <2>3, <3>1, <3>3, GoneStays
    <3>. QED  BY <3>1, <3>2, <3>3
  <2>. QED  BY <2>1, <2>2, <2>3, PlacingStep DEF Placing
<1>3. ASSUME NEW q \in Calls \ exotel, p # q, place'[p].pc = "done", place'[q].pc = "done"
      PROVE  {p, q} \in rivals' \/ Gone(p)' \/ Gone(q)'
  <2>0. PairInv(p, q) /\ AheadOf(p, q) /\ AheadOf(q, p) /\ {p, q} = {q, p}
    BY <1>3 DEF RivalsInv
  <2>1. CASE place[p].pc = "done" /\ place[q].pc = "done"
    BY <1>0, <2>0, <2>1, GoneStays DEF PairInv
  <2>2. ASSUME NEW x \in {p, q}, place[x].pc # "done"
        PROVE  place[x].pc = "dialing" /\ Placing(x)
    BY <1>3, <2>2, PlacingStep, PlaceCallEffect, EndPriorEffect DEF Placing
  <2>3. CASE place[q].pc # "done"
    <3>1. {p, q} \in rivals \/ (place[p].pc = "done" /\ Gone(p))
      BY <1>0, <2>0, <2>2, <2>3 DEF AheadOf
    <3>. QED  BY <1>0, <3>1, GoneStays
  <2>4. CASE place[p].pc # "done"
    <3>1. {p, q} \in rivals \/ (place[q].pc = "done" /\ Gone(q))
      BY <1>0, <2>0, <2>2, <2>4 DEF AheadOf
    <3>. QED  BY <1>0, <3>1, GoneStays
  <2>. QED  BY <2>1, <2>3, <2>4
<1>. QED  BY <1>1, <1>2, <1>3 DEF PairInv

LEMMA RivalsInvariant == Spec => []RivalsInv
<1>1. Init => RivalsInv
  <2>1. ASSUME Init, NEW p \in Calls
        PROVE  place[p].pc = "idle"
    BY <2>1 DEF Init, Idle
  <2>. QED  BY <2>1 DEF RivalsInv, ListedInv, PairInv, AheadOf, Placing
<1>. QED  BY <1>1, TypesHold, CallInvariant, RivalsInvStep, PTL DEF Spec

\* TwoLiveWereRivals: placing a call ends those before it, whatever comes between
\* the steps of its request; only overlapping requests leave two calls live.
THEOREM OneLiveUnlessRivals == Spec => []TwoLiveWereRivals
<1>1. TypeInv /\ CallsInv /\ RivalsInv => TwoLiveWereRivals
  <2>. SUFFICES ASSUME TypeInv, CallsInv, RivalsInv,
                       NEW p \in Calls \ exotel, NEW q \in Calls \ exotel,
                       p # q, Live(p), Live(q), {p, q} \notin rivals
                PROVE  \E c \in {p, q} : Excused(c, {"lost", "kept"})
    BY DEF TwoLiveWereRivals
  <2>1. place[p].pc \in {"dialing", "done"} /\ place[q].pc \in {"dialing", "done"}
    BY DEF CallsInv, CallInv, CarrierInv, Live
  <2>2. PairInv(p, q) /\ AheadOf(p, q) /\ AheadOf(q, p) /\ {p, q} = {q, p}
    BY DEF RivalsInv
  <2>3. Gone(p) \/ Gone(q)
    BY <2>1, <2>2 DEF PairInv, AheadOf, Placing
  <2>4. ASSUME NEW c \in {p, q}, Gone(c)
        PROVE  Excused(c, {"lost", "kept"})
    BY <2>4 DEF Gone, Excused
  <2>. QED  BY <2>3, <2>4
<1>. QED  BY <1>1, TypesHold, CallInvariant, RivalsInvariant, PTL

-----------------------------------------------------------------------------
(* The facts that all calls share *)

\* What went out of order for a call stays known, and a call is live only after
\* it was dialed and until it ends.
LEMMA Onward ==
  ASSUME TypeInv, CallsInv, [Next]_vars, NEW p \in Calls
  PROVE  odd[p] \subseteq odd'[p] /\ (Live(p)' => Live(p) \/ place[p].pc = "dialing")
<1>1. ASSUME Kept(p)
      PROVE  odd[p] \subseteq odd'[p] /\ (Live(p)' => Live(p))
  BY <1>1 DEF Kept, Live
<1>2. ASSUME NEW r \in Calls, NEW ok \in BOOLEAN, HangsUp(r, ok)
      PROVE  odd[p] \subseteq odd'[p] /\ (Live(p)' => Live(p))
  <2>1. CASE r = p
    BY <1>2, <2>1, HangsUpEffect DEF Live
  <2>2. CASE r # p
    BY <1>2, <2>2, HangsUpEffect DEF Live
  <2>. QED  BY <2>1, <2>2
<1>3. ASSUME NEW q \in Calls, HangUp(q) \/ \E r \in Calls : EndPrior(q, r)
      PROVE  odd[p] \subseteq odd'[p] /\ (Live(p)' => Live(p))
  BY <1>2, <1>3 DEF HangUp, EndPrior
<1>4. ASSUME NEW q \in Calls, q # p, CallStep(q)
      PROVE  OthersKept(q) \/ HangUp(q) \/ \E r \in Calls : EndPrior(q, r)
  BY <1>4, PlaceCallEffect, CreatesEffect, RegistersEffect, DialFailsEffect,
     CarrierEffect, StatusCallbackEffect, GreetingEffect, GreetingNeededEffect,
     StreamEffect, TurnEffect DEF CallStep
<1>5. CASE PlaceCall(p) \/ Creates(p) \/ Registers(p) \/ DialFails(p)
  BY <1>5, PlaceCallEffect, CreatesEffect, RegistersEffect, DialFailsEffect
     DEF Live, carrier
<1>6. CASE Answer(p) \/ AsksAgain(p) \/ CallEnds(p)
  BY <1>6, CarrierEffect DEF Live
<1>7. CASE \/ GreetingNeeded(p) \/ StreamStarts(p) \/ StreamCloses(p)
           \/ \E e \in {"alive", "over"} : StatusCallback(p, e)
  BY <1>7, GreetingNeededEffect, StreamEffect, StatusCallbackEffect DEF Live, Marked
<1>8. CASE GreetingWebhook(p) \/ GreetingLocked(p) \/ GreetingBuilt(p)
  <2>1. UNCHANGED leg /\ (Kept(p) \/ \E g : Seeded(p, g))
    BY <1>8, GreetingEffect
  <2>. QED  BY <1>1, <2>1 DEF Live, Seeded, Marked
<1>9. CASE TurnWebhook(p) \/ TurnStarts(p) \/ EditLead(p)
  BY <1>9, TurnEffect DEF TurnKeeps, Marked, Live, carrier
<1>10. CASE RefreshStarts \/ RefreshEnds \/ BuildFails \/ UNCHANGED vars
  BY <1>10 DEF RefreshStarts, RefreshEnds, BuildFails, vars, carrier, history, Live
<1>11. ASSUME NEW q \in Calls, CallStep(q)
       PROVE  odd[p] \subseteq odd'[p] /\ (Live(p)' => Live(p) \/ place[p].pc = "dialing")
  <2>1. CASE q # p
    BY <1>1, <1>3, <1>4, <1>11, <2>1 DEF OthersKept
  <2>2. CASE q = p
    BY <1>3, <1>5, <1>6, <1>7, <1>8, <1>9, <1>11, <2>2 DEF CallStep
  <2>. QED  BY <2>1, <2>2
<1>. QED  BY <1>10, <1>11 DEF Next

\* Facts become the engine's when their call is dialed, or when its session is
\* created from a record that holds them.
LEMMA ProfileStep ==
  ASSUME TypeInv, CallsInv, [Next]_vars
  PROVE  \/ profile' \in {profile, Nobody}
         \/ profile' \in Calls /\ place'[profile'].pc = "dialing"
         \/ /\ profile' \in Calls \ exotel /\ rec[profile'].own
            /\ leg[profile'] \in {"up", "over"} /\ UNCHANGED <<place, leg>>
            /\ leg[profile'] = "over" => "late" \in odd'[profile']
<1>1. ASSUME NEW q \in Calls, PlaceCall(q) \/ \E r \in Calls : EndPrior(q, r)
      PROVE  profile' = profile \/ (profile' = q /\ place'[q].pc = "dialing")
  BY <1>1, PlaceCallEffect, EndPriorEffect
<1>2. ASSUME NEW q \in Calls, GreetingWebhook(q) \/ GreetingLocked(q) \/ GreetingBuilt(q)
      PROVE  \/ profile' \in {profile, Nobody}
             \/ /\ profile' = q /\ q \notin exotel /\ rec[q].own /\ leg[q] \in {"up", "over"}
                /\ UNCHANGED <<place, leg>> /\ (leg[q] = "over" => "late" \in odd'[q])
  <2>1. UNCHANGED <<place, leg>> /\ (UNCHANGED profile \/ \E g : Seed(q, g))
    BY <1>2 DEF GreetingWebhook, GreetingLocked, GreetingBuilt
  <2>2. hook[q] \in {"sent", "cold"} /\ CarrierInv(q)
    BY <1>2 DEF GreetingWebhook, Asked, GreetingLocked, GreetingBuilt, CallsInv, CallInv,
                BuildInv
  <2>3. q \notin exotel /\ leg[q] \in {"up", "over"}
    BY <2>2 DEF CarrierInv, TypeInv, TypeOK
  <2>4. ASSUME NEW g, Seed(q, g)
        PROVE  /\ profile' \in {profile, SeedFacts(q)}
               /\ leg[q] = "over" => "late" \in odd'[q]
    <3>1. profile' \in {profile, SeedFacts(q)}
      BY <2>4 DEF Seed
    <3>2. leg[q] = "over" => "late" \in odd'[q]
      BY <2>4, SeedEffect DEF Seeded
    <3>. QED  BY <3>1, <3>2
  <2>. QED  BY <2>1, <2>3, <2>4 DEF SeedFacts
<1>3. ASSUME NEW q \in Calls,
             \/ Creates(q) \/ Registers(q) \/ DialFails(q) \/ HangUp(q) \/ Answer(q)
             \/ AsksAgain(q) \/ CallEnds(q) \/ GreetingNeeded(q) \/ StreamStarts(q)
             \/ StreamCloses(q) \/ \E e \in {"alive", "over"} : StatusCallback(q, e)
      PROVE  profile' = profile
  BY <1>3 DEF Creates, Registers, DialFails, HangUp, Answer, AsksAgain, CallEnds,
              GreetingNeeded, StreamStarts, StreamCloses, StatusCallback
<1>4. ASSUME NEW q \in Calls, TurnWebhook(q) \/ TurnStarts(q) \/ EditLead(q)
      PROVE  profile' = profile
  BY <1>4 DEF TurnWebhook, TurnStarts, EditLead
<1>5. CASE RefreshStarts \/ RefreshEnds \/ BuildFails \/ UNCHANGED vars
  BY <1>5 DEF RefreshStarts, RefreshEnds, BuildFails, vars
<1>6. ASSUME NEW q \in Calls, CallStep(q)
      PROVE  \/ profile' \in {profile, Nobody}
             \/ profile' = q /\ place'[q].pc = "dialing"
             \/ /\ profile' = q /\ q \notin exotel /\ rec[q].own /\ leg[q] \in {"up", "over"}
                /\ UNCHANGED <<place, leg>> /\ (leg[q] = "over" => "late" \in odd'[q])
  BY <1>1, <1>2, <1>3, <1>4, <1>6 DEF CallStep
<1>. QED  BY <1>5, <1>6 DEF Next

\* While a Twilio call is dialed or live, the engine's facts are its own, or
\* nobody's, unless the calls overlapped or should not be live.
Others(p, f) ==
  \/ {p, f} \in rivals \/ "lost" \in odd[p] \/ "kept" \in odd[p]
  \/ "kept" \in odd[f] \/ "late" \in odd[f]

ProfileInv ==
  \A p \in Calls \ exotel :
    Live(p) \/ place[p].pc = "dialing" => profile \in {p, Nobody} \/ Others(p, profile)

LEMMA ProfileInvStep ==
  ASSUME TypeInv, CallsInv, RivalsInv, ProfileInv, [Next]_vars
  PROVE  ProfileInv'
<1>0. /\ exotel' = exotel /\ rivals \subseteq rivals' /\ CallsInv' /\ RivalsInv'
      /\ Nobody \notin Calls /\ profile \in Calls \cup {Nobody}
  BY RivalsStay, RivalsInvStep, CallsInvStep, CallsAssumption DEF TypeInv, TypeOK, kinds
<1>. SUFFICES ASSUME NEW p \in Calls \ exotel, Live(p)' \/ place'[p].pc = "dialing",
                     profile' \notin {p, Nobody}
              PROVE  Others(p, profile)'
  BY <1>0 DEF ProfileInv
<1>1. Live(p) \/ place[p].pc = "dialing"
  <2>1. CASE Live(p)'
    BY <2>1, Onward
  <2>2. CASE place'[p].pc = "dialing"
    BY <2>2, PlacingStep, PlaceCallEffect, EndPriorEffect
  <2>. QED  BY <2>1, <2>2
<1>2. CASE profile' = profile
  <2>1. Others(p, profile) /\ profile \in Calls
    BY <1>0, <1>1, <1>2 DEF ProfileInv
  <2>2. odd[p] \subseteq odd'[p] /\ odd[profile] \subseteq odd'[profile]
    BY <2>1, Onward
  <2>. QED  BY <1>0, <1>2, <2>1, <2>2 DEF Others
<1>3. ASSUME NEW q \in Calls, profile' = q, place'[q].pc = "dialing"
      PROVE  Others(p, profile)'
  <2>1. AheadOf(p, q)' /\ CarrierInv(p)'
    BY <1>0, <1>3 DEF RivalsInv, CallsInv, CallInv
  <2>2. place'[p].pc # "idle"
    BY <2>1 DEF CarrierInv, Live
  <2>. QED  BY <1>3, <2>1, <2>2 DEF AheadOf, Placing, Gone, Others
<1>4. ASSUME NEW q \in Calls \ exotel, profile' = q, rec[q].own,
             leg[q] \in {"up", "over"}, UNCHANGED <<place, leg>>,
             leg[q] = "over" => "late" \in odd'[q]
      PROVE  Others(p, profile)'
  <2>1. /\ place[q].pc = "done" /\ "lost" \notin odd[q]
        /\ place[p].pc \in {"dialing", "done"}
    BY <1>1, <1>4 DEF CallsInv, CallInv, PlacedInv, CarrierInv, Live
  <2>2. AheadOf(q, p) /\ PairInv(p, q) /\ {p, q} = {q, p}
    BY <1>4 DEF RivalsInv
  <2>3. {p, q} \in rivals \/ Gone(q) \/ (Live(p) /\ Gone(p))
    BY <1>1, <2>1, <2>2 DEF AheadOf, PairInv, Placing
  <2>4. \/ {p, q} \in rivals \/ leg[q] = "over" \/ "kept" \in odd[q]
        \/ "lost" \in odd[p] \/ "kept" \in odd[p]
    BY <1>4, <2>1, <2>3 DEF Gone, Live
  <2>. QED  BY <1>0, <1>4, <2>4, Onward DEF Others
<1>. QED  BY <1>2, <1>3, <1>4, ProfileStep

LEMMA ProfileInvariant == Spec => []ProfileInv
<1>1. Init => ProfileInv
  BY DEF Init, ProfileInv
<1>. QED  BY <1>1, TypesHold, CallInvariant, RivalsInvariant, ProfileInvStep, PTL DEF Spec


\* What a step does to the lead of a Twilio call.
LEMMA LeadStep ==
  ASSUME TypeInv, CallsInv, [Next]_vars, NEW p \in Calls \ exotel
  PROVE  \/ lead'[p] \subseteq lead[p]
         \/ "edited" \in odd'[p]
         \/ lead'[p] = {SeedFacts(p)} /\ (rec[p].own \/ "early" \in odd'[p])
         \/ /\ p \in jobs /\ ~(rec[p].session /\ lead[p] # {})
            /\ lead'[p] \subseteq {profile}
            /\ leg[p] = "over" => "overran" \in odd'[p]
<1>1. ASSUME NEW q \in Calls, HangUp(q) \/ \E r \in Calls : EndPrior(q, r)
      PROVE  lead'[p] = lead[p]
  BY <1>1 DEF HangUp, EndPrior
<1>2. ASSUME NEW q \in Calls, q # p, CallStep(q)
      PROVE  OthersKept(q) \/ HangUp(q) \/ \E r \in Calls : EndPrior(q, r)
  BY <1>2, PlaceCallEffect, CreatesEffect, RegistersEffect, DialFailsEffect,
     CarrierEffect, StatusCallbackEffect, GreetingEffect, GreetingNeededEffect,
     StreamEffect, TurnEffect DEF CallStep
<1>3. ASSUME \/ PlaceCall(p) \/ Creates(p) \/ Registers(p) \/ DialFails(p) \/ Answer(p)
             \/ AsksAgain(p) \/ CallEnds(p) \/ GreetingNeeded(p) \/ StreamCloses(p)
             \/ \E e \in {"alive", "over"} : StatusCallback(p, e)
      PROVE  lead'[p] = lead[p]
  BY <1>3 DEF PlaceCall, Creates, Registers, DialFails, Answer, AsksAgain, CallEnds,
              GreetingNeeded, StreamCloses, StatusCallback
<1>4. ~StreamStarts(p)
  BY DEF StreamStarts, Connects
<1>5. CASE GreetingWebhook(p) \/ GreetingLocked(p) \/ GreetingBuilt(p)
  <2>1. CASE Kept(p)
    BY <2>1 DEF Kept
  <2>2. ASSUME NEW g, Seeded(p, g)
        PROVE  \/ lead'[p] = lead[p]
               \/ lead'[p] = {SeedFacts(p)} /\ (rec[p].own \/ "early" \in odd'[p])
    <3>1. RecordInv(p)
      BY DEF CallsInv, CallInv
    <3>. QED  BY <2>2, <3>1 DEF Seeded, Marked, RecordInv, Reached
  <2>. QED  BY <1>5, <2>1, <2>2, GreetingEffect
<1>6. CASE TurnWebhook(p)
  <2>1. rec[p].status # "none"
    BY <1>6 DEF CallsInv, CallInv, JobInv, Reached, TurnWebhook, Listening
  <2>. QED  BY <1>6, <2>1, TurnWebhookEffect
<1>7. CASE TurnStarts(p)
  <2>1. rec[p].status # "none"
    BY <1>7 DEF CallsInv, CallInv, JobInv, Reached, TurnStarts
  <2>. QED  BY <1>7, <2>1, TurnStartsEffect
<1>8. CASE EditLead(p)
  BY <1>8, EditLeadEffect
<1>9. CASE RefreshStarts \/ RefreshEnds \/ BuildFails \/ UNCHANGED vars
  BY <1>9 DEF RefreshStarts, RefreshEnds, BuildFails, vars
<1>10. ASSUME NEW q \in Calls, CallStep(q), q # p
       PROVE  lead'[p] = lead[p]
  BY <1>1, <1>2, <1>10 DEF OthersKept, Kept
<1>11. ASSUME CallStep(p)
       PROVE  \/ lead'[p] = lead[p]
              \/ GreetingWebhook(p) \/ GreetingLocked(p) \/ GreetingBuilt(p)
              \/ TurnWebhook(p) \/ TurnStarts(p) \/ EditLead(p)
  BY <1>1, <1>3, <1>4, <1>11 DEF CallStep
<1>. QED  BY <1>5, <1>6, <1>7, <1>8, <1>9, <1>10, <1>11 DEF Next

LEMMA LeadsStep ==
  ASSUME TypeInv, CallsInv, RivalsInv, ProfileInv, LeadHasOwnFacts, [Next]_vars
  PROVE  LeadHasOwnFacts'
<1>0. /\ exotel' = exotel /\ rivals \subseteq rivals'
      /\ lead \in [Calls -> SUBSET (Calls \cup {Nobody})] /\ profile \in Calls \cup {Nobody}
  BY RivalsStay DEF TypeInv, TypeOK, kinds
<1>. SUFFICES ASSUME NEW p \in Calls \ exotel, NEW q \in lead'[p],
                     q # p, "edited" \notin odd'[p]
              PROVE  /\ "early" \in odd'[p]
                     /\ \/ q = Nobody \/ {p, q} \in rivals'
                        \/ Excused(p, {"kept", "overran"})' \/ Excused(q, {"kept", "late"})'
  BY <1>0 DEF LeadHasOwnFacts, Excused
<1>1. odd[p] \subseteq odd'[p] /\ "edited" \notin odd[p]
  BY Onward
<1>2. CASE q \in lead[p]
  <2>1. /\ "early" \in odd[p]
        /\ \/ q = Nobody \/ {p, q} \in rivals
           \/ Excused(p, {"kept", "overran"}) \/ Excused(q, {"kept", "late"})
    BY <1>1, <1>2 DEF LeadHasOwnFacts, Excused
  <2>2. q = Nobody \/ (q \in Calls /\ odd[q] \subseteq odd'[q])
    BY <1>0, <1>2, Onward
  <2>. QED  BY <1>0, <1>1, <2>1, <2>2 DEF Excused
<1>3. CASE lead'[p] = {SeedFacts(p)} /\ (rec[p].own \/ "early" \in odd'[p])
  BY <1>3 DEF SeedFacts
<1>4. CASE /\ p \in jobs /\ ~(rec[p].session /\ lead[p] # {}) /\ lead'[p] \subseteq {profile}
           /\ leg[p] = "over" => "overran" \in odd'[p]
  \* its record was replaced by the one its placing request registered
  <2>1. CallInv(p)
    BY DEF CallsInv
  <2>2. rec[p].own /\ "early" \in odd[p] /\ "lost" \notin odd[p]
    BY <1>1, <1>4, <2>1 DEF CallInv, JobInv, LeadInv, PlacedInv
  <2>3. leg[p] \in {"up", "over"}
    BY <1>4, <2>1 DEF CallInv, JobInv, CarrierInv, TypeInv, TypeOK
  <2>4. CASE leg[p] = "over"
    BY <1>1, <1>4, <2>2, <2>4 DEF Excused
  <2>5. CASE leg[p] = "up"
    <3>1. q = Nobody \/ Others(p, q)
      BY <1>4, <2>5 DEF ProfileInv, Live
    <3>2. q = Nobody \/ (q \in Calls /\ odd[q] \subseteq odd'[q])
      BY <1>0, <1>4, Onward
    <3>. QED  BY <1>0, <1>1, <2>2, <3>1, <3>2 DEF Others, Excused
  <2>. QED  BY <2>3, <2>4, <2>5
<1>. QED  BY <1>2, <1>3, <1>4, LeadStep

\* LeadHasOwnFacts: although the greeting webhook, a turn without a lead and a
\* reset all fill it from the one set of facts the engine keeps for all calls, the
\* lead of a Twilio call holds its own contact's facts, or nobody's after a
\* request came before the record; another contact's only in the cases named.
THEOREM LeadsAreOwn == Spec => []LeadHasOwnFacts
<1>1. Init => LeadHasOwnFacts
  BY DEF Init, LeadHasOwnFacts
<1>. QED
  BY <1>1, TypesHold, CallInvariant, RivalsInvariant, ProfileInvariant, LeadsStep, PTL
     DEF Spec

=============================================================================

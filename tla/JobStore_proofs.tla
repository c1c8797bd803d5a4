--------------------------- MODULE JobStore_proofs ---------------------------
(***************************************************************************)
(* Proofs about the job store, for every value of its constants.           *)
(***************************************************************************)
EXTENDS JobStore, TLAPS

USE DEF InFlightStatuses, TerminalStatuses, NonLockingStatuses, Links, Stops,
        Unmeasured

-----------------------------------------------------------------------------
(***************************************************************************)
(* Types                                                                   *)
(***************************************************************************)

(* The record a job that was never admitted has is a record.               *)
LEMMA BlankType == Blank \in Row
BY DEF Blank, Row

(* A save of answers keeps a record a record.                              *)
LEMMA SavedType ==
  ASSUME NEW rec \in Row, NEW answers \in SUBSET Batches, NEW n \in Nat
  PROVE  [rec EXCEPT !.answers = answers, !.revision = n] \in Row
BY DEF Row

(* The record a request created for a child is a record.                   *)
LEMMA ChildType ==
  ASSUME NEW q \in Request, NEW link \in Links, q.created # Unstamped
  PROVE  ChildRecord(q, link) \in Row
<1> DEFINE owner   == q.owner
           parent  == q.job
           title   == q.seen.title
           stops   == IF q.seen.stops = "ask" THEN "ask" ELSE "never"
           answers == q.seen.answers \cup q.given
           created == q.created
<1>1. q.seen \in Row /\ q.given \in SUBSET Batches
  BY DEF Request
<1>2. /\ owner \in Owners \cup {NoOwner} /\ parent \in Jobs \cup {NoJob}
      /\ title \in Titles \cup {NoTitle} /\ stops \in Stops
      /\ answers \in SUBSET Batches /\ created \in Nat
  BY <1>1 DEF Request, Row
<1>3. ChildRecord(q, link) =
        [Blank EXCEPT !.owner = owner, !.parent = parent, !.link = link,
                      !.stops = stops, !.title = title,
                      !.answers = answers, !.created = created]
  BY DEF ChildRecord
<1> HIDE DEF owner, parent, title, stops, answers, created
<1>4. [Blank EXCEPT !.owner = owner, !.parent = parent, !.link = link,
                    !.stops = stops, !.title = title,
                    !.answers = answers, !.created = created] \in Row
  BY <1>2 DEF Blank, Row
<1> QED
  BY <1>3, <1>4

(* A request that has read nothing is a request.                           *)
LEMMA IdleType == Idle \in Request
<1>1. (CHOOSE i \in Identities : TRUE) \in Identities
  BY SetsAssumption
<1> QED
  BY <1>1, BlankType DEF Idle, Request

(* A request whose record is created is a request.                         *)
LEMMA CreatedType ==
  ASSUME NEW q \in Request, NEW now \in Nat
  PROVE  /\ [q EXCEPT !.created = now] \in Request
         /\ [q EXCEPT !.created = now].kind = q.kind
         /\ [q EXCEPT !.created = now].job = q.job
         /\ [q EXCEPT !.created = now].seen = q.seen
  BY DEF Request

(* What a charge settles to is a number of tokens, or unmeasured.          *)
LEMMA SettledType ==
  ASSUME NEW status, NEW spent \in Nat \cup {Unmeasured}
  PROVE  Settled(status, spent) \in Nat \cup {Unmeasured}
BY BoundsAssumption DEF Settled, Larger

(* An admission of a typed record keeps the types.                         *)
LEMMA ReserveType ==
  ASSUME TypeOK, NEW r \in Requests, NEW c \in Jobs, NEW rec \in Row,
         Reserve(r, c, rec)
  PROVE  TypeOK'
<1>1. req' \in [Requests -> Request]
  BY IdleType DEF Reserve, TypeOK
<1>2. CASE Admits(req[r])
  <2>1. req[r] \in Request
    BY DEF TypeOK
  <2>2. row' \in [Jobs -> Row]
    <3>1. \A j \in Jobs : [row[j] EXCEPT !.refusal = NoRefusal] \in Row
      BY DEF TypeOK, Row
    <3> QED
      BY <1>2, <3>1 DEF Reserve, TypeOK
  <2>3. held' \subseteq Jobs /\ usage' \subseteq Jobs
    BY <1>2 DEF Reserve, TypeOK
  <2>4. principal' \in [Identities -> Owners \cup {NoOwner}]
    BY <1>2, <2>1 DEF Reserve, TypeOK, Request
  <2>5. admitted' \subseteq [job : Jobs, identity : Identities, created : Nat, at : Nat]
    <3>1. req[r].created \in Nat /\ req[r].identity \in Identities
      BY <2>1 DEF Reserve, Request
    <3> QED
      BY <1>2, <3>1 DEF Reserve, TypeOK
  <2>6. /\ pc' \in [Jobs -> {"none", "queued", "fetched", "running", "ending",
                             "fallback"}]
        /\ copy' \in [Jobs -> Row] /\ clock' \in Nat
    BY <1>2 DEF Reserve, TypeOK
  <2> QED
    BY <1>1, <2>2, <2>3, <2>4, <2>5, <2>6 DEF TypeOK
<1>3. CASE ~Admits(req[r])
  BY <1>1, <1>3 DEF Reserve, TypeOK
<1> QED
  BY <1>2, <1>3

(* A step of a request keeps the types.                                    *)
LEMMA RequestType ==
  ASSUME TypeOK, NEW r \in Requests, RequestStep(r)
  PROVE  TypeOK'
<1> DEFINE q == req[r]
<1>0. q \in Request
  BY DEF TypeOK
<1>1. ASSUME NEW i \in Identities, Submit(r, i) PROVE TypeOK'
  <2>1. PICK o \in IF principal[i] = NoOwner THEN FreshOwners
                   ELSE {principal[i]} :
          req' = [req EXCEPT ![r] = [Idle EXCEPT
                    !.kind = "submitting", !.identity = i, !.owner = o,
                    !.first = (principal[i] = NoOwner)]]
    BY <1>1 DEF Submit
  <2>2. o \in Owners \cup {NoOwner}
    BY <2>1 DEF FreshOwners, TypeOK
  <2>3. [Idle EXCEPT !.kind = "submitting", !.identity = i, !.owner = o,
                     !.first = (principal[i] = NoOwner)] \in Request
    BY <2>2, IdleType DEF Request
  <2> QED
    BY <1>1, <2>1, <2>3 DEF Submit, TypeOK
<1>2. ASSUME NEW c \in Jobs, NEW stops \in Modes, ReserveNew(r, c, stops)
      PROVE  TypeOK'
  <2>1. [Blank EXCEPT !.owner = q.owner, !.stops = stops,
                      !.created = q.created] \in Row
    BY <1>0, <1>2, BoundsAssumption, NoneAssumption
       DEF Blank, Row, Request, TypeOK, ReserveNew, Reserve
  <2> QED
    BY <1>2, <2>1, ReserveType DEF ReserveNew
<1>3. ASSUME NEW i \in Identities, NEW j \in Jobs, NEW given \in SUBSET Batches,
             Compose(r, i, j, given)
      PROVE  TypeOK'
  <2>1. [Idle EXCEPT !.kind = "composed", !.identity = i,
                     !.owner = row[j].owner, !.job = j, !.seen = row[j],
                     !.given = given] \in Request
    BY IdleType DEF Request, TypeOK, Row
  <2> QED
    BY <1>3, <2>1 DEF Compose, TypeOK
<1>4. ASSUME NEW c \in Jobs, NEW link \in Links \ {"fresh"},
             ReserveChild(r, c, link)
      PROVE  TypeOK'
  <2>1. ChildRecord(q, link) \in Row
    BY <1>0, <1>4, ChildType DEF ReserveChild, Reserve
  <2> QED
    BY <1>4, <2>1, ReserveType DEF ReserveChild
<1>5. CASE SaveAnswers(r)
  <2>1. req' \in [Requests -> Request]
    BY <1>5, IdleType DEF SaveAnswers, TypeOK
  <2>2. ASSUME q.job \in Jobs
        PROVE  [row[q.job] EXCEPT !.answers = q.seen.answers \cup q.given,
                                  !.revision = row[q.job].revision + 1] \in Row
    <3>1. q.seen \in Row /\ q.given \subseteq Batches /\ row[q.job] \in Row
      BY <1>0, <2>2 DEF Request, TypeOK
    <3>2. q.seen.answers \subseteq Batches /\ row[q.job].revision + 1 \in Nat
      BY <3>1 DEF Row
    <3>3. q.seen.answers \cup q.given \in SUBSET Batches
      BY <3>1, <3>2
    <3> HIDE DEF q
    <3> QED
      BY <3>1, <3>2, <3>3, SavedType
  <2>3. row' \in [Jobs -> Row]
    BY <1>5, <2>2 DEF SaveAnswers, SaveLands, TypeOK
  <2> QED
    BY <1>5, <2>1, <2>3 DEF SaveAnswers, TypeOK
<1>6. CASE Create(r)
  <2>1. [q EXCEPT !.created = clock] \in Request
    BY <1>0, CreatedType DEF TypeOK
  <2> QED
    BY <1>6, <2>1 DEF Create, TypeOK
<1> QED
  BY <1>1, <1>2, <1>3, <1>4, <1>5, <1>6 DEF RequestStep

(* A step of an owner, outside a job's answers, keeps the types.           *)
LEMMA OwnerType ==
  ASSUME TypeOK, NEW j \in Jobs, OwnerStep(j)
  PROVE  TypeOK'
<1>1. row[j] \in Row
  BY DEF TypeOK
<1>2. ASSUME NEW t \in Titles, SetTitle(j, t) PROVE TypeOK'
  <2>1. [row[j] EXCEPT !.title = t] \in Row
    BY <1>1 DEF Row
  <2> QED
    BY <1>2, <2>1 DEF SetTitle, TypeOK
<1>3. ASSUME NEW refusal \in Refusals, SetContinueRefusal(j, refusal)
      PROVE  TypeOK'
  <2>1. [row[j] EXCEPT !.refusal = refusal] \in Row
    BY <1>1 DEF Row
  <2> QED
    BY <1>3, <2>1 DEF SetContinueRefusal, TypeOK
<1>4. CASE Delete(j)
  <2>1. [Blank EXCEPT
           !.owner = row[j].owner, !.parent = row[j].parent,
           !.status = row[j].status, !.created = row[j].created,
           !.measured = row[j].measured] \in Row
    BY <1>1, BlankType DEF Row
  <2> QED
    BY <1>4, <2>1 DEF Delete, TypeOK
<1> QED
  BY <1>2, <1>3, <1>4 DEF OwnerStep

(* What a worker writes is a record.                                       *)
LEMMA WrittenType ==
  ASSUME TypeOK, NEW j \in Jobs
  PROVE  Written(j) \in Row
<1>1. /\ copy[j] \in Row
      /\ row[j].title \in Titles \cup {NoTitle}
      /\ row[j].refusal \in Refusals \cup {NoRefusal}
  BY DEF TypeOK, Row
<1>2. \A rec \in Row, title \in Titles \cup {NoTitle},
         refusal \in Refusals \cup {NoRefusal} :
        [rec EXCEPT !.title = title, !.refusal = refusal] \in Row
  BY DEF Row
<1> QED
  BY <1>1, <1>2 DEF Written

(* A step of a worker keeps the types.                                     *)
LEMMA WorkerType ==
  ASSUME TypeOK, NEW j \in Jobs, WorkerStep(j)
  PROVE  TypeOK'
<1>1. row[j] \in Row /\ copy[j] \in Row /\ Written(j) \in Row
  BY WrittenType DEF TypeOK
<1>2. CASE Fetch(j)
  <2>1. [row[j] EXCEPT !.status = "running"] \in Row
    BY <1>1 DEF Row
  <2> QED
    BY <1>2, <2>1 DEF Fetch, TypeOK
<1>3. CASE FetchRaises(j)
  BY <1>3, BlankType DEF FetchRaises, Return, TypeOK
<1>4. CASE Save(j)
  BY <1>1, <1>4, BlankType DEF Save, Return, TypeOK
<1>5. CASE SaveRaises(j)
  BY <1>1, <1>5 DEF SaveRaises, TypeOK
<1>6. CASE FallBack(j)
  <2>1. Settled("failed", copy[j].measured) \in Nat \cup {Unmeasured}
    BY <1>1, SettledType DEF Row
  <2>2. [row[j] EXCEPT !.status = "failed",
                       !.measured = Settled("failed", copy[j].measured)]
          \in Row
    BY <1>1, <2>1 DEF Row
  <2>3. row' \in [Jobs -> Row]
    BY <1>6, <2>2 DEF FallBack, TypeOK
  <2> QED
    BY <1>6, <2>3, BlankType DEF FallBack, Return, TypeOK
<1>7. CASE FallBackRaises(j)
  BY <1>7, BlankType DEF FallBackRaises, Return, TypeOK
<1>8. CASE EndRun(j)
  <2>1. PICK outcome \in Outcomes(copy[j]),
             spent \in Spends \cup {Unmeasured} :
          copy' = [copy EXCEPT ![j] =
                     [copy[j] EXCEPT !.status = outcome,
                                     !.measured = Settled(outcome, spent)]]
    BY <1>8 DEF EndRun
  <2>2. Settled(outcome, spent) \in Nat \cup {Unmeasured}
    BY SettledType, BoundsAssumption
  <2>3. outcome \in TerminalStatuses
    BY BoundsAssumption DEF Outcomes
  <2>4. [copy[j] EXCEPT !.status = outcome,
                        !.measured = Settled(outcome, spent)] \in Row
    <3>1. \A status \in TerminalStatuses, tokens \in Nat \cup {Unmeasured} :
            [copy[j] EXCEPT !.status = status, !.measured = tokens] \in Row
      BY <1>1 DEF Row
    <3> QED
      BY <2>2, <2>3, <3>1
  <2> QED
    BY <1>8, <2>1, <2>4 DEF EndRun, TypeOK
<1> QED
  BY <1>2, <1>3, <1>4, <1>5, <1>6, <1>7, <1>8 DEF WorkerStep

(* Every step keeps the types.                                             *)
LEMMA NextType == TypeOK /\ [Next]_vars => TypeOK'
<1> SUFFICES ASSUME TypeOK, [Next]_vars PROVE TypeOK'
  OBVIOUS
<1>1. CASE Restart
  <2>1. row' \in [Jobs -> Row]
    <3>1. \A j \in Jobs : [row[j] EXCEPT !.status = "failed"] \in Row
      BY DEF TypeOK, Row
    <3> QED
      BY <1>1, <3>1 DEF Restart, TypeOK
  <2> QED
    BY <1>1, <2>1, BlankType, IdleType DEF Restart, TypeOK
<1>2. CASE Tick
  BY <1>2 DEF Tick, TypeOK
<1>3. CASE UNCHANGED vars
  BY <1>3 DEF vars, TypeOK
<1> QED
  BY <1>1, <1>2, <1>3, RequestType, OwnerType, WorkerType DEF Next

(* Every variable keeps its type in every behaviour of the store.          *)
THEOREM TypeCorrect == Spec => []TypeOK
<1>1. Init => TypeOK
  BY BlankType, IdleType DEF Init, TypeOK
<1> QED
  BY <1>1, NextType, PTL DEF Spec

-----------------------------------------------------------------------------
(***************************************************************************)
(* Lineage                                                                 *)
(***************************************************************************)

Same(j) ==
  /\ row'[j].owner = row[j].owner
  /\ row'[j].parent = row[j].parent
  /\ row'[j].link = row[j].link
  /\ row'[j].revision = row[j].revision
  /\ row'[j].answers = row[j].answers

(* A quiet step admits and deletes nothing and saves no answers: at most   *)
(* it ends jobs that were in flight.                                       *)
Quiet ==
  /\ held' = held /\ usage' = usage
  /\ \A j \in Jobs :
       /\ Same(j)
       /\ \/ row'[j].status = row[j].status
          \/ j \in held /\ row[j].status \in InFlightStatuses
       /\ row'[j].status \in InFlightStatuses \cup TerminalStatuses
       /\ FinalWaits(row'[j]) => FinalWaits(row[j])

LineageOnly ==
  /\ held \cap usage = {}
  /\ \A c \in held \cup usage :
       /\ row[c].parent \in held \cup usage \cup {NoJob}
       /\ row[c].parent \in held => ~Final(row[row[c].parent])
  /\ \A j \in held : ~FinalWaits(row[j])
  /\ OneLockingChild /\ ParentOutlivesRun /\ NoMissedBatch

(* A quiet step locks no parent that was not locked.                       *)
LEMMA QuietLocking ==
  ASSUME TypeOK, Quiet, NEW p
  PROVE  Locking(p)' \subseteq Locking(p)
BY DEF TypeOK, Quiet, Same, Locking

(* A quiet step keeps the lineage.                                         *)
LEMMA QuietLineage ==
  ASSUME TypeOK, LineageOnly, Quiet
  PROVE  LineageOnly'
<1>1. held' \cap usage' = {}
  BY DEF LineageOnly, Quiet
<1>2. ASSUME NEW c \in held' \cup usage'
      PROVE  /\ row'[c].parent \in held' \cup usage' \cup {NoJob}
             /\ row'[c].parent \in held' => ~Final(row'[row'[c].parent])
  <2>1. c \in Jobs /\ c \in held \cup usage /\ held \subseteq Jobs
    BY <1>2 DEF Quiet, TypeOK
  <2>2. row'[c].parent = row[c].parent
    BY <2>1 DEF Quiet, Same
  <2>3. \A p \in held : row'[p].link = row[p].link
    BY <2>1 DEF Quiet, Same
  <2> QED
    BY <2>1, <2>2, <2>3 DEF LineageOnly, Quiet, Final
<1>3. \A j \in held' : ~FinalWaits(row'[j])
  BY DEF LineageOnly, Quiet, TypeOK
<1>4. OneLockingChild'
  BY QuietLocking DEF OneLockingChild, LineageOnly
<1>5. ParentOutlivesRun'
  BY DEF ParentOutlivesRun, LineageOnly, HoldsASlot, Quiet, Same, TypeOK
<1>6. NoMissedBatch'
  <2> SUFFICES ASSUME NEW p \in held', NEW c \in Locking(p)', c \in held'
               PROVE  row'[p].answers \subseteq row'[c].answers
    BY DEF NoMissedBatch
  <2>1. c \in Locking(p) /\ p \in held /\ c \in held /\ p \in Jobs /\ c \in Jobs
    BY QuietLocking DEF Quiet, TypeOK
  <2>2. row[p].answers \subseteq row[c].answers
    BY <2>1 DEF LineageOnly, NoMissedBatch
  <2> QED
    BY <2>1, <2>2 DEF Quiet, Same
<1> QED
  BY <1>1, <1>2, <1>3, <1>4, <1>5, <1>6 DEF LineageOnly

(* Each step of a worker is quiet.                                         *)
LEMMA WorkerQuiet ==
  ASSUME TypeOK, LineageInv, NEW j \in Jobs, WorkerStep(j)
  PROVE  Quiet
<1>1. row[j] \in Row /\ copy[j] \in Row /\ \A i \in Jobs : row[i] \in Row
  BY DEF TypeOK
<1>2. \A i \in Jobs : row[i].status \in InFlightStatuses \cup TerminalStatuses
  BY <1>1 DEF Row
<1>3. ASSUME row' = row, held' = held, usage' = usage PROVE Quiet
  BY <1>2, <1>3 DEF Quiet, Same
<1>4. ASSUME pc[j] \in {"fetched", "running", "ending"},
             row' = [row EXCEPT ![j] = Written(j)],
             held' = held, usage' = usage
      PROVE  Quiet
  <2>1. j \in held /\ row[j].status \in InFlightStatuses
    BY <1>4 DEF LineageInv, WorkerOwnsRun
  <2>2. /\ copy[j].owner = row[j].owner /\ copy[j].parent = row[j].parent
        /\ copy[j].link = row[j].link
        /\ copy[j].revision = row[j].revision
        /\ copy[j].answers = row[j].answers
        /\ pc[j] # "ending" => copy[j].status = "running"
        /\ ~FinalWaits(copy[j])
    BY <1>4 DEF LineageInv, CopyMatches, ChainsAreWhole, FinalWaits
  <2>3. /\ Written(j).owner = copy[j].owner
        /\ Written(j).parent = copy[j].parent
        /\ Written(j).link = copy[j].link
        /\ Written(j).revision = copy[j].revision
        /\ Written(j).answers = copy[j].answers
        /\ Written(j).status = copy[j].status
    BY <1>1 DEF Written, Row
  <2>4. row'[j] = Written(j) /\ \A i \in Jobs : i # j => row'[i] = row[i]
    BY <1>4 DEF TypeOK
  <2>5. copy[j].status \in InFlightStatuses \cup TerminalStatuses
    BY <1>1 DEF Row
  <2>6. Same(j) /\ ~FinalWaits(row'[j])
    BY <2>2, <2>3, <2>4 DEF Same, FinalWaits, Final
  <2>7. row'[j].status \in InFlightStatuses \cup TerminalStatuses
    BY <2>3, <2>4, <2>5
  <2>8. \A i \in Jobs : i # j => Same(i) /\ row'[i].status = row[i].status
                              /\ (FinalWaits(row'[i]) => FinalWaits(row[i]))
    BY <2>4 DEF Same
  <2> QED
    BY <1>2, <1>4, <2>1, <2>6, <2>7, <2>8 DEF Quiet
<1>5. CASE Fetch(j)
  BY <1>3, <1>5 DEF Fetch
<1>6. CASE FetchRaises(j)
  BY <1>3, <1>6 DEF FetchRaises
<1>7. CASE Save(j)
  BY <1>4, <1>7 DEF Save
<1>8. CASE SaveRaises(j)
  BY <1>3, <1>4, <1>8 DEF SaveRaises
<1>9. CASE FallBack(j)
  <2>1. CASE j \in held /\ row[j].status \in InFlightStatuses
    <3> DEFINE failed == [row[j] EXCEPT
                            !.status = "failed",
                            !.measured = Settled("failed", copy[j].measured)]
    <3>1. row'[j] = failed /\ \A i \in Jobs : i # j => row'[i] = row[i]
      BY <1>9, <2>1 DEF FallBack, TypeOK
    <3>2. /\ failed.owner = row[j].owner /\ failed.parent = row[j].parent
          /\ failed.link = row[j].link /\ failed.revision = row[j].revision
          /\ failed.answers = row[j].answers /\ failed.status = "failed"
      BY <1>1 DEF Row
    <3> HIDE DEF failed
    <3>3. held' = held /\ usage' = usage
      BY <1>9 DEF FallBack
    <3> QED
      BY <1>2, <2>1, <3>1, <3>2, <3>3 DEF Quiet, Same, FinalWaits
  <2>2. CASE ~(j \in held /\ row[j].status \in InFlightStatuses)
    BY <1>3, <1>9, <2>2 DEF FallBack
  <2> QED
    BY <2>1, <2>2
<1>10. CASE FallBackRaises(j)
  BY <1>3, <1>10 DEF FallBackRaises
<1>11. CASE EndRun(j)
  BY <1>3, <1>11 DEF EndRun
<1> QED
  BY <1>5, <1>6, <1>7, <1>8, <1>9, <1>10, <1>11 DEF WorkerStep

(* A title, a refusal, a restart, a tick, a submission that starts, a read *)
(* and a refused admission are quiet.                                      *)
LEMMA OtherQuiet ==
  ASSUME TypeOK,
         \/ \E j \in Jobs, t \in Titles : SetTitle(j, t)
         \/ \E j \in Jobs, refusal \in Refusals : SetContinueRefusal(j, refusal)
         \/ Restart
         \/ UNCHANGED <<held, usage, row>>
  PROVE  Quiet
<1>1. \A i \in Jobs : row[i] \in Row
  BY DEF TypeOK
<1>2. \A i \in Jobs : row[i].status \in InFlightStatuses \cup TerminalStatuses
  BY <1>1 DEF Row
<1>3. ASSUME NEW j \in Jobs, NEW t \in Titles, SetTitle(j, t) PROVE Quiet
  <2>1. \A i \in Jobs : row'[i] = IF i = j THEN [row[j] EXCEPT !.title = t]
                                  ELSE row[i]
    BY <1>3 DEF SetTitle, TypeOK
  <2>2. \A i \in Jobs : Same(i) /\ row'[i].status = row[i].status
    BY <1>1, <2>1 DEF Same, Row
  <2> QED
    BY <1>2, <1>3, <2>2 DEF SetTitle, Quiet, Same, FinalWaits, Final
<1>4. ASSUME NEW j \in Jobs, NEW x \in Refusals, SetContinueRefusal(j, x)
      PROVE  Quiet
  <2>1. \A i \in Jobs : row'[i] = IF i = j THEN [row[j] EXCEPT !.refusal = x]
                                  ELSE row[i]
    BY <1>4 DEF SetContinueRefusal, TypeOK
  <2>2. \A i \in Jobs : Same(i) /\ row'[i].status = row[i].status
    BY <1>1, <2>1 DEF Same, Row
  <2> QED
    BY <1>2, <1>4, <2>2 DEF SetContinueRefusal, Quiet, Same, FinalWaits, Final
<1>5. CASE Restart
  <2>1. \A i \in Jobs :
          row'[i] = IF HoldsASlot(i) THEN [row[i] EXCEPT !.status = "failed"]
                    ELSE row[i]
    BY <1>5 DEF Restart
  <2>2. \A i \in Jobs : Same(i) /\ (HoldsASlot(i) => row'[i].status = "failed")
                        /\ (~HoldsASlot(i) => row'[i].status = row[i].status)
    BY <1>1, <2>1 DEF Same, Row
  <2> QED
    BY <1>2, <1>5, <2>2
       DEF Restart, Quiet, HoldsASlot, Same, FinalWaits, Final
<1>6. CASE UNCHANGED <<held, usage, row>>
  BY <1>2, <1>6 DEF Quiet, Same
<1> QED
  BY <1>3, <1>4, <1>5, <1>6

(* A delete keeps the lineage: it takes no parent of a job in flight, and  *)
(* the usage row it leaves locks what the record locked.                   *)
LEMMA DeleteLineage ==
  ASSUME TypeOK, LineageOnly, NEW j \in Jobs, Delete(j)
  PROVE  LineageOnly'
<1>1. /\ j \in held /\ held' = held \ {j} /\ usage' = usage \cup {j}
      /\ row[j].status \notin InFlightStatuses
  BY DEF Delete, HoldsASlot
<1>2. \A i \in Jobs : i # j => row'[i] = row[i]
  BY DEF Delete, TypeOK
<1>3. row'[j].parent = row[j].parent /\ row'[j].status = row[j].status
  <2>1. row'[j] = [Blank EXCEPT
                     !.owner = row[j].owner, !.parent = row[j].parent,
                     !.status = row[j].status, !.created = row[j].created,
                     !.measured = row[j].measured]
    BY DEF Delete, TypeOK
  <2> QED
    BY <2>1 DEF Blank
<1>4. held' \cup usage' = held \cup usage /\ held' \subseteq held
  BY <1>1
<1>5. held \subseteq Jobs /\ usage \subseteq Jobs
  BY DEF TypeOK
<1>6. \A p : Locking(p)' \subseteq Locking(p)
  BY <1>1, <1>2, <1>3, <1>4, <1>5 DEF Locking
<1>7. OneLockingChild'
  BY <1>6 DEF OneLockingChild, LineageOnly
<1>8. ParentOutlivesRun'
  <2> SUFFICES ASSUME NEW c \in Jobs, HoldsASlot(c)', row'[c].parent # NoJob
               PROVE  row'[c].parent \in held'
    BY DEF ParentOutlivesRun
  <2>1. c # j /\ row'[c] = row[c] /\ HoldsASlot(c)
    BY <1>1, <1>2 DEF HoldsASlot
  <2>2. row[c].parent \in held
    BY <2>1 DEF LineageOnly, ParentOutlivesRun
  <2>3. row[c].parent # j
    BY <2>1 DEF Delete, Children, HoldsASlot
  <2> QED
    BY <1>1, <2>1, <2>2, <2>3
<1>9. NoMissedBatch'
  <2> SUFFICES ASSUME NEW p \in held', NEW c \in Locking(p)', c \in held'
               PROVE  row'[p].answers \subseteq row'[c].answers
    BY DEF NoMissedBatch
  <2>1. c \in Locking(p) /\ p \in held /\ c \in held /\ p # j /\ c # j
    BY <1>1, <1>4, <1>6
  <2>2. row[p].answers \subseteq row[c].answers
    BY <2>1 DEF LineageOnly, NoMissedBatch
  <2> QED
    BY <1>2, <1>5, <2>1, <2>2
<1>10. held' \cap usage' = {}
  BY <1>1 DEF LineageOnly
<1>11. \A i \in held' : ~FinalWaits(row'[i])
  BY <1>1, <1>2, <1>5 DEF LineageOnly
<1>12. ASSUME NEW c \in held' \cup usage'
       PROVE  /\ row'[c].parent \in held' \cup usage' \cup {NoJob}
              /\ row'[c].parent \in held' => ~Final(row'[row'[c].parent])
  <2>1. c \in held \cup usage /\ row'[c].parent = row[c].parent
    BY <1>2, <1>3, <1>4, <1>5, <1>12
  <2>2. \A p \in held' : row'[p] = row[p]
    BY <1>1, <1>2, <1>5
  <2> QED
    BY <1>4, <2>1, <2>2 DEF LineageOnly
<1> QED
  BY <1>7, <1>8, <1>9, <1>10, <1>11, <1>12 DEF LineageOnly

(* A save of answers keeps the lineage: it lands only where no child locks *)
(* the job, or the job's report is final and has no child.                 *)
LEMMA SaveLineage ==
  ASSUME TypeOK, LineageOnly, SeenIsPast, NEW r \in Requests, SaveAnswers(r)
  PROVE  LineageOnly'
<1> DEFINE q == req[r]
           s == q.job
<1>1. held' = held /\ usage' = usage /\ held \subseteq Jobs /\ usage \subseteq Jobs
  BY DEF SaveAnswers, TypeOK
<1>2. CASE UNCHANGED row
  BY <1>1, <1>2, OtherQuiet, QuietLineage
<1>3. CASE /\ SaveLands(q)
           /\ row' = [row EXCEPT ![s] =
                        [row[s] EXCEPT !.answers  = q.seen.answers \cup q.given,
                                       !.revision = row[s].revision + 1]]
  <2>1. s \in held /\ s \in Jobs
    BY <1>1, <1>3 DEF SaveLands
  <2>2. \A i \in Jobs : i # s => row'[i] = row[i]
    BY <1>3 DEF TypeOK
  <2>3. /\ row'[s].parent = row[s].parent /\ row'[s].link = row[s].link
        /\ row'[s].status = row[s].status
        /\ row'[s].answers = q.seen.answers \cup q.given
    <3>1. row[s] \in Row
      BY <2>1 DEF TypeOK
    <3>2. row'[s] = [row[s] EXCEPT !.answers  = q.seen.answers \cup q.given,
                                   !.revision = row[s].revision + 1]
      BY <1>3, <2>1 DEF TypeOK
    <3> QED
      BY <3>1, <3>2 DEF Row
  <2>4. row[s].answers \subseteq row'[s].answers
    <3>1. q.kind = "composed" /\ row[s].revision = q.seen.revision
      BY <1>3 DEF SaveAnswers, SaveLands
    <3>2. q.seen.answers = row[s].answers
      BY <2>1, <3>1 DEF SeenIsPast
    <3> QED
      BY <2>3, <3>2
  <2>5. \A i \in Jobs : /\ row'[i].parent = row[i].parent
                        /\ row'[i].link = row[i].link
                        /\ row'[i].status = row[i].status
                        /\ row[i].answers \subseteq row'[i].answers
    BY <2>2, <2>3, <2>4
  <2>6. \A p : Locking(p)' = Locking(p)
    BY <1>1, <2>5 DEF Locking
  <2>7. Locking(s) = {}
    <3>1. CASE Final(row[s])
      <4>1. \A c \in held \cup usage : row[c].parent # s
        BY <2>1, <3>1 DEF LineageOnly
      <4> QED
        BY <4>1 DEF Locking
    <3>2. CASE ~Locked(s)
      BY <3>2 DEF Locking, Locked, LocksItsParent, Children, HoldsASlot
    <3> QED
      BY <1>3, <3>1, <3>2 DEF SaveLands
  <2>8. NoMissedBatch'
    <3> SUFFICES ASSUME NEW p \in held', NEW c \in Locking(p)', c \in held'
                 PROVE  row'[p].answers \subseteq row'[c].answers
      BY DEF NoMissedBatch
    <3>1. c \in Locking(p) /\ p \in held /\ c \in held /\ p # s /\ p \in Jobs
          /\ c \in Jobs
      BY <1>1, <2>6, <2>7
    <3>2. row[p].answers \subseteq row[c].answers
      BY <3>1 DEF LineageOnly, NoMissedBatch
    <3> QED
      BY <2>2, <2>5, <3>1, <3>2
  <2>9. OneLockingChild'
    BY <2>6 DEF OneLockingChild, LineageOnly
  <2>10. ParentOutlivesRun'
    BY <1>1, <2>5 DEF ParentOutlivesRun, LineageOnly, HoldsASlot
  <2>11. \A i \in held' : ~FinalWaits(row'[i])
    BY <1>1, <2>5 DEF LineageOnly, FinalWaits, Final
  <2>12. \A c \in held' \cup usage' :
           /\ row'[c].parent \in held' \cup usage' \cup {NoJob}
           /\ row'[c].parent \in held' => ~Final(row'[row'[c].parent])
    BY <1>1, <2>5 DEF LineageOnly, Final
  <2> QED
    BY <1>1, <2>8, <2>9, <2>10, <2>11, <2>12 DEF LineageOnly
<1> QED
  BY <1>2, <1>3 DEF SaveAnswers

(* The record `rec` continues the job that request `q` read, if it read one. *)
ContinuesSeen(q, rec) ==
  /\ rec.status = "queued"
  /\ rec.parent = q.job
  /\ q.job # NoJob =>
       /\ q.kind = "composed"
       /\ ~Final(q.seen)
       /\ q.seen.answers \subseteq rec.answers

(* An admission keeps the lineage: the parent is held and unlocked, and    *)
(* its answers are the ones the request has seen.                          *)
LEMMA AdmitLineage ==
  ASSUME TypeOK, LineageOnly, SeenIsPast,
         NEW r \in Requests, NEW c \in Jobs, NEW rec \in Row,
         ContinuesSeen(req[r], rec), Reserve(r, c, rec)
  PROVE  LineageOnly'
<1> DEFINE q == req[r]
<1>0. CASE ~Admits(q)
  BY <1>0, OtherQuiet, QuietLineage DEF Reserve
<1> SUFFICES ASSUME Admits(q) PROVE LineageOnly'
  BY <1>0
<1>1. /\ c \notin held /\ c \notin usage
      /\ held' = held \cup {c} /\ usage' = usage
      /\ held \subseteq Jobs /\ usage \subseteq Jobs
  BY DEF Reserve, TypeOK
<1>2. row'[c] = rec
  BY DEF Reserve
<1>3. \A i \in Jobs : i # c =>
        /\ row'[i].parent = row[i].parent /\ row'[i].link = row[i].link
        /\ row'[i].status = row[i].status /\ row'[i].answers = row[i].answers
  <2>1. \A i \in Jobs : row[i] \in Row
    BY DEF TypeOK
  <2> SUFFICES ASSUME NEW i \in Jobs, i # c
               PROVE  /\ row'[i].parent = row[i].parent
                      /\ row'[i].link = row[i].link
                      /\ row'[i].status = row[i].status
                      /\ row'[i].answers = row[i].answers
    OBVIOUS
  <2>2. CASE row'[i] = row[i]
    BY <2>2
  <2>3. CASE row'[i] = [row[i] EXCEPT !.refusal = NoRefusal]
    BY <2>1, <2>3 DEF Row
  <2> QED
    BY <2>2, <2>3 DEF Reserve
<1>4. rec.parent # c
  BY <1>1, NoneAssumption DEF ContinuesSeen, Admits, ParentAdmits
<1>5. q.job # NoJob =>
        /\ q.job \in held /\ q.job # c
        /\ Locking(q.job) = {}
        /\ ~Final(row[q.job])
        /\ row[q.job].answers \subseteq rec.answers
  <2> SUFFICES ASSUME q.job # NoJob
               PROVE  /\ q.job \in held /\ q.job # c
                      /\ Locking(q.job) = {}
                      /\ ~Final(row[q.job])
                      /\ row[q.job].answers \subseteq rec.answers
    OBVIOUS
  <2>1. q.job \in held /\ ~Locked(q.job) /\ row[q.job].revision = q.seen.revision
    BY DEF Admits, ParentAdmits
  <2>2. Locking(q.job) = {}
    BY <2>1 DEF Locking, Locked, LocksItsParent, Children, HoldsASlot
  <2>3. q.seen.link = row[q.job].link /\ q.seen.answers = row[q.job].answers
    BY <2>1 DEF SeenIsPast, ContinuesSeen
  <2> QED
    BY <1>1, <2>1, <2>2, <2>3 DEF ContinuesSeen, Final
<1>6. \A i \in held \cup usage : row[i].parent # c
  BY <1>1, NoneAssumption DEF LineageOnly
<1>7. \A p : Locking(p)' \subseteq Locking(p) \cup {c}
  BY <1>1, <1>3 DEF Locking
<1>8. \A p : c \in Locking(p)' => p = rec.parent
  BY <1>2 DEF Locking
<1>9. OneLockingChild'
  <2> SUFFICES ASSUME NEW p \in Jobs, NEW d \in Locking(p)', NEW e \in Locking(p)'
               PROVE  d = e
    BY DEF OneLockingChild
  <2>1. CASE d = c \/ e = c
    <3>1. p = q.job /\ p # NoJob
      BY <1>8, <2>1, NoneAssumption DEF ContinuesSeen
    <3> QED
      BY <1>5, <1>7, <3>1
  <2>2. CASE d # c /\ e # c
    BY <1>7, <2>2 DEF LineageOnly, OneLockingChild
  <2> QED
    BY <2>1, <2>2
<1>10. ParentOutlivesRun'
  <2> SUFFICES ASSUME NEW d \in Jobs, HoldsASlot(d)', row'[d].parent # NoJob
               PROVE  row'[d].parent \in held'
    BY DEF ParentOutlivesRun
  <2>1. CASE d = c
    BY <1>1, <1>2, <1>5, <2>1 DEF ContinuesSeen
  <2>2. CASE d # c
    BY <1>1, <1>3, <2>2 DEF LineageOnly, ParentOutlivesRun, HoldsASlot
  <2> QED
    BY <2>1, <2>2
<1>11. NoMissedBatch'
  <2> SUFFICES ASSUME NEW p \in held', NEW d \in Locking(p)', d \in held'
               PROVE  row'[p].answers \subseteq row'[d].answers
    BY DEF NoMissedBatch
  <2>1. p # c
    <3>1. row'[d].parent = p /\ d \in Jobs /\ d \in held \cup usage \cup {c}
      BY <1>1 DEF Locking
    <3> QED
      BY <1>2, <1>3, <1>4, <1>6, <3>1
  <2>2. p \in held /\ p \in Jobs
    BY <1>1, <2>1
  <2>3. CASE d = c
    <3>1. p = q.job /\ p # NoJob
      BY <1>8, <2>2, <2>3, NoneAssumption DEF ContinuesSeen
    <3> QED
      BY <1>2, <1>3, <1>5, <2>1, <2>2, <2>3, <3>1
  <2>4. CASE d # c
    <3>1. d \in Locking(p) /\ d \in held /\ d \in Jobs
      BY <1>1, <1>7, <2>4
    <3>2. row[p].answers \subseteq row[d].answers
      BY <2>2, <3>1 DEF LineageOnly, NoMissedBatch
    <3> QED
      BY <1>3, <2>1, <2>2, <2>4, <3>1, <3>2
  <2> QED
    BY <2>3, <2>4
<1>12. held' \cap usage' = {}
  BY <1>1 DEF LineageOnly
<1>13. \A i \in held' : ~FinalWaits(row'[i])
  BY <1>1, <1>2, <1>3 DEF LineageOnly, FinalWaits, Final, ContinuesSeen
<1>14. ASSUME NEW d \in held' \cup usage'
       PROVE  /\ row'[d].parent \in held' \cup usage' \cup {NoJob}
              /\ row'[d].parent \in held' => ~Final(row'[row'[d].parent])
  <2>1. CASE d = c
    <3>1. CASE q.job = NoJob
      BY <1>1, <1>2, <2>1, <3>1, NoneAssumption DEF ContinuesSeen
    <3>2. CASE q.job # NoJob
      BY <1>1, <1>2, <1>3, <1>5, <2>1, <3>2 DEF ContinuesSeen, Final
    <3> QED
      BY <3>1, <3>2
  <2>2. CASE d # c
    <3>1. d \in held \cup usage /\ row'[d].parent = row[d].parent
      BY <1>1, <1>3, <2>2
    <3>2. row[d].parent # c
      BY <1>6, <3>1
    <3>3. /\ row[d].parent \in held \cup usage \cup {NoJob}
          /\ row[d].parent \in held => ~Final(row[row[d].parent])
      BY <3>1 DEF LineageOnly
    <3> QED
      BY <1>1, <1>3, <3>1, <3>2, <3>3 DEF Final
  <2> QED
    BY <2>1, <2>2
<1> QED
  BY <1>9, <1>10, <1>11, <1>12, <1>13, <1>14 DEF LineageOnly

-----------------------------------------------------------------------------
(***************************************************************************)
(* The worker's copy                                                       *)
(***************************************************************************)

WorkerInv ==
  /\ WorkerOwnsRun /\ CopyMatches
  /\ \A j \in Jobs : pc[j] = "ending" => ~FinalWaits(copy[j])

(* A step that moves no worker, keeps each job in flight in flight, and    *)
(* keeps what a copy holds of it keeps what is known of the workers.       *)
LEMMA WorkersStand ==
  ASSUME TypeOK, WorkerInv, pc' = pc, copy' = copy,
         \A j \in Jobs : j \in held /\ row[j].status \in InFlightStatuses =>
           j \in held' /\ Same(j) /\ row'[j].status = row[j].status
  PROVE  WorkerInv'
BY DEF WorkerInv, WorkerOwnsRun, CopyMatches, Same, TypeOK

(* A worker that stops, while nothing else moves, keeps what is known of   *)
(* the other workers.                                                      *)
LEMMA WorkerReturns ==
  ASSUME TypeOK, WorkerInv, NEW j \in Jobs, Return(j), held' = held,
         \A i \in Jobs : i # j => row'[i] = row[i]
  PROVE  WorkerInv'
<1>1. pc'[j] = "none" /\ \A i \in Jobs : i # j => pc'[i] = pc[i] /\ copy'[i] = copy[i]
  BY DEF Return, TypeOK
<1> QED
  BY <1>1 DEF WorkerInv, WorkerOwnsRun, CopyMatches

(* A step of a worker keeps what is known of the workers.                  *)
LEMMA WorkerKeeps ==
  ASSUME TypeOK, LineageInv, NEW j \in Jobs, WorkerStep(j)
  PROVE  WorkerInv'
<1>0. WorkerInv
  BY DEF LineageInv, ChainsAreWhole, WorkerInv
<1>1. row[j] \in Row /\ copy[j] \in Row
  BY DEF TypeOK
<1>2. CASE Fetch(j)
  <2>1. /\ copy'[j] = [row[j] EXCEPT !.status = "running"]
        /\ pc'[j] = "fetched"
        /\ \A i \in Jobs : i # j => pc'[i] = pc[i] /\ copy'[i] = copy[i]
        /\ row' = row /\ held' = held
        /\ j \in held /\ row[j].status \in InFlightStatuses
    BY <1>2 DEF Fetch, TypeOK
  <2>2. /\ copy'[j].owner = row[j].owner /\ copy'[j].parent = row[j].parent
        /\ copy'[j].link = row[j].link /\ copy'[j].revision = row[j].revision
        /\ copy'[j].answers = row[j].answers /\ copy'[j].status = "running"
    BY <1>1, <2>1 DEF Row
  <2>3. ASSUME NEW i \in Jobs, i # j
        PROVE  pc'[i] = pc[i] /\ copy'[i] = copy[i] /\ row'[i] = row[i]
    BY <2>1, <2>3
  <2>4. WorkerOwnsRun'
    BY <1>0, <2>1, <2>3 DEF WorkerInv, WorkerOwnsRun
  <2>5. CopyMatches'
    <3>1. row'[j] = row[j]
      BY <2>1
    <3> QED
      BY <1>0, <2>2, <2>3, <3>1 DEF WorkerInv, CopyMatches
  <2> QED
    BY <1>0, <2>1, <2>3, <2>4, <2>5 DEF WorkerInv
<1>3. CASE FetchRaises(j)
  BY <1>0, <1>3, WorkerReturns DEF FetchRaises
<1>4. CASE Save(j)
  <2>1. held' = held /\ \A i \in Jobs : i # j => row'[i] = row[i]
    BY <1>4 DEF Save, TypeOK
  <2>2. CASE pc[j] = "ending"
    BY <1>0, <1>4, <2>1, <2>2, WorkerReturns DEF Save
  <2>3. CASE pc[j] # "ending"
    <3>1. pc[j] \in {"fetched", "running"} /\ j \in held
      BY <1>4, <2>3 DEF Save
    <3>2. /\ pc'[j] = "running" /\ copy' = copy /\ row'[j] = Written(j)
          /\ \A i \in Jobs : i # j => pc'[i] = pc[i]
      BY <1>4, <2>3 DEF Save, TypeOK
    <3>3. /\ Written(j).owner = copy[j].owner
          /\ Written(j).parent = copy[j].parent
          /\ Written(j).link = copy[j].link
          /\ Written(j).revision = copy[j].revision
          /\ Written(j).answers = copy[j].answers
          /\ Written(j).status = copy[j].status
      BY <1>1 DEF Written, Row
    <3>4. copy[j].status = "running"
      BY <1>0, <3>1 DEF WorkerInv, CopyMatches
    <3>5. WorkerOwnsRun'
      <4>1. ASSUME NEW i \in Jobs, i # j
            PROVE  pc'[i] = pc[i] /\ row'[i] = row[i]
        BY <2>1, <3>2, <4>1
      <4>2. row'[j].status = "running" /\ j \in held'
        BY <2>1, <3>1, <3>2, <3>3, <3>4
      <4> QED
        BY <1>0, <2>1, <4>1, <4>2 DEF WorkerInv, WorkerOwnsRun
    <3>6. CopyMatches'
      <4>1. ASSUME NEW i \in Jobs, i # j
            PROVE  pc'[i] = pc[i] /\ copy'[i] = copy[i] /\ row'[i] = row[i]
        BY <2>1, <3>2, <4>1
      <4>2. /\ row'[j].owner = copy'[j].owner /\ row'[j].parent = copy'[j].parent
            /\ row'[j].link = copy'[j].link
            /\ row'[j].revision = copy'[j].revision
            /\ row'[j].answers = copy'[j].answers
            /\ copy'[j].status = "running"
        BY <3>2, <3>3, <3>4
      <4> QED
        BY <1>0, <4>1, <4>2 DEF WorkerInv, CopyMatches
    <3> QED
      BY <1>0, <3>2, <3>5, <3>6 DEF WorkerInv
  <2> QED
    BY <2>2, <2>3
<1>5. CASE SaveRaises(j)
  <2>1. /\ pc'[j] = "fallback" /\ copy' = copy /\ held' = held
        /\ \A i \in Jobs : i # j => pc'[i] = pc[i] /\ row'[i] = row[i]
    BY <1>5 DEF SaveRaises, TypeOK
  <2> QED
    BY <1>0, <2>1 DEF WorkerInv, WorkerOwnsRun, CopyMatches
<1>6. CASE FallBack(j)
  <2>1. held' = held /\ \A i \in Jobs : i # j => row'[i] = row[i]
    BY <1>6 DEF FallBack, TypeOK
  <2> QED
    BY <1>0, <1>6, <2>1, WorkerReturns DEF FallBack
<1>7. CASE FallBackRaises(j)
  BY <1>0, <1>7, WorkerReturns DEF FallBackRaises
<1>8. CASE EndRun(j)
  <2>1. PICK outcome \in Outcomes(copy[j]),
             spent \in Spends \cup {Unmeasured} :
          copy' = [copy EXCEPT ![j] =
                     [copy[j] EXCEPT !.status = outcome,
                                     !.measured = Settled(outcome, spent)]]
    BY <1>8 DEF EndRun
  <2> DEFINE settled == Settled(outcome, spent)
  <2>2. copy'[j] = [copy[j] EXCEPT !.status = outcome, !.measured = settled]
    BY <2>1 DEF TypeOK
  <2> HIDE DEF settled
  <2>3. /\ copy'[j].owner = copy[j].owner /\ copy'[j].parent = copy[j].parent
        /\ copy'[j].link = copy[j].link
        /\ copy'[j].revision = copy[j].revision
        /\ copy'[j].answers = copy[j].answers
        /\ copy'[j].status = outcome
    BY <1>1, <2>2 DEF Row
  <2>4. ~FinalWaits(copy'[j])
    BY <2>3, BoundsAssumption DEF FinalWaits, Final, Outcomes, Pauses
  <2>5. /\ pc[j] = "running" /\ pc'[j] = "ending" /\ row' = row /\ held' = held
        /\ \A i \in Jobs : i # j => pc'[i] = pc[i] /\ copy'[i] = copy[i]
    BY <1>8, <2>1 DEF EndRun, TypeOK
  <2> QED
    BY <1>0, <2>3, <2>4, <2>5 DEF WorkerInv, WorkerOwnsRun, CopyMatches
<1> QED
  BY <1>2, <1>3, <1>4, <1>5, <1>6, <1>7, <1>8 DEF WorkerStep

-----------------------------------------------------------------------------
(***************************************************************************)
(* What a request has seen                                                 *)
(***************************************************************************)

(* A step that starts no read, forgets no job, and moves the revision of   *)
(* each job whose answers it changes, keeps what a read says of the store. *)
LEMMA SeenKept ==
  ASSUME TypeOK, TypeOK', SeenIsPast,
         \A r \in Requests : req'[r] = req[r] \/ req'[r] = Idle,
         held \cup usage \subseteq held' \cup usage',
         \A j \in Jobs : j \in held' /\ j \in held \cup usage =>
           /\ j \in held
           /\ row'[j].link = row[j].link
           /\ \/ row'[j].revision > row[j].revision
              \/ /\ row'[j].revision = row[j].revision
                 /\ row'[j].answers = row[j].answers
  PROVE  SeenIsPast'
<1> SUFFICES ASSUME NEW r \in Requests
             PROVE  /\ req'[r].kind = "submitting" => req'[r].job = NoJob
                    /\ req'[r].kind = "composed" =>
                         LET q == req'[r] IN
                         /\ q.job \in held' \cup usage'
                         /\ q.seen.status \in TerminalStatuses
                         /\ ~FinalWaits(q.seen)
                         /\ q.job \in held' =>
                              /\ q.seen.link = row'[q.job].link
                              /\ q.seen.revision <= row'[q.job].revision
                              /\ q.seen.revision = row'[q.job].revision =>
                                   q.seen.answers = row'[q.job].answers
  BY DEF SeenIsPast
<1>1. CASE req'[r] = Idle
  BY <1>1 DEF Idle
<1>2. CASE req'[r] = req[r] /\ req[r].kind # "composed"
  BY <1>2 DEF SeenIsPast
<1>3. CASE req'[r] = req[r] /\ req[r].kind = "composed"
  <2> DEFINE q == req[r]
  <2>1. /\ q.job \in held \cup usage /\ q.seen.status \in TerminalStatuses
        /\ ~FinalWaits(q.seen)
        /\ q.job \in held =>
             /\ q.seen.link = row[q.job].link
             /\ q.seen.revision <= row[q.job].revision
             /\ q.seen.revision = row[q.job].revision =>
                  q.seen.answers = row[q.job].answers
    BY <1>3 DEF SeenIsPast
  <2>2. q.job \in Jobs
    BY <2>1 DEF TypeOK
  <2>3. /\ q.seen.revision \in Nat /\ row[q.job].revision \in Nat
        /\ row'[q.job].revision \in Nat
    BY <2>2 DEF TypeOK, Request, Row
  <2>4. q.job \in held' =>
          /\ q.seen.link = row'[q.job].link
          /\ q.seen.revision <= row'[q.job].revision
          /\ q.seen.revision = row'[q.job].revision =>
               q.seen.answers = row'[q.job].answers
    BY <2>1, <2>2, <2>3
  <2> QED
    BY <1>3, <2>1, <2>4
<1> QED
  BY <1>1, <1>2, <1>3

(* A quiet step that starts no read keeps what a read says of the store.   *)
LEMMA QuietSeen ==
  ASSUME TypeOK, TypeOK', SeenIsPast, Quiet, held \cap usage = {},
         \A r \in Requests : req'[r] = req[r] \/ req'[r] = Idle
  PROVE  SeenIsPast'
BY SeenKept DEF Quiet, Same

(* What a request holds once it has its owner, and once it has read a job. *)
Submitted(i, o) ==
  [Idle EXCEPT !.kind = "submitting", !.identity = i, !.owner = o,
               !.first = (principal[i] = NoOwner)]

Composed(i, j, given) ==
  [Idle EXCEPT !.kind = "composed", !.identity = i, !.owner = row[j].owner,
               !.job = j, !.seen = row[j], !.given = given]

(* A submission that starts, and a read, say the truth of the store.       *)
LEMMA ReadSeen ==
  ASSUME TypeOK, TypeOK', LineageInv, NEW r \in Requests,
         UNCHANGED <<held, usage, row>>,
         \/ \E i \in Identities : Submit(r, i)
         \/ \E i \in Identities, j \in Jobs, given \in SUBSET Batches :
              Compose(r, i, j, given)
  PROVE  SeenIsPast'
<1>0. SeenIsPast
  BY DEF LineageInv
<1>1. ASSUME NEW i \in Identities, Submit(r, i) PROVE SeenIsPast'
  <2>1. /\ req'[r].kind = "submitting" /\ req'[r].job = NoJob
        /\ \A x \in Requests : x # r => req'[x] = req[x]
    <3>1. PICK o : req' = [req EXCEPT ![r] = Submitted(i, o)]
      BY <1>1 DEF Submit, Submitted
    <3>2. Submitted(i, o).kind = "submitting" /\ Submitted(i, o).job = NoJob
      BY DEF Submitted, Idle
    <3>3. r \in DOMAIN req /\ DOMAIN req = Requests
      BY DEF TypeOK
    <3> QED
      BY <3>1, <3>2, <3>3
  <2> QED
    BY <1>0, <2>1 DEF SeenIsPast
<1>2. ASSUME NEW i \in Identities, NEW j \in Jobs, NEW given \in SUBSET Batches,
             Compose(r, i, j, given)
      PROVE  SeenIsPast'
  <2>1. /\ req'[r].kind = "composed" /\ req'[r].job = j
        /\ req'[r].seen = row[j]
        /\ \A x \in Requests : x # r => req'[x] = req[x]
    <3>1. req' = [req EXCEPT ![r] = Composed(i, j, given)]
      BY <1>2 DEF Compose, Composed
    <3>2. /\ Composed(i, j, given).kind = "composed"
          /\ Composed(i, j, given).job = j
          /\ Composed(i, j, given).seen = row[j]
      BY DEF Composed, Idle
    <3>3. r \in DOMAIN req /\ DOMAIN req = Requests
      BY DEF TypeOK
    <3> QED
      BY <3>1, <3>2, <3>3
  <2>2. /\ j \in held /\ row[j].status \in TerminalStatuses
        /\ ~FinalWaits(row[j]) /\ row[j].revision \in Nat
    BY <1>2 DEF Compose, Answerable, LineageInv, ChainsAreWhole, TypeOK, Row
  <2> QED
    BY <1>0, <2>1, <2>2 DEF SeenIsPast
<1> QED
  BY <1>1, <1>2

(* The creation of its record leaves what a request has seen.              *)
LEMMA CreateSeen ==
  ASSUME TypeOK, SeenIsPast, NEW r \in Requests, Create(r)
  PROVE  SeenIsPast'
<1>1. req[r] \in Request /\ clock \in Nat
  BY DEF TypeOK
<1> DEFINE new == [req[r] EXCEPT !.created = clock]
<1>2. req'[r] = new /\ \A x \in Requests : x # r => req'[x] = req[x]
  BY DEF Create, TypeOK
<1>3. \A x \in Requests : /\ req'[x].kind = req[x].kind /\ req'[x].job = req[x].job
                          /\ req'[x].seen = req[x].seen
  <2>1. new.kind = req[r].kind /\ new.job = req[r].job /\ new.seen = req[r].seen
    BY <1>1, CreatedType
  <2> HIDE DEF new
  <2> QED
    BY <1>2, <2>1
<1>4. held' = held /\ usage' = usage /\ row' = row
  BY DEF Create
<1> QED
  BY <1>3, <1>4 DEF SeenIsPast

-----------------------------------------------------------------------------
(***************************************************************************)
(* The inductive step                                                      *)
(***************************************************************************)

(* The three parts of the inductive invariant.                             *)
LEMMA LineageParts == LineageInv <=> LineageOnly /\ WorkerInv /\ SeenIsPast
BY DEF LineageInv, LineageOnly, WorkerInv, ChainsAreWhole

(* An admission, or its refusal, keeps the inductive invariant.            *)
LEMMA AdmitKeeps ==
  ASSUME TypeOK, TypeOK', LineageInv,
         NEW r \in Requests, NEW c \in Jobs, NEW rec \in Row,
         ContinuesSeen(req[r], rec), Reserve(r, c, rec)
  PROVE  LineageInv'
<1>0. LineageOnly /\ WorkerInv /\ SeenIsPast
  BY LineageParts
<1>1. LineageOnly'
  BY <1>0, AdmitLineage
<1>2. \A x \in Requests : req'[x] = req[x] \/ req'[x] = Idle
  BY DEF Reserve, TypeOK
<1>3. c \notin held /\ c \notin usage
  BY DEF Reserve
<1>4. CASE ~Admits(req[r])
  <2>1. UNCHANGED <<held, usage, row, pc, copy>>
    BY <1>4 DEF Reserve
  <2>2. WorkerInv'
    BY <1>0, <2>1, WorkersStand DEF Same
  <2>3. SeenIsPast'
    BY <1>0, <1>2, <2>1, SeenKept
  <2> QED
    BY <1>1, <2>2, <2>3 DEF LineageInv, LineageOnly, WorkerInv, ChainsAreWhole
<1>5. CASE Admits(req[r])
  <2>1. /\ held' = held \cup {c} /\ usage' = usage /\ row'[c] = rec
        /\ copy' = copy /\ pc'[c] = "queued"
        /\ \A i \in Jobs : i # c => pc'[i] = pc[i]
    BY <1>5 DEF Reserve, TypeOK
  <2>2. ASSUME NEW i \in Jobs, i # c
        PROVE  Same(i) /\ row'[i].status = row[i].status
    <3>1. row[i] \in Row
      BY DEF TypeOK
    <3>2. CASE row'[i] = row[i]
      BY <3>2 DEF Same
    <3>3. CASE row'[i] = [row[i] EXCEPT !.refusal = NoRefusal]
      BY <3>1, <3>3 DEF Row, Same
    <3> QED
      BY <1>5, <2>2, <3>2, <3>3 DEF Reserve
  <2>3. WorkerOwnsRun'
    <3>1. rec.status \in InFlightStatuses
      BY DEF ContinuesSeen
    <3> QED
      BY <1>0, <2>1, <2>2, <3>1 DEF WorkerInv, WorkerOwnsRun
  <2>4. CopyMatches'
    BY <1>0, <2>1, <2>2 DEF WorkerInv, CopyMatches, Same
  <2>5. WorkerInv'
    BY <1>0, <2>1, <2>3, <2>4 DEF WorkerInv
  <2>6. SeenIsPast'
    <3>1. held \cup usage \subseteq held' \cup usage'
      BY <2>1
    <3>2. ASSUME NEW j \in Jobs, j \in held', j \in held \cup usage
          PROVE  /\ j \in held /\ row'[j].link = row[j].link
                 /\ row'[j].revision = row[j].revision
                 /\ row'[j].answers = row[j].answers
      <4>1. j \in held /\ j # c
        BY <1>0, <1>3, <2>1, <3>2 DEF LineageOnly
      <4> QED
        BY <2>2, <4>1 DEF Same
    <3> QED
      BY <1>0, <1>2, <3>1, <3>2, SeenKept
  <2> QED
    BY <1>1, <2>5, <2>6 DEF LineageInv, LineageOnly, WorkerInv, ChainsAreWhole
<1> QED
  BY <1>4, <1>5

(* A save of answers keeps what is known of the workers and the reads.     *)
LEMMA SaveKeeps ==
  ASSUME TypeOK, TypeOK', LineageInv, NEW r \in Requests, SaveAnswers(r)
  PROVE  LineageInv'
<1> DEFINE q == req[r]
           s == q.job
<1>0. LineageOnly /\ WorkerInv /\ SeenIsPast
  BY LineageParts
<1>1. LineageOnly'
  BY <1>0, SaveLineage
<1>2. /\ \A x \in Requests : req'[x] = req[x] \/ req'[x] = Idle
      /\ UNCHANGED <<held, usage, pc, copy>>
  BY DEF SaveAnswers, TypeOK
<1>3. CASE UNCHANGED row
  <2>1. WorkerInv'
    BY <1>0, <1>2, <1>3, WorkersStand DEF Same
  <2>2. SeenIsPast'
    <3>1. Quiet
      BY <1>2, <1>3, OtherQuiet
    <3> QED
      BY <1>0, <1>2, <3>1, QuietSeen DEF LineageOnly
  <2> QED
    BY <1>1, <2>1, <2>2 DEF LineageInv, LineageOnly, WorkerInv, ChainsAreWhole
<1>4. CASE /\ SaveLands(q)
           /\ row' = [row EXCEPT ![s] =
                        [row[s] EXCEPT !.answers  = q.seen.answers \cup q.given,
                                       !.revision = row[s].revision + 1]]
  <2>1. s \in held /\ s \in Jobs /\ row[s].status = q.seen.status
    BY <1>4 DEF SaveLands, TypeOK
  <2>2. row[s].status \notin InFlightStatuses
    BY <1>0, <2>1 DEF SaveAnswers, SeenIsPast
  <2>3. \A i \in Jobs : i # s => row'[i] = row[i]
    BY <1>4 DEF TypeOK
  <2>4. row'[s].link = row[s].link /\ row'[s].revision > row[s].revision
    <3>1. row[s] \in Row
      BY <2>1 DEF TypeOK
    <3>2. row'[s] = [row[s] EXCEPT !.answers  = q.seen.answers \cup q.given,
                                   !.revision = row[s].revision + 1]
      BY <1>4, <2>1 DEF TypeOK
    <3>3. row'[s].link = row[s].link /\ row'[s].revision = row[s].revision + 1
      BY <3>1, <3>2 DEF Row
    <3>4. row[s].revision \in Nat
      BY <3>1 DEF Row
    <3> QED
      BY <3>3, <3>4
  <2>5. WorkerInv'
    <3>1. ASSUME NEW j \in Jobs, j \in held, row[j].status \in InFlightStatuses
          PROVE  j \in held' /\ Same(j) /\ row'[j].status = row[j].status
      BY <1>2, <2>2, <2>3, <3>1 DEF Same
    <3> QED
      BY <1>0, <1>2, <3>1, WorkersStand
  <2>6. SeenIsPast'
    <3>1. ASSUME NEW j \in Jobs, j \in held', j \in held \cup usage
          PROVE  /\ j \in held /\ row'[j].link = row[j].link
                 /\ \/ row'[j].revision > row[j].revision
                    \/ /\ row'[j].revision = row[j].revision
                       /\ row'[j].answers = row[j].answers
      BY <1>2, <2>3, <2>4, <3>1
    <3> QED
      BY <1>0, <1>2, <3>1, SeenKept
  <2> QED
    BY <1>1, <2>5, <2>6 DEF LineageInv, LineageOnly, WorkerInv, ChainsAreWhole
<1> QED
  BY <1>3, <1>4 DEF SaveAnswers

(* A step that leaves the requests to themselves keeps the inductive       *)
(* invariant: an edit of a title or a refusal, a delete, a step of a       *)
(* worker, a restart, and a tick.                                          *)
LEMMA OwnerKeeps ==
  ASSUME TypeOK, TypeOK', LineageInv, NEW j \in Jobs, OwnerStep(j)
  PROVE  LineageInv'
<1>0. LineageOnly /\ WorkerInv /\ SeenIsPast
  BY LineageParts
<1>1. ASSUME Quiet, UNCHANGED <<req, pc, copy>>,
             \A i \in Jobs : row'[i].status = row[i].status
      PROVE  LineageInv'
  <2>1. LineageOnly'
    BY <1>0, <1>1, QuietLineage
  <2>2. WorkerInv'
    BY <1>0, <1>1, WorkersStand DEF Quiet
  <2>3. SeenIsPast'
    BY <1>0, <1>1, QuietSeen DEF LineageOnly
  <2> QED
    BY <2>1, <2>2, <2>3 DEF LineageInv, LineageOnly, WorkerInv, ChainsAreWhole
<1>2. ASSUME NEW t \in Titles, SetTitle(j, t) PROVE LineageInv'
  <2>1. \A i \in Jobs : row'[i].status = row[i].status
    BY <1>2 DEF SetTitle, TypeOK, Row
  <2> QED
    BY <1>1, <1>2, <2>1, OtherQuiet DEF SetTitle
<1>3. ASSUME NEW x \in Refusals, SetContinueRefusal(j, x) PROVE LineageInv'
  <2>1. \A i \in Jobs : row'[i].status = row[i].status
    BY <1>3 DEF SetContinueRefusal, TypeOK, Row
  <2> QED
    BY <1>1, <1>3, <2>1, OtherQuiet DEF SetContinueRefusal
<1>4. CASE Delete(j)
  <2>1. LineageOnly'
    BY <1>0, <1>4, DeleteLineage
  <2>2. /\ held' = held \ {j} /\ usage' = usage \cup {j}
        /\ UNCHANGED <<req, pc, copy>>
        /\ row[j].status \notin InFlightStatuses
        /\ \A i \in Jobs : i # j => row'[i] = row[i]
    BY <1>4 DEF Delete, HoldsASlot, TypeOK
  <2>3. WorkerInv'
    <3>1. ASSUME NEW i \in Jobs, i \in held, row[i].status \in InFlightStatuses
          PROVE  i \in held' /\ Same(i) /\ row'[i].status = row[i].status
      BY <2>2, <3>1 DEF Same
    <3> QED
      BY <1>0, <2>2, <3>1, WorkersStand
  <2>4. SeenIsPast'
    <3>1. held \cup usage \subseteq held' \cup usage'
      BY <2>2
    <3>2. ASSUME NEW i \in Jobs, i \in held', i \in held \cup usage
          PROVE  /\ i \in held /\ row'[i].link = row[i].link
                 /\ row'[i].revision = row[i].revision
                 /\ row'[i].answers = row[i].answers
      BY <2>2, <3>2
    <3> QED
      BY <1>0, <2>2, <3>1, <3>2, SeenKept
  <2> QED
    BY <2>1, <2>3, <2>4 DEF LineageInv, LineageOnly, WorkerInv, ChainsAreWhole
<1> QED
  BY <1>2, <1>3, <1>4 DEF OwnerStep

(* A step of a worker keeps the inductive invariant.                       *)
LEMMA WorkerStepKeeps ==
  ASSUME TypeOK, TypeOK', LineageInv, NEW j \in Jobs, WorkerStep(j)
  PROVE  LineageInv'
<1>0. LineageOnly /\ WorkerInv /\ SeenIsPast
  BY LineageParts
<1>1. Quiet
  BY WorkerQuiet
<1>2. LineageOnly'
  BY <1>0, <1>1, QuietLineage
<1>3. WorkerInv'
  BY WorkerKeeps
<1>4. req' = req
  BY DEF WorkerStep, Fetch, FetchRaises, Save, SaveRaises, FallBack,
         FallBackRaises, EndRun
<1>5. SeenIsPast'
  BY <1>0, <1>1, <1>4, QuietSeen DEF LineageOnly
<1> QED
  BY <1>2, <1>3, <1>5 DEF LineageInv, LineageOnly, WorkerInv, ChainsAreWhole

(* A step of a request keeps the inductive invariant.                      *)
LEMMA RequestKeeps ==
  ASSUME TypeOK, TypeOK', LineageInv, NEW r \in Requests, RequestStep(r)
  PROVE  LineageInv'
<1> DEFINE q == req[r]
<1>0. LineageOnly /\ WorkerInv /\ SeenIsPast /\ q \in Request
  BY LineageParts DEF TypeOK
<1>1. ASSUME UNCHANGED <<held, usage, row, pc, copy>>, SeenIsPast'
      PROVE  LineageInv'
  <2>1. LineageOnly'
    BY <1>0, <1>1, OtherQuiet, QuietLineage
  <2>2. WorkerInv'
    BY <1>0, <1>1, WorkersStand DEF Same
  <2> QED
    BY <1>1, <2>1, <2>2 DEF LineageInv, LineageOnly, WorkerInv, ChainsAreWhole
<1>2. ASSUME NEW i \in Identities, Submit(r, i) PROVE LineageInv'
  BY <1>1, <1>2, ReadSeen DEF Submit
<1>3. ASSUME NEW i \in Identities, NEW j \in Jobs, NEW given \in SUBSET Batches,
             Compose(r, i, j, given)
      PROVE  LineageInv'
  BY <1>1, <1>3, ReadSeen DEF Compose
<1>4. ASSUME NEW c \in Jobs, NEW stops \in Modes, ReserveNew(r, c, stops)
      PROVE  LineageInv'
  <2> DEFINE rec == [Blank EXCEPT !.owner = q.owner, !.stops = stops,
                                  !.created = q.created]
  <2>1. rec \in Row
    BY <1>0, <1>4, BoundsAssumption, NoneAssumption
       DEF Blank, Row, Request, TypeOK, ReserveNew, Reserve
  <2>2. q.job = NoJob
    BY <1>0, <1>4 DEF ReserveNew, SeenIsPast
  <2>3. ContinuesSeen(q, rec)
    BY <2>2 DEF ContinuesSeen, Blank
  <2>4. Reserve(r, c, rec)
    BY <1>4 DEF ReserveNew
  <2> HIDE DEF rec
  <2> QED
    BY <2>1, <2>3, <2>4, AdmitKeeps
<1>5. ASSUME NEW c \in Jobs, NEW link \in Links \ {"fresh"},
             ReserveChild(r, c, link)
      PROVE  LineageInv'
  <2> DEFINE rec == ChildRecord(q, link)
  <2>1. rec \in Row
    BY <1>0, <1>5, ChildType DEF ReserveChild, Reserve
  <2>2. q.kind = "composed" /\ Continues(q, link)
    BY <1>5 DEF ReserveChild
  <2>3. ~FinalWaits(q.seen)
    BY <1>0, <2>2 DEF SeenIsPast
  <2>4. ~Final(q.seen)
    BY <2>2, <2>3 DEF Continues, FinalWaits
  <2>5. rec.status = "queued" /\ rec.parent = q.job
        /\ rec.answers = q.seen.answers \cup q.given
    BY DEF ChildRecord, Blank
  <2>6. ContinuesSeen(q, rec)
    BY <2>2, <2>4, <2>5 DEF ContinuesSeen
  <2>7. Reserve(r, c, rec)
    BY <1>5 DEF ReserveChild
  <2> HIDE DEF rec
  <2> QED
    BY <2>1, <2>6, <2>7, AdmitKeeps
<1>6. CASE SaveAnswers(r)
  BY <1>6, SaveKeeps
<1>7. CASE Create(r)
  BY <1>0, <1>1, <1>7, CreateSeen DEF Create
<1> QED
  BY <1>2, <1>3, <1>4, <1>5, <1>6, <1>7 DEF RequestStep

(* The inductive invariant holds in every behaviour of the store.          *)
THEOREM LineageHolds == Spec => []LineageInv
<1>1. Init => LineageInv
  BY DEF Init, LineageInv, WorkerOwnsRun, CopyMatches, SeenIsPast, Idle,
         ChainsAreWhole, OneLockingChild, Locking, ParentOutlivesRun,
         HoldsASlot, NoMissedBatch
<1>2. TypeOK /\ TypeOK' /\ LineageInv /\ [Next]_vars => LineageInv'
  <2> SUFFICES ASSUME TypeOK, TypeOK', LineageInv, [Next]_vars
               PROVE  LineageInv'
    OBVIOUS
  <2>0. LineageOnly /\ WorkerInv /\ SeenIsPast
    BY LineageParts
  <2>1. CASE Restart
    <3>1. LineageOnly' /\ SeenIsPast'
      BY <2>0, <2>1, OtherQuiet, QuietLineage, QuietSeen DEF Restart, LineageOnly
    <3>2. WorkerInv'
      BY <2>1 DEF Restart, WorkerInv, WorkerOwnsRun, CopyMatches
    <3> QED
      BY <3>1, <3>2 DEF LineageInv, LineageOnly, WorkerInv, ChainsAreWhole
  <2>2. CASE Tick \/ UNCHANGED vars
    <3>1. UNCHANGED <<held, usage, row, req, pc, copy>>
      BY <2>2 DEF Tick, vars
    <3>2. LineageOnly' /\ SeenIsPast'
      BY <2>0, <3>1, OtherQuiet, QuietLineage, QuietSeen DEF LineageOnly
    <3>3. WorkerInv'
      BY <2>0, <3>1, WorkersStand DEF Same
    <3> QED
      BY <3>2, <3>3 DEF LineageInv, LineageOnly, WorkerInv, ChainsAreWhole
  <2> QED
    BY <2>1, <2>2, RequestKeeps, OwnerKeeps, WorkerStepKeeps DEF Next
<1> QED
  BY <1>1, <1>2, TypeCorrect, PTL DEF Spec

(* A job takes one resumed job, whatever requests, workers, deletes and    *)
(* restarts interleave.                                                    *)
THEOREM OneChild == Spec => []OneLockingChild
<1>1. LineageInv => OneLockingChild
  BY DEF LineageInv
<1> QED
  BY <1>1, LineageHolds, PTL

(* A child that locks its parent holds every answer saved on the parent.   *)
THEOREM BatchesRead == Spec => []NoMissedBatch
<1>1. LineageInv => NoMissedBatch
  BY DEF LineageInv
<1> QED
  BY <1>1, LineageHolds, PTL

(* A child in flight keeps its parent stored.                              *)
THEOREM ParentKept == Spec => []ParentOutlivesRun
<1>1. LineageInv => ParentOutlivesRun
  BY DEF LineageInv
<1> QED
  BY <1>1, LineageHolds, PTL

(* While a worker can still save, its job is stored in flight.             *)
THEOREM WorkerOwns == Spec => []WorkerOwnsRun
<1>1. LineageInv => WorkerOwnsRun
  BY DEF LineageInv
<1> QED
  BY <1>1, LineageHolds, PTL
=============================================================================

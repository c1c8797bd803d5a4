------------------------- MODULE ProviderCalls_proofs -------------------------
(***************************************************************************)
(* Proofs about ProviderCalls, for any calls, schemas, attempts, rungs and *)
(* bucket: the bound of the retries, the ladder that never goes back up,   *)
(* and the bound of the requests of one call.                              *)
(***************************************************************************)
EXTENDS ProviderCalls, TLAPS

(* The bucket and the retries it paid are covered by the full bucket and   *)
(* what the successes credited.                                            *)
BudgetInv == Unit * retried + tokens <= Full + Ratio * credited

Open(c) == call[c].at \in {"sent", "waiting"}

(* A call has sent no more than its attempts, and one request for each     *)
(* rung down to its step, which the ladder has not left.                   *)
CallInv ==
  \A c \in Calls :
    /\ Open(c) =>
         /\ call[c].attempt >= 1
         /\ call[c].step <= StepOf(c)
         /\ call[c].requests <= (IF call[c].reasked THEN Attempts ELSE 0)
                                  + call[c].attempt + call[c].step
    /\ call[c].at = "waiting" => call[c].attempt < Attempts
    /\ call[c].at = "idle" => call[c].requests = 0
    /\ ~Open(c) => call[c].requests <= MaxRequests

(* The inductive invariant.                                                *)
Inv == TypeOK /\ BudgetInv /\ StaysBelowRefusals /\ CallInv

-----------------------------------------------------------------------------
(* What one step does to the ladder: it stays, or it goes down.            *)
LEMMA MoveDown ==
  ASSUME CallsAssumption, TypeOK, StaysBelowRefusals,
         NEW step \in Steps, ~Last(step), NEW s \in Schemas, NEW scope \in Scopes,
         Move(step, s, scope)
  PROVE  /\ tierStep' \in Steps /\ schemaStep' \in [Schemas -> Steps]
         /\ floor' \in [Schemas -> Steps]
         /\ StaysBelowRefusals'
         /\ \A t \in Schemas : StepFor(tierStep, schemaStep, t)
                                 <= StepFor(tierStep', schemaStep', t)
         /\ StepFor(tierStep', schemaStep', s) > step
         /\ StepFor(tierStep', schemaStep', s) \in Steps
  <1>1. step + 1 \in Steps
    BY DEF Steps, Last, CallsAssumption
  <1>2. CASE scope = "pair"
    BY <1>1, <1>2 DEF Move, TierBelow, Larger, Covers, TypeOK, Steps, StepFor,
                      StaysBelowRefusals, CallsAssumption
  <1>3. CASE scope # "pair"
    BY <1>1, <1>3 DEF Move, TierBelow, Larger, Covers, TypeOK, Steps, StepFor,
                      StaysBelowRefusals, CallsAssumption
  <1> QED
    BY <1>2, <1>3

(* The step of a call's schema is a step of the ladder.                    *)
LEMMA StepOfType ==
  ASSUME CallsAssumption, TypeOK, NEW c \in Calls
  PROVE  StepOf(c) \in Steps
  BY DEF StepOf, StepFor, Larger, TypeOK, CallsAssumption

(* One call's record changes to one that CallInv accepts, and the ladder   *)
(* stays: the invariant of the calls stays.                                *)
LEMMA OneCall ==
  ASSUME CallsAssumption, TypeOK, CallInv, UNCHANGED ladder,
         NEW c \in Calls,
         NEW r \in [at : {"idle", "sent", "waiting"} \cup Outcomes,
                    attempt : 0..Attempts, step : Steps,
                    reasked : BOOLEAN, requests : Nat],
         call' = [call EXCEPT ![c] = r],
         r.at \in {"sent", "waiting"} =>
           /\ r.attempt >= 1
           /\ r.step <= StepOf(c)
           /\ r.requests <= (IF r.reasked THEN Attempts ELSE 0)
                              + r.attempt + r.step,
         r.at = "waiting" => r.attempt < Attempts,
         r.at \notin {"sent", "waiting"} => r.requests <= MaxRequests,
         r.at # "idle"
  PROVE  /\ CallInv'
         /\ call' \in [Calls -> [at : {"idle", "sent", "waiting"} \cup Outcomes,
                         attempt : 0..Attempts, step : Steps,
                         reasked : BOOLEAN, requests : Nat]]
  BY DEF CallInv, Open, StepOf, StepFor, ladder, TypeOK, MaxRequests

-----------------------------------------------------------------------------
Records == [at : {"idle", "sent", "waiting"} \cup Outcomes,
            attempt : 0..Attempts, step : Steps,
            reasked : BOOLEAN, requests : Nat]

(* What a call that is open can have sent is below the bound.              *)
LEMMA OpenBound ==
  ASSUME CallsAssumption, TypeOK, CallInv, NEW c \in Calls, Open(c)
  PROVE  /\ call[c].requests <= MaxRequests
         /\ Counted(call[c].requests) \in Nat
         /\ Counted(call[c].requests) <= call[c].requests + 1
  <1>1. /\ call[c].attempt \in 0..Attempts /\ call[c].step \in Steps
        /\ call[c].requests \in Nat /\ call[c].reasked \in BOOLEAN
    BY DEF TypeOK
  <1>2. call[c].requests <= (IF call[c].reasked THEN Attempts ELSE 0)
                              + call[c].attempt + call[c].step
    BY DEF CallInv
  <1> QED
    BY <1>1, <1>2 DEF MaxRequests, Counted, Steps, CallsAssumption

(* A call that ends keeps the count of its requests.                       *)
LEMMA Ending ==
  ASSUME CallsAssumption, TypeOK, CallInv, UNCHANGED ladder,
         NEW c \in Calls, Open(c), NEW o \in Outcomes, End(c, o)
  PROVE  CallInv' /\ call' \in [Calls -> Records]
  <1> DEFINE r == [at |-> o, attempt |-> 0, step |-> 0, reasked |-> FALSE,
                   requests |-> call[c].requests]
  <1>1. call[c].requests \in Nat /\ call[c].requests <= MaxRequests
    BY OpenBound DEF TypeOK
  <1>3. r \in Records /\ r.at = o /\ r.requests = call[c].requests
    BY <1>1 DEF Records, Steps, CallsAssumption
  <1>4. call' = [call EXCEPT ![c] = r]
    BY DEF End, TypeOK
  <1>5. o \notin {"sent", "waiting", "idle"}
    BY DEF Outcomes
  <1> HIDE DEF r
  <1> QED
    BY <1>1, <1>3, <1>4, <1>5, OneCall DEF Records

(* A call that sends the first request of an attempt.                      *)
LEMMA Attempting ==
  ASSUME CallsAssumption, TypeOK, CallInv, UNCHANGED ladder,
         NEW c \in Calls, NEW n \in 1..Attempts, NEW b \in BOOLEAN,
         Attempt(c, n, b),
         Counted(call[c].requests) \in Nat,
         Counted(call[c].requests)
           <= (IF b THEN Attempts ELSE 0) + n + StepOf(c)
  PROVE  CallInv' /\ call' \in [Calls -> Records]
  <1> DEFINE r == [at |-> "sent", attempt |-> n, step |-> StepOf(c),
                   reasked |-> b, requests |-> Counted(call[c].requests)]
  <1>1. call' = [call EXCEPT ![c] = r]
    BY DEF Attempt, TypeOK
  <1>2. r \in Records
    BY StepOfType DEF Records, CallsAssumption
  <1>3. /\ r.at = "sent" /\ r.attempt >= 1 /\ r.step <= StepOf(c)
        /\ r.requests <= (IF r.reasked THEN Attempts ELSE 0)
                           + r.attempt + r.step
    BY StepOfType DEF Steps
  <1> HIDE DEF r
  <1> QED
    BY <1>1, <1>2, <1>3, OneCall DEF Records

-----------------------------------------------------------------------------
(* The actions that leave the ladder alone keep the types of the budget    *)
(* and the ladder, and what holds of them.                                 *)
LEMMA LadderStays ==
  ASSUME TypeOK, StaysBelowRefusals, UNCHANGED ladder
  PROVE  /\ StaysBelowRefusals'
         /\ tierStep' \in Steps /\ schemaStep' \in [Schemas -> Steps]
         /\ floor' \in [Schemas -> Steps]
  BY DEF TypeOK, StaysBelowRefusals, ladder, StepFor

(* A step that leaves the bucket keeps its part.                           *)
LEMMA BudgetStays ==
  ASSUME TypeOK, BudgetInv, UNCHANGED budget
  PROVE  /\ BudgetInv'
         /\ tokens' \in 0..Full /\ retried' \in Nat /\ credited' \in Nat
  BY DEF TypeOK, BudgetInv, budget, Full

(* A success credits the bucket with at most the ratio.                    *)
LEMMA CreditBounded ==
  ASSUME CallsAssumption, TypeOK, BudgetInv, Credit
  PROVE  /\ BudgetInv'
         /\ tokens' \in 0..Full /\ retried' \in Nat /\ credited' \in Nat
  <1>1. Unit * retried \in Nat /\ Ratio * credited \in Nat /\ Full \in Nat
    BY DEF TypeOK, CallsAssumption, Full
  <1>2. Ratio * (credited + 1) = Ratio * credited + Ratio
    BY DEF TypeOK, CallsAssumption
  <1>3. tokens' <= tokens + Ratio /\ tokens' \in 0..Full
    BY <1>1 DEF Credit, TypeOK, CallsAssumption
  <1> HIDE DEF Full
  <1> QED
    BY <1>1, <1>2, <1>3 DEF Credit, TypeOK, BudgetInv, CallsAssumption

(* A retry is paid with a whole token.                                     *)
LEMMA WithdrawBounded ==
  ASSUME CallsAssumption, TypeOK, BudgetInv, Pays, Withdraw
  PROVE  /\ BudgetInv'
         /\ tokens' \in 0..Full /\ retried' \in Nat /\ credited' \in Nat
  <1>1. Unit * retried \in Nat /\ Ratio * credited \in Nat /\ Full \in Nat
    BY DEF TypeOK, CallsAssumption, Full
  <1>2. Unit * (retried + 1) = Unit * retried + Unit
    BY DEF TypeOK, CallsAssumption
  <1>3. tokens' = tokens - Unit /\ tokens' \in 0..Full
    BY <1>1 DEF Withdraw, Pays, Larger, TypeOK, CallsAssumption
  <1> HIDE DEF Full
  <1> QED
    BY <1>1, <1>2, <1>3 DEF Withdraw, TypeOK, BudgetInv, CallsAssumption

-----------------------------------------------------------------------------
(* Each action keeps the invariant.                                        *)
LEMMA AskInv ==
  ASSUME CallsAssumption, Inv, NEW c \in Calls, Ask(c)
  PROVE  Inv'
  <1>1. /\ UNCHANGED budget /\ UNCHANGED ladder
        /\ Attempt(c, 1, FALSE) /\ call[c].at = "idle"
    BY DEF Ask
  <1>2. call[c].requests = 0 /\ StepOf(c) \in Nat
    BY <1>1, StepOfType DEF Inv, CallInv, Steps
  <1>3. Counted(call[c].requests) = 1 /\ Counted(call[c].requests) \in Nat
    BY <1>2 DEF Counted, MaxRequests, CallsAssumption
  <1>4. /\ 1 \in 1..Attempts /\ FALSE \in BOOLEAN
        /\ Counted(call[c].requests)
             <= (IF FALSE THEN Attempts ELSE 0) + 1 + StepOf(c)
    BY <1>2, <1>3 DEF CallsAssumption
  <1>5. CallInv' /\ call' \in [Calls -> Records]
    BY <1>1, <1>3, <1>4, Attempting DEF Inv
  <1> QED
    BY <1>1, <1>5, LadderStays, BudgetStays DEF Inv, TypeOK, Records

(* A refusal of the format keeps the invariant.                            *)
LEMMA RefusedInv ==
  ASSUME CallsAssumption, Inv, NEW c \in Calls, NEW scope \in Scopes,
         Refused(c, scope)
  PROVE  Inv'
  <1> DEFINE s == SchemaOf[c]
             next == StepFor(tierStep', schemaStep', s)
             r == [call[c] EXCEPT !.step = next,
                                  !.requests = Counted(call[c].requests)]
  <1>1. /\ call[c].at = "sent" /\ ~Last(call[c].step)
        /\ Move(call[c].step, s, scope) /\ UNCHANGED budget
        /\ call' = [call EXCEPT ![c].step = next,
                                ![c].requests = Counted(@)]
    BY DEF Refused
  <1>2. call[c] \in Records /\ call[c].step \in Steps /\ s \in Schemas
    BY DEF Inv, TypeOK, CallsAssumption, Records
  <1>3. /\ tierStep' \in Steps /\ schemaStep' \in [Schemas -> Steps]
        /\ floor' \in [Schemas -> Steps] /\ StaysBelowRefusals'
        /\ \A t \in Schemas : StepFor(tierStep, schemaStep, t)
                                <= StepFor(tierStep', schemaStep', t)
        /\ next > call[c].step /\ next \in Steps
    BY <1>1, <1>2, MoveDown DEF Inv
  <1>4. Counted(call[c].requests) \in Nat
        /\ Counted(call[c].requests) <= call[c].requests + 1
    BY <1>1, OpenBound DEF Inv, Open
  <1>5. /\ r \in Records /\ r.at = "sent" /\ r.step = next
        /\ r.attempt = call[c].attempt /\ r.reasked = call[c].reasked
        /\ r.requests = Counted(call[c].requests)
    BY <1>1, <1>2, <1>3, <1>4 DEF Records
  <1>6. call' = [call EXCEPT ![c] = r]
    BY <1>1, <1>2 DEF Inv, TypeOK
  <1>7. call' \in [Calls -> Records]
    BY <1>5, <1>6 DEF Inv, TypeOK, Records
  <1>8. r.attempt >= 1 /\ r.step <= StepOf(c)'
        /\ r.requests <= (IF r.reasked THEN Attempts ELSE 0) + r.attempt + r.step
    <2>1. /\ call[c].attempt \in 1..Attempts /\ call[c].requests \in Nat
          /\ call[c].requests <= (IF call[c].reasked THEN Attempts ELSE 0)
                                   + call[c].attempt + call[c].step
      BY <1>1 DEF Inv, TypeOK, CallInv, Open
    <2>2. StepOf(c)' = next
      BY DEF StepOf
    <2> QED
      BY <1>2, <1>3, <1>4, <1>5, <2>1, <2>2 DEF Steps, Records, CallsAssumption
  <1>9. CallInv'
    <2> SUFFICES ASSUME NEW d \in Calls
                 PROVE  /\ Open(d)' =>
                             /\ call'[d].attempt >= 1
                             /\ call'[d].step <= StepOf(d)'
                             /\ call'[d].requests <=
                                  (IF call'[d].reasked THEN Attempts ELSE 0)
                                    + call'[d].attempt + call'[d].step
                        /\ call'[d].at = "waiting" => call'[d].attempt < Attempts
                        /\ call'[d].at = "idle" => call'[d].requests = 0
                        /\ ~Open(d)' => call'[d].requests <= MaxRequests
      BY DEF CallInv
    <2>1. CASE d = c
      BY <1>5, <1>6, <1>8, <2>1 DEF Inv, TypeOK, Open
    <2>2. CASE d # c
      <3>1. call'[d] = call[d]
        BY <1>6, <2>2 DEF Inv, TypeOK
      <3>2. StepOf(d) <= StepOf(d)' /\ StepOf(d) \in Steps /\ StepOf(d)' \in Steps
        BY <1>3 DEF StepOf, StepFor, Larger, Inv, TypeOK, CallsAssumption
      <3>3. call[d].step \in Steps
        BY DEF Inv, TypeOK
      <3> QED
        BY <3>1, <3>2, <3>3 DEF Inv, CallInv, Open, Steps
    <2> QED
      BY <2>1, <2>2
  <1>10. BudgetInv' /\ tokens' \in 0..Full /\ retried' \in Nat /\ credited' \in Nat
    BY <1>1, BudgetStays DEF Inv
  <1> QED
    BY <1>3, <1>7, <1>9, <1>10 DEF Inv, TypeOK, Records

(* The three ways a call ends without a change of the budget.              *)
LEMMA EndInv ==
  ASSUME CallsAssumption, Inv, NEW c \in Calls, NEW o \in Outcomes,
         Open(c), End(c, o), UNCHANGED budget, UNCHANGED ladder
  PROVE  Inv'
  <1>1. CallInv' /\ call' \in [Calls -> Records]
    BY Ending DEF Inv
  <1> QED
    BY <1>1, LadderStays, BudgetStays DEF Inv, TypeOK, Records

(* A transient failure keeps the invariant.                                *)
LEMMA FailTransientlyInv ==
  ASSUME CallsAssumption, Inv, NEW c \in Calls, FailTransiently(c)
  PROVE  Inv'
  <1>1. call[c].at = "sent" /\ Open(c) /\ UNCHANGED ladder
    BY DEF FailTransiently, Open
  <1>2. CASE End(c, "failed") /\ UNCHANGED budget
    BY <1>1, <1>2, EndInv DEF Outcomes
  <1>3. CASE End(c, "budget spent") /\ UNCHANGED budget
    BY <1>1, <1>3, EndInv DEF Outcomes
  <1>4. CASE /\ call[c].attempt < Attempts /\ Pays /\ Withdraw
             /\ call' = [call EXCEPT ![c].at = "waiting"]
    <2> DEFINE r == [call[c] EXCEPT !.at = "waiting"]
    <2>1. call[c] \in Records
      BY DEF Inv, TypeOK, Records
    <2>2. /\ r \in Records /\ r.at = "waiting" /\ r.attempt = call[c].attempt
          /\ r.step = call[c].step /\ r.requests = call[c].requests
          /\ r.reasked = call[c].reasked
      BY <2>1 DEF Records
    <2>3. call' = [call EXCEPT ![c] = r]
      BY <1>4, <2>1 DEF Inv, TypeOK
    <2>4. /\ r.attempt >= 1 /\ r.step <= StepOf(c)
          /\ r.requests <= (IF r.reasked THEN Attempts ELSE 0) + r.attempt + r.step
      BY <1>1, <2>2 DEF Inv, CallInv
    <2> HIDE DEF r
    <2>5. CallInv' /\ call' \in [Calls -> Records]
      BY <1>1, <1>4, <2>2, <2>3, <2>4, OneCall DEF Inv, Records
    <2> QED
      BY <1>1, <1>4, <2>5, LadderStays, WithdrawBounded DEF Inv, TypeOK, Records
  <1> QED
    BY <1>2, <1>3, <1>4 DEF FailTransiently

(* The end of a back-off keeps the invariant.                              *)
LEMMA WakeInv ==
  ASSUME CallsAssumption, Inv, NEW c \in Calls, Wake(c)
  PROVE  Inv'
  <1>1. /\ call[c].at = "waiting" /\ Open(c)
        /\ UNCHANGED budget /\ UNCHANGED ladder
        /\ Attempt(c, call[c].attempt + 1, call[c].reasked)
    BY DEF Wake, Open
  <1>2. /\ call[c].attempt \in Nat
        /\ call[c].attempt + 1 \in 1..Attempts /\ call[c].reasked \in BOOLEAN
        /\ call[c].requests \in Nat
        /\ call[c].step \in Nat /\ StepOf(c) \in Nat /\ call[c].step <= StepOf(c)
        /\ call[c].requests <= (IF call[c].reasked THEN Attempts ELSE 0)
                                 + call[c].attempt + call[c].step
    BY <1>1, StepOfType DEF Inv, TypeOK, CallInv, Steps, CallsAssumption
  <1>3. Counted(call[c].requests) \in Nat
        /\ Counted(call[c].requests) <= call[c].requests + 1
    BY <1>1, OpenBound DEF Inv
  <1>4. Counted(call[c].requests)
          <= (IF call[c].reasked THEN Attempts ELSE 0)
               + (call[c].attempt + 1) + StepOf(c)
    BY <1>2, <1>3 DEF CallsAssumption
  <1>5. CallInv' /\ call' \in [Calls -> Records]
    BY <1>1, <1>2, <1>3, <1>4, Attempting DEF Inv
  <1> QED
    BY <1>1, <1>5, LadderStays, BudgetStays DEF Inv, TypeOK, Records

(* An answer, or the re-ask that it leads to, keeps the invariant.         *)
LEMMA AnswerInv ==
  ASSUME CallsAssumption, Inv, NEW c \in Calls, Answer(c)
  PROVE  Inv'
  <1>1. call[c].at = "sent" /\ Open(c) /\ Credit /\ UNCHANGED ladder
    BY DEF Answer, Open
  <1>2. CallInv' /\ call' \in [Calls -> Records]
    <2>1. CASE End(c, "answered")
      BY <1>1, <2>1, Ending DEF Outcomes, Inv
    <2>2. CASE End(c, "failed")
      BY <1>1, <2>2, Ending DEF Outcomes, Inv
    <2>3. CASE Reasks(c) /\ Attempt(c, 1, TRUE)
      <3>1. /\ call[c].attempt \in 0..Attempts /\ call[c].requests \in Nat
            /\ call[c].step \in Nat /\ StepOf(c) \in Nat
            /\ call[c].step <= StepOf(c)
            /\ call[c].requests <= call[c].attempt + call[c].step
        BY <1>1, <2>3, StepOfType
           DEF Reasks, Inv, TypeOK, CallInv, Steps, CallsAssumption
      <3>2. Counted(call[c].requests) \in Nat
            /\ Counted(call[c].requests) <= call[c].requests + 1
        BY <1>1, OpenBound DEF Inv
      <3>3. /\ 1 \in 1..Attempts /\ TRUE \in BOOLEAN
            /\ Counted(call[c].requests)
                 <= (IF TRUE THEN Attempts ELSE 0) + 1 + StepOf(c)
        BY <3>1, <3>2 DEF CallsAssumption
      <3> QED
        BY <1>1, <2>3, <3>2, <3>3, Attempting DEF Inv
    <2> QED
      BY <2>1, <2>2, <2>3 DEF Answer
  <1> QED
    BY <1>1, <1>2, LadderStays, CreditBounded DEF Inv, TypeOK, Records

-----------------------------------------------------------------------------
(* The invariant holds before any call.                                    *)
LEMMA InitInv == CallsAssumption /\ Init => Inv
  <1> SUFFICES ASSUME CallsAssumption, Init PROVE Inv
    OBVIOUS
  <1>1. Full \in Nat /\ Unit * 0 = 0 /\ Ratio * 0 = 0 /\ 0 \in Steps
    BY DEF Full, CallsAssumption, Steps
  <1>2. TypeOK
    BY <1>1 DEF Init, TypeOK, Idle, CallsAssumption
  <1>3. BudgetInv
    BY <1>1 DEF Init, BudgetInv
  <1>4. StaysBelowRefusals
    BY DEF Init, StaysBelowRefusals, StepFor, Larger
  <1>5. CallInv
    <2>1. MaxRequests >= 0
      BY DEF MaxRequests, CallsAssumption
    <2>2. \A c \in Calls : call[c].at = "idle" /\ call[c].requests = 0
      BY DEF Init, Idle
    <2> QED
      BY <2>1, <2>2 DEF CallInv, Open
  <1> QED
    BY <1>2, <1>3, <1>4, <1>5 DEF Inv

(* Every step keeps the invariant.                                         *)
LEMMA NextInv == CallsAssumption /\ Inv /\ [Next]_vars => Inv'
  <1> SUFFICES ASSUME CallsAssumption, Inv, [Next]_vars PROVE Inv'
    OBVIOUS
  <1>1. ASSUME NEW c \in Calls, Ask(c) PROVE Inv'
    BY <1>1, AskInv
  <1>2. ASSUME NEW c \in Calls, Returns(c) PROVE Inv'
    <2>1. ASSUME NEW scope \in Scopes, Refused(c, scope) PROVE Inv'
      BY <2>1, RefusedInv
    <2>2. CASE Fail(c)
      BY <2>2, EndInv DEF Fail, Open, Outcomes
    <2> QED
      BY <1>2, <2>1, <2>2, FailTransientlyInv, AnswerInv DEF Returns
  <1>3. ASSUME NEW c \in Calls, Wake(c) PROVE Inv'
    BY <1>3, WakeInv
  <1>4. ASSUME NEW c \in Calls, Cancel(c) PROVE Inv'
    BY <1>4, EndInv DEF Cancel, Open, Outcomes
  <1>5. CASE UNCHANGED vars
    <2>1. UNCHANGED ladder /\ UNCHANGED budget /\ UNCHANGED call
      BY <1>5 DEF vars, ladder, budget
    <2>2. CallInv'
      BY <2>1 DEF Inv, CallInv, Open, StepOf, StepFor, ladder
    <2> QED
      BY <2>1, <2>2, LadderStays, BudgetStays DEF Inv, TypeOK
  <1> QED
    BY <1>1, <1>2, <1>3, <1>4, <1>5 DEF Next

(* The invariant holds in every reachable state.                           *)
THEOREM InvHolds == Spec => []Inv
  <1>1. CallsAssumption
    BY CallsAssumption
  <1> QED
    BY <1>1, InitInv, NextInv, PTL DEF Spec

(* Every variable keeps its type, and no request leaves the ladder.        *)
THEOREM CallsTyped == Spec => []TypeOK
  <1>1. Inv => TypeOK
    BY DEF Inv
  <1> QED
    BY <1>1, InvHolds, PTL

(* Retries are a share of the successes and what the full bucket pays,     *)
(* for any number of calls that fail together.                             *)
THEOREM BudgetBounds == Spec => []RetriesBounded
  <1>1. CallsAssumption
    BY CallsAssumption
  <1>2. Inv => RetriesBounded
    <2> SUFFICES ASSUME Inv PROVE RetriesBounded
      OBVIOUS
    <2>1. /\ Unit * retried \in Nat /\ Ratio * credited \in Nat
          /\ Full \in Nat /\ tokens \in Nat
      BY <1>1 DEF Inv, TypeOK, CallsAssumption, Full
    <2>2. Unit * retried + tokens <= Full + Ratio * credited
      BY DEF Inv, BudgetInv
    <2>3. Unit * retried <= Full + Ratio * credited
      BY <2>1, <2>2
    <2> QED
      BY <2>3 DEF RetriesBounded, Full
  <1> QED
    BY <1>2, InvHolds, PTL

(* The ladder stays below everything that was refused.                     *)
THEOREM LadderHolds == Spec => []StaysBelowRefusals
  <1>1. Inv => StaysBelowRefusals
    BY DEF Inv
  <1> QED
    BY <1>1, InvHolds, PTL

(* No call sends more than its two loops and one descent of the ladder.    *)
THEOREM CallsBounded == Spec => []RequestsBounded
  <1>1. CallsAssumption
    BY CallsAssumption
  <1>2. Inv => RequestsBounded
    BY <1>1, OpenBound DEF Inv, CallInv, RequestsBounded
  <1> QED
    BY <1>2, InvHolds, PTL
=============================================================================

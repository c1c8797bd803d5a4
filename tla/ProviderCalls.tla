---------------------------- MODULE ProviderCalls ----------------------------
(***************************************************************************)
(* The calls of a graph's nodes to one model.  Each call asks under a      *)
(* retry loop (ExecutedLlm), and the calls that run together share one     *)
(* retry budget and one ladder of formats for their schemas (Ladder).      *)
(* Between sending a request and its return, and during a back-off, every  *)
(* other call can spend the budget and move the ladder.                    *)
(***************************************************************************)
EXTENDS Integers

CONSTANTS
  Calls,     \* the node calls of the process's life
  Schemas,   \* the output schemas that nodes bind
  SchemaOf,  \* the schema that each call's node binds
  Attempts,  \* attempts of one retry loop
  Rungs,     \* the number of rungs of the tier's ladder
  Unit,      \* the parts of one token of the budget
  Capacity,  \* tokens of the full bucket
  Ratio      \* the parts of a token that one success credits

ASSUME CallsAssumption ==
  /\ SchemaOf \in [Calls -> Schemas]
  /\ Attempts \in Nat \ {0} /\ Rungs \in Nat \ {0}
  /\ Unit \in Nat \ {0} /\ Capacity \in Nat /\ Ratio \in 1..Unit

VARIABLES
  tokens,      \* RetryBudget.tokens, in parts
  tierStep,    \* Ladder._step
  schemaStep,  \* Ladder._schema_steps
  call,        \* where each node call stands
  retried,     \* the retries granted (history)
  credited,    \* the requests that succeeded (history)
  floor        \* the rung below what was refused for each schema (history)

ladder == <<tierStep, schemaStep, floor>>
budget == <<tokens, retried, credited>>
vars == <<tokens, tierStep, schemaStep, call, retried, credited, floor>>

Larger(a, b) == IF a < b THEN b ELSE a

-----------------------------------------------------------------------------
(***************************************************************************)
(* The retry budget                                                        *)
(***************************************************************************)
Full == Unit * Capacity

(* Mutant: a success adds to a full bucket.                                *)
CreditUncapped ==
  /\ tokens' = tokens + Ratio
  /\ credited' = credited + 1
  /\ UNCHANGED retried

Credit ==
  /\ tokens' = IF tokens + Ratio < Full THEN tokens + Ratio ELSE Full
  /\ credited' = credited + 1
  /\ UNCHANGED retried

(* Mutant: a bucket that is not empty pays for a retry.                    *)
PaysSome == tokens > 0

Pays == tokens >= Unit

Withdraw ==
  /\ tokens' = Larger(0, tokens - Unit)
  /\ retried' = retried + 1
  /\ UNCHANGED credited

-----------------------------------------------------------------------------
(***************************************************************************)
(* The ladder                                                              *)
(***************************************************************************)
Steps == 0..(Rungs - 1)

Scopes == {"pair", "schema"}

(* step_for.                                                               *)
StepFor(tier, steps, s) == Larger(tier, steps[s])

Last(step) == step + 1 = Rungs

(* Mutant: a refusal puts the tier below it, wherever the tier was.        *)
TierTo(step) == step + 1

TierBelow(step) == Larger(tierStep, step + 1)

(* What a refusal of schema s is a refusal of (REFUSAL_SCOPE).             *)
Covers(scope, s, t) == scope = "pair" \/ s = t

(* moved_below.                                                            *)
Move(step, s, scope) ==
  /\ floor' = [t \in Schemas |-> IF Covers(scope, s, t)
                                THEN Larger(floor[t], step + 1) ELSE floor[t]]
  /\ IF scope = "pair"
     THEN tierStep' = TierBelow(step) /\ UNCHANGED schemaStep
     ELSE /\ schemaStep' = [schemaStep EXCEPT ![s] = Larger(@, step + 1)]
          /\ UNCHANGED tierStep

-----------------------------------------------------------------------------
(***************************************************************************)
(* The calls                                                               *)
(***************************************************************************)
Idle == [at |-> "idle", attempt |-> 0, step |-> 0, reasked |-> FALSE,
         requests |-> 0]

(* The requests a call may send, and the count of them, which stops there. *)
MaxRequests == 2 * Attempts + Rungs - 1

Counted(n) == IF n > MaxRequests THEN n ELSE n + 1

StepOf(c) == StepFor(tierStep, schemaStep, SchemaOf[c])

(* An attempt sends its first request on the step of its schema.           *)
Attempt(c, attempt, reasked) ==
  call' = [call EXCEPT ![c] =
    [at |-> "sent", attempt |-> attempt, step |-> StepOf(c),
     reasked |-> reasked, requests |-> Counted(@.requests)]]

End(c, outcome) ==
  call' = [call EXCEPT ![c] =
    [at |-> outcome, attempt |-> 0, step |-> 0, reasked |-> FALSE,
     requests |-> @.requests]]

Ask(c) ==
  /\ call[c].at = "idle"
  /\ Attempt(c, 1, FALSE)
  /\ UNCHANGED <<budget, ladder>>

(* The provider refuses how the schema was sent.  The same attempt sends   *)
(* the request again, one rung down or wherever the ladder is by now.      *)
Refused(c, scope) ==
  /\ call[c].at = "sent" /\ ~Last(call[c].step)
  /\ Move(call[c].step, SchemaOf[c], scope)
  /\ call' = [call EXCEPT ![c].step = StepFor(tierStep', schemaStep', SchemaOf[c]),
                          ![c].requests = Counted(@)]
  /\ UNCHANGED budget

(* A failure that no retry helps: a bad request, a spent quota, a wait     *)
(* that is too long, a refusal on the last rung.                           *)
Fail(c) ==
  /\ call[c].at = "sent"
  /\ End(c, "failed")
  /\ UNCHANGED <<budget, ladder>>

(* A transient failure: refuse_retry.                                      *)
FailTransiently(c) ==
  /\ call[c].at = "sent"
  /\ \/ /\ call[c].attempt >= Attempts
        /\ End(c, "failed")
        /\ UNCHANGED budget
     \/ /\ call[c].attempt < Attempts /\ Pays
        /\ Withdraw
        /\ call' = [call EXCEPT ![c].at = "waiting"]
     \/ /\ call[c].attempt < Attempts /\ ~Pays
        /\ End(c, "budget spent")
        /\ UNCHANGED budget
  /\ UNCHANGED ladder

(* Mutant: a call in back-off waits for the budget to hold a token.        *)
WakeOnToken(c) ==
  /\ call[c].at = "waiting" /\ Pays
  /\ Attempt(c, call[c].attempt + 1, call[c].reasked)
  /\ UNCHANGED <<budget, ladder>>

(* The back-off is over.                                                   *)
Wake(c) ==
  /\ call[c].at = "waiting"
  /\ Attempt(c, call[c].attempt + 1, call[c].reasked)
  /\ UNCHANGED <<budget, ladder>>

(* Mutant: every answer that breaks its schema is asked again.             *)
AlwaysReasks(c) == TRUE

Reasks(c) == ~call[c].reasked

(* A request returned an answer.  It may be unfinished, which fails the    *)
(* call, or break its schema, which asks once more in a loop of its own.   *)
Answer(c) ==
  /\ call[c].at = "sent"
  /\ Credit
  /\ \/ End(c, "answered")
     \/ End(c, "failed")
     \/ Reasks(c) /\ Attempt(c, 1, TRUE)
  /\ UNCHANGED ladder

(* The run was stopped, or ran out of time.                                *)
Cancel(c) ==
  /\ call[c].at \in {"sent", "waiting"}
  /\ End(c, "failed")
  /\ UNCHANGED <<budget, ladder>>

-----------------------------------------------------------------------------
Init ==
  /\ tokens = Full /\ retried = 0 /\ credited = 0
  /\ tierStep = 0 /\ schemaStep = [s \in Schemas |-> 0] /\ floor = [s \in Schemas |-> 0]
  /\ call = [c \in Calls |-> Idle]

Returns(c) ==
  \/ \E scope \in Scopes : Refused(c, scope)
  \/ Fail(c) \/ FailTransiently(c) \/ Answer(c)

Next == \E c \in Calls : Ask(c) \/ Returns(c) \/ Wake(c) \/ Cancel(c)

Spec == Init /\ [][Next]_vars

(* A request returns within its own timeout, and a back-off is bounded.    *)
Fairness == \A c \in Calls : WF_vars(Returns(c)) /\ WF_vars(Wake(c))

FairSpec == Spec /\ Fairness
-----------------------------------------------------------------------------
(***************************************************************************)
(* Properties                                                              *)
(***************************************************************************)
Outcomes == {"answered", "failed", "budget spent"}

(* Every variable keeps its type, and no step leaves the ladder.           *)
TypeOK ==
  /\ tokens \in 0..Full /\ retried \in Nat /\ credited \in Nat
  /\ tierStep \in Steps /\ schemaStep \in [Schemas -> Steps]
  /\ floor \in [Schemas -> Steps]
  /\ call \in [Calls -> [at : {"idle", "sent", "waiting"} \cup Outcomes,
                         attempt : 0..Attempts, step : Steps,
                         reasked : BOOLEAN, requests : Nat]]

(* Retries never exceed the full bucket and a share of the requests that   *)
(* succeeded, whatever fails at once and whichever calls race for a token. *)
RetriesBounded == Unit * retried <= Unit * Capacity + Ratio * credited

(* Nothing is sent again on a rung that the provider refused for it: a     *)
(* refusal that comes late never moves the tier or a schema back up.       *)
StaysBelowRefusals ==
  \A s \in Schemas : StepFor(tierStep, schemaStep, s) >= floor[s]

(* A call sends at most the attempts of its two loops, and one request     *)
(* more for each rung below the first: however often other calls move the  *)
(* ladder under it, it comes down it once.  (That is more than Attempts,   *)
(* which resilience.py and retry.py call the request count per node.)      *)
RequestsBounded ==
  \A c \in Calls : call[c].requests <= MaxRequests

(* Every call ends, with an answer or a failure: the retries, the rungs    *)
(* and the re-ask run out.                                                 *)
CallsEnd == \A c \in Calls : call[c].at = "sent" ~> call[c].at \in Outcomes
=============================================================================

------------------------------ MODULE Pipeline ------------------------------
(***************************************************************************)
(* One drive of the analysis graph (graph.py, critic_round.py), from the   *)
(* sources of a job to what its runner returns.  The head extracts and     *)
(* gates one model; prepare sends each selected framework to its lanes, or *)
(* refuses it; each framework's critic rules on its drafts, with one       *)
(* re-ask; and assemble, which every framework triggers, builds the one    *)
(* report.  Nodes of different frameworks run at once and share one        *)
(* session state, and the bodies of the function nodes run in threads.     *)
(***************************************************************************)
EXTENDS FiniteSets

CONSTANTS
  Frameworks,  \* the selection the graph was built for
  Lanes,       \* the lanes of a framework
  Claims,      \* claim IDs
  ClaimsOf,    \* those each framework's lanes can draft and its critic name
  Builds,      \* the graphs: entry, the passes they carry, the transport
  Skip,        \* the route of the refused frameworks to assemble
  None         \* no report

Build == [entry : {"extract", "head-only", "resume"}, asserts : BOOLEAN,
          reads : BOOLEAN, compact : BOOLEAN]

(* A claim is unsettled where no ruling on it stands: it was dropped, is   *)
(* malformed, or came twice.                                               *)
Rulings == [Claims -> {"confirmed", "rejected", "unsettled"}]

(* What one framework's block of the report is built from.                 *)
Blocks == [refused : BOOLEAN, drafts : SUBSET Claims, rulings : Rulings,
           marks : SUBSET {"problems", "drift"}]

(* build_pipeline refuses an empty selection, and a pass that the entry    *)
(* cannot feed.                                                            *)
ASSUME PipelineAssumption ==
  /\ Builds \subseteq Build /\ Skip \notin Frameworks
  /\ Frameworks # {} /\ None \notin [Frameworks -> Blocks]
  /\ ClaimsOf \in [Frameworks -> SUBSET Claims]
  /\ \A b \in Builds : b.entry = "resume" => ~b.asserts /\ ~b.reads /\ ~b.compact

VARIABLES
  build,      \* the graph that is driven
  at,         \* the head's node that runs
  extracted,  \* what stands under extracted_model
  held,       \* the other keys of the head that are written
  outcome,    \* what the runner returned
  stage,      \* where each framework stands
  lane,       \* each lane of each framework
  drafts,     \* the claims of each framework that its fan-in parked
  reviewed,   \* the rulings under reviewed_<F>
  first,      \* the rulings under first_review_<F>
  accepted,   \* the frameworks whose router accepted
  marks,      \* the marks that the two looks at the rulings parked
  trigger,    \* each trigger of assemble
  built,      \* the blocks that a trigger built and did not write yet
  analysis    \* the report

head == <<build, at, extracted, held>>
round == <<drafts, reviewed, first, accepted, marks>>
assembly == <<trigger, built, analysis>>
vars == <<head, outcome, stage, lane, round, assembly>>

Running == outcome = "running"

Fail ==
  /\ outcome' = "failed"
  /\ UNCHANGED <<head, stage, lane, round, assembly>>

-----------------------------------------------------------------------------
(***************************************************************************)
(* The head                                                                *)
(***************************************************************************)
HeadMoves == Running /\ UNCHANGED <<build, outcome, stage, lane, round, assembly>>

Tail == IF build.entry # "head-only" THEN "prepare"
        ELSE IF build.asserts THEN "catalog" ELSE "pause"

AfterReading == IF build.asserts THEN "assert" ELSE Tail

AfterGate == IF build.reads THEN "capabilities" ELSE AfterReading

(* An emission without text leaves the key as it was.  Only the compact    *)
(* transport can write what is no model at all.                            *)
Extract ==
  /\ at = "extract" /\ HeadMoves
  /\ \E e \in {"valid", "invalid", "absent"} \cup
              (IF build.compact THEN {"unconvertible"} ELSE {}) : extracted' = e
  /\ at' = "validate"
  /\ UNCHANGED held

Repair ==
  /\ at = "repair" /\ HeadMoves
  /\ \E e \in {"valid", "invalid", extracted} : extracted' = e
  /\ at' = "revalidate"
  /\ UNCHANGED held

(* The gate, before and after the one repair.                              *)
Gate ==
  /\ at \in {"validate", "revalidate"} /\ extracted # "absent" /\ HeadMoves
  /\ \/ extracted = "valid" /\ held' = held \cup {"model"} /\ at' = AfterGate
     \/ extracted = "invalid" /\ at = "validate" /\ at' = "repair" /\ UNCHANGED held
     \/ extracted = "invalid" /\ at = "revalidate" /\ at' = "reject" /\ UNCHANGED held
     \/ extracted = "unconvertible" /\ at' = "reject" /\ UNCHANGED held
  /\ UNCHANGED extracted

Reject ==
  /\ at = "reject" /\ HeadMoves
  /\ held' = held \cup {"rejection"} /\ at' = "done"
  /\ UNCHANGED extracted

ReadCapabilities ==
  /\ at = "capabilities" /\ HeadMoves
  /\ held' \in {held, held \cup {"reading"}} /\ at' = "stated"
  /\ UNCHANGED extracted

Stated ==
  /\ at = "stated" /\ "reading" \in held /\ HeadMoves
  /\ at' = AfterReading
  /\ UNCHANGED <<extracted, held>>

Assert ==
  /\ at = "assert" /\ HeadMoves
  /\ held' \in {held, held \cup {"proposal"}} /\ at' = Tail
  /\ UNCHANGED extracted

(* _resolve_assertions: a catalog that the parent built, or a proposal.    *)
Resolvable == held \cap {"catalog", "proposal"} # {}

ParkCatalog ==
  /\ at = "catalog" /\ Resolvable /\ HeadMoves
  /\ held' = held \cup {"catalog"} /\ at' = "done"
  /\ UNCHANGED extracted

Pause ==
  /\ at = "pause" /\ HeadMoves
  /\ at' = "done"
  /\ UNCHANGED <<extracted, held>>

(* Each reader of a key that an LLM node did not write fails the job.      *)
Silent ==
  \/ at \in {"validate", "revalidate"} /\ extracted = "absent"
  \/ at = "stated" /\ "reading" \notin held
  \/ at \in {"catalog", "prepare"} /\ build.asserts /\ ~Resolvable

(* prepare: one route for each framework that runs, and one skip for all   *)
(* that are refused.                                                       *)
Prepare ==
  /\ at = "prepare" /\ Running /\ ~Silent
  /\ at' = "done"
  /\ held' = IF Resolvable THEN held \cup {"catalog"} ELSE held
  /\ \E refused \in SUBSET Frameworks :
       /\ stage' = [f \in Frameworks |-> IF f \in refused THEN "refused" ELSE "lanes"]
       /\ lane' = [f \in Frameworks |->
                     [l \in Lanes |-> IF f \in refused THEN "none" ELSE "called"]]
       /\ trigger' = [trigger EXCEPT ![Skip] = IF refused = {} THEN "none" ELSE "due"]
  /\ UNCHANGED <<build, extracted, outcome, round, built, analysis>>

-----------------------------------------------------------------------------
(***************************************************************************)
(* One framework: lanes, fan-in, critic, one re-ask                        *)
(***************************************************************************)
FrameworkMoves == Running /\ UNCHANGED <<head, outcome>>

LaneEnds(f, l) ==
  /\ stage[f] = "lanes" /\ lane[f][l] = "called" /\ FrameworkMoves
  /\ \E end \in {"wrote", "silent"} : lane' = [lane EXCEPT ![f][l] = end]
  /\ UNCHANGED <<stage, round, assembly>>

(* Mutant: the join waits for what every lane wrote.                       *)
LanesWrote(f) == stage[f] = "lanes" /\ \A l \in Lanes : lane[f][l] = "wrote"

LanesEnded(f) == stage[f] = "lanes" /\ \A l \in Lanes : lane[f][l] # "called"

(* Mutant: a lane that wrote nothing is read as a lane that drafted none.  *)
NoLaneChecked(f) == FALSE

SilentLane(f) == \E l \in Lanes : lane[f][l] = "silent"

(* merge: what the lanes drafted is parked, and a critic is called where   *)
(* there is a draft to rule on.                                            *)
MergeDrafts(f) ==
  /\ LanesEnded(f) /\ ~SilentLane(f) /\ FrameworkMoves
  /\ \E ds \in SUBSET ClaimsOf[f] :
       /\ drafts' = [drafts EXCEPT ![f] = ds]
       /\ stage' = [stage EXCEPT ![f] = IF ds = {} THEN "router" ELSE "critic"]
  /\ UNCHANGED <<lane, reviewed, first, accepted, marks, assembly>>

(* What the critic of a framework can emit.                                *)
Emitted(f) == {r \in Rulings : \A c \in Claims \ ClaimsOf[f] : r[c] = "unsettled"}

NoRuling == [c \in Claims |-> "unsettled"]

(* A critic that emits no text leaves the key as it was.                   *)
Critic(f) ==
  /\ stage[f] \in {"critic", "recritic"} /\ FrameworkMoves
  /\ \E r \in Emitted(f) \cup {reviewed[f]} : reviewed' = [reviewed EXCEPT ![f] = r]
  /\ stage' = [stage EXCEPT ![f] = IF @ = "critic" THEN "router" ELSE "rereview"]
  /\ UNCHANGED <<lane, drafts, first, accepted, marks, assembly>>

(* review_issues: a draft with no ruling that stands, or a ruling on what  *)
(* nobody drafted.                                                         *)
Problems(f, r) == {c \in Claims : (c \in drafts[f]) = (r[c] = "unsettled")}

(* What a problem of the first pass named and the re-ask can repair.       *)
Repairable(f) == Problems(f, first[f]) \cap drafts[f]

(* Mutant: the re-ask is accepted whole.                                   *)
MergedWhole(f) == reviewed[f]

(* merge_retry: the re-ask's rulings on what a problem named, and on what  *)
(* nobody drafted; the first pass's on the rest.                           *)
Merged(f) ==
  [c \in Claims |-> IF c \in drafts[f] \ Repairable(f) THEN first[f][c]
                    ELSE reviewed[f][c]]

(* A re-ask that changed a ruling no problem named has drifted.  Two       *)
(* rulings of one kind can differ too.                                     *)
Drifts(f) ==
  LET kept == drafts[f] \ Repairable(f) IN
  IF kept = {} \/ reviewed[f] = first[f] THEN {FALSE}
  ELSE IF \E c \in kept : reviewed[f][c] \notin {first[f][c], "unsettled"} THEN {TRUE}
  ELSE BOOLEAN

Marked(f, mark) == marks' = [marks EXCEPT ![f] = @ \cup {mark}]

(* The first look: accept, or park the problems and ask once more.         *)
FirstLook(f) ==
  /\ stage[f] = "router" /\ FrameworkMoves
  /\ IF Problems(f, reviewed[f]) = {}
     THEN /\ stage' = [stage EXCEPT ![f] = "accepting"]
          /\ UNCHANGED <<first, marks>>
     ELSE /\ stage' = [stage EXCEPT ![f] = "recritic"]
          /\ first' = [first EXCEPT ![f] = reviewed[f]]
          /\ Marked(f, "problems")
  /\ UNCHANGED <<lane, drafts, reviewed, accepted, assembly>>

(* The second look: the merged rulings replace the re-ask's.               *)
SecondLook(f) ==
  /\ stage[f] = "rereview" /\ FrameworkMoves
  /\ reviewed' = [reviewed EXCEPT ![f] = Merged(f)]
  /\ \E drifted \in Drifts(f) :
       stage' = [stage EXCEPT ![f] =
         IF Problems(f, Merged(f)) # {} THEN "failing"
         ELSE IF drifted THEN "drifted" ELSE "accepting"]
  /\ UNCHANGED <<lane, drafts, first, accepted, marks, assembly>>

(* route_review writes the marker that assemble reads a framework as       *)
(* finished by, then its marks, and then takes the accept edge.            *)
Accept(f) ==
  /\ stage[f] \in {"accepting", "drifted"} /\ FrameworkMoves
  /\ accepted' = accepted \cup {f}
  /\ stage' = [stage EXCEPT ![f] = IF @ = "drifted" THEN "marking" ELSE "leaving"]
  /\ UNCHANGED <<lane, drafts, reviewed, first, marks, assembly>>

Mark(f) ==
  /\ stage[f] = "marking" /\ FrameworkMoves
  /\ Marked(f, "drift")
  /\ stage' = [stage EXCEPT ![f] = "leaving"]
  /\ UNCHANGED <<lane, drafts, reviewed, first, accepted, assembly>>

Leave(f) ==
  /\ stage[f] = "leaving" /\ FrameworkMoves
  /\ stage' = [stage EXCEPT ![f] = "accepted"]
  /\ trigger' = [trigger EXCEPT ![f] = "due"]
  /\ UNCHANGED <<lane, round, built, analysis>>

-----------------------------------------------------------------------------
(***************************************************************************)
(* assemble                                                                *)
(***************************************************************************)
(* Mutant: a framework is finished by its own router alone.                *)
FinishedByRouter(f) == f \in accepted

Finished(f) == f \in accepted \/ stage[f] = "refused"

Block(f) == [refused |-> stage[f] = "refused", drafts |-> drafts[f],
             rulings |-> reviewed[f], marks |-> marks[f]]

(* The gate of one trigger: it goes on where every framework is finished   *)
(* and no trigger wrote the report.                                        *)
AssembleGate(t) ==
  /\ Running /\ trigger[t] = "due"
  /\ trigger' = [trigger EXCEPT ![t] =
       IF (\A f \in Frameworks : Finished(f)) /\ analysis = None
       THEN "building" ELSE "done"]
  /\ UNCHANGED <<head, outcome, stage, lane, round, built, analysis>>

BuildBlocks(t) ==
  /\ Running /\ trigger[t] = "building"
  /\ built' = [built EXCEPT ![t] = [f \in Frameworks |-> Block(f)]]
  /\ trigger' = [trigger EXCEPT ![t] = "writing"]
  /\ UNCHANGED <<head, outcome, stage, lane, round, analysis>>

WriteReport(t) ==
  /\ Running /\ trigger[t] = "writing"
  /\ analysis' = built[t]
  /\ built' = [built EXCEPT ![t] = None]
  /\ trigger' = [trigger EXCEPT ![t] = "done"]
  /\ UNCHANGED <<head, outcome, stage, lane, round>>

-----------------------------------------------------------------------------
(***************************************************************************)
(* The driver                                                              *)
(***************************************************************************)
Calling ==
  \/ at \in {"extract", "repair", "capabilities", "assert"}
  \/ \E f \in Frameworks :
       \/ stage[f] \in {"critic", "recritic"}
       \/ stage[f] = "lanes" /\ \E l \in Lanes : lane[f][l] = "called"

(* A call that raises ends the run.                                        *)
CallRaises == Running /\ Calling /\ Fail

(* A node that finds nothing under a key, and the critic_failed node.      *)
NodeRaises ==
  /\ Running
  /\ \/ Silent
     \/ \E f \in Frameworks : (LanesEnded(f) /\ SilentLane(f)) \/ stage[f] = "failing"
  /\ Fail

Quiet ==
  /\ at = "done"
  /\ \A f \in Frameworks : stage[f] \in {"none", "refused", "accepted"}
  /\ \A t \in Frameworks \cup {Skip} : trigger[t] \in {"none", "done"}

(* paused_at and result_of: what the final state holds.                    *)
Result ==
  IF "rejection" \in held THEN "rejected"
  ELSE IF build.entry = "head-only" THEN (IF "model" \in held THEN "awaiting" ELSE "nothing")
  ELSE IF analysis # None THEN "completed" ELSE "nothing"

Return ==
  /\ Running /\ Quiet
  /\ outcome' = Result
  /\ UNCHANGED <<head, stage, lane, round, assembly>>

-----------------------------------------------------------------------------
Init ==
  /\ build \in Builds
  /\ at = IF build.entry = "resume" THEN "prepare" ELSE "extract"
  /\ extracted = "absent"
  /\ IF build.entry = "resume" THEN held \in {{"model"}, {"model", "catalog"}} ELSE held = {}
  /\ outcome = "running"
  /\ stage = [f \in Frameworks |-> "none"]
  /\ lane = [f \in Frameworks |-> [l \in Lanes |-> "none"]]
  /\ drafts = [f \in Frameworks |-> {}]
  /\ reviewed = [f \in Frameworks |-> NoRuling]
  /\ first = [f \in Frameworks |-> NoRuling]
  /\ accepted = {}
  /\ marks = [f \in Frameworks |-> {}]
  /\ trigger = [t \in Frameworks \cup {Skip} |-> "none"]
  /\ built = [t \in Frameworks \cup {Skip} |-> None]
  /\ analysis = None

HeadStep ==
  \/ Extract \/ Repair \/ Gate \/ Reject \/ ReadCapabilities \/ Stated
  \/ Assert \/ ParkCatalog \/ Pause \/ Prepare

FrameworkStep(f) ==
  \/ \E l \in Lanes : LaneEnds(f, l)
  \/ MergeDrafts(f) \/ Critic(f) \/ FirstLook(f) \/ SecondLook(f)
  \/ Accept(f) \/ Mark(f) \/ Leave(f)

AssembleStep(t) == AssembleGate(t) \/ BuildBlocks(t) \/ WriteReport(t)

Progress ==
  \/ HeadStep
  \/ \E f \in Frameworks : FrameworkStep(f)
  \/ \E t \in Frameworks \cup {Skip} : AssembleStep(t)
  \/ NodeRaises \/ Return

Next == Progress \/ CallRaises

(* Each call of a node ends and each body returns, so the drive goes on.   *)
Spec == Init /\ [][Next]_vars /\ WF_vars(Progress)
-----------------------------------------------------------------------------
(***************************************************************************)
(* Properties                                                              *)
(***************************************************************************)
Stages == {"none", "refused", "lanes", "critic", "router", "recritic", "rereview",
           "failing", "drifted", "accepting", "marking", "leaving", "accepted"}

(* Every variable keeps its type, and no drive ends with neither of the    *)
(* graph's results (GraphProducedNothing).                                 *)
TypeOK ==
  /\ build \in Builds
  /\ at \in {"extract", "validate", "repair", "revalidate", "reject", "capabilities",
             "stated", "assert", "catalog", "pause", "prepare", "done"}
  /\ extracted \in {"absent", "valid", "invalid", "unconvertible"}
  /\ held \subseteq {"model", "rejection", "reading", "proposal", "catalog"}
  /\ outcome \in {"running", "completed", "awaiting", "rejected", "failed"}
  /\ stage \in [Frameworks -> Stages]
  /\ lane \in [Frameworks -> [Lanes -> {"none", "called", "wrote", "silent"}]]
  /\ drafts \in [Frameworks -> SUBSET Claims]
  /\ reviewed \in [Frameworks -> Rulings] /\ first \in [Frameworks -> Rulings]
  /\ accepted \subseteq Frameworks
  /\ marks \in [Frameworks -> SUBSET {"problems", "drift"}]
  /\ trigger \in [Frameworks \cup {Skip} -> {"none", "due", "building", "writing", "done"}]
  /\ built \in [Frameworks \cup {Skip} -> [Frameworks -> Blocks] \cup {None}]
  /\ analysis \in [Frameworks -> Blocks] \cup {None}

(* A block is whole: a refused framework drafted nothing, and every other  *)
(* one ran each of its lanes and holds one standing ruling for each draft  *)
(* and none for anything else.                                             *)
BlockIsWhole(f, block) ==
  /\ block.refused = (stage[f] = "refused")
  /\ block.drafts = drafts[f] /\ block.rulings = reviewed[f]
  /\ Problems(f, block.rulings) = {}
  /\ block.refused => block.drafts = {}
  /\ ~block.refused => \A l \in Lanes : lane[f][l] = "wrote"

(* The report answers every framework of the selection, each with a whole  *)
(* block over the final drafts and rulings, whichever trigger of assemble  *)
(* built it and whatever the other frameworks were doing; and it rests on  *)
(* each pass that the graph was built with.                                *)
ReportIsWhole ==
  analysis # None =>
    /\ \A f \in Frameworks : BlockIsWhole(f, analysis[f])
    /\ "model" \in held /\ "rejection" \notin held
    /\ build.asserts => "catalog" \in held
    /\ build.reads => "reading" \in held

(* A re-ask changes no ruling that the first pass got right: what a        *)
(* framework accepts after a re-ask differs from its first pass only on    *)
(* drafts that a problem named.                                            *)
ReaskInBrief ==
  \A f \in accepted : "problems" \in marks[f] =>
    \A c \in drafts[f] : first[f][c] # "unsettled" => reviewed[f][c] = first[f][c]

(* Every drive ends, and ends in something its driver can return: whatever *)
(* was refused, silent or re-asked, the last trigger of assemble writes a  *)
(* report, or the head left a rejection or a pause, or the run failed.     *)
RunEnds == <>(outcome \in {"completed", "awaiting", "rejected", "failed"})

(* What the re-ask changed beyond its brief is on the marks of the report. *)
ReportHasMarks ==
  outcome = "completed" => \A f \in Frameworks : analysis[f].marks = marks[f]
=============================================================================

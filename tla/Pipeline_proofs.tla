--------------------------- MODULE Pipeline_proofs ---------------------------
(***************************************************************************)
(* Proofs about Pipeline, for any selection of frameworks, any lanes, any  *)
(* claims and any graphs: the report is whole, a re-ask stays in its       *)
(* brief, and every variable keeps its type.                               *)
(***************************************************************************)
EXTENDS Pipeline, TLAPS

Triggers == Frameworks \cup {Skip}

(* What the head holds at each of its nodes.                               *)
HeadInv ==
  /\ at \in {"extract", "validate", "repair", "revalidate", "reject"} =>
       "rejection" \notin held
  /\ at \in {"capabilities", "stated", "assert", "prepare", "catalog", "pause"} =>
       "model" \in held /\ "rejection" \notin held
  /\ at \in {"assert", "prepare"} => (build.reads => "reading" \in held)
  /\ at \in {"catalog", "pause"} => build.entry = "head-only"
  /\ at = "done" /\ "rejection" \notin held => "model" \in held

(* A head that sent the model on.                                          *)
Prepared ==
  /\ at = "done"
  /\ "model" \in held /\ "rejection" \notin held
  /\ build.asserts => "catalog" \in held
  /\ build.reads => "reading" \in held

(* Nothing below prepare runs before it, and the head is over then.        *)
StartInv ==
  /\ \A f \in Frameworks : stage[f] # "none" => Prepared
  /\ \A t \in Triggers : trigger[t] # "none" => Prepared
  /\ analysis # None => Prepared

(* The rulings that stand are whole, and in the brief of their re-ask.     *)
Settled(f) ==
  /\ Problems(f, reviewed[f]) = {}
  /\ "problems" \in marks[f] =>
       \A c \in drafts[f] : first[f][c] # "unsettled" => reviewed[f][c] = first[f][c]

StageInv(f) ==
  /\ stage[f] \in {"none", "refused", "lanes"} =>
       drafts[f] = {} /\ reviewed[f] = NoRuling
  /\ stage[f] \in {"none", "refused", "lanes", "critic", "router"} =>
       "problems" \notin marks[f]
  /\ stage[f] = "lanes" => \A l \in Lanes : lane[f][l] # "none"
  /\ stage[f] \notin {"none", "refused", "lanes"} =>
       \A l \in Lanes : lane[f][l] = "wrote"
  /\ stage[f] \in {"accepting", "drifted", "marking", "leaving", "accepted"} => Settled(f)
  /\ f \in accepted <=> stage[f] \in {"marking", "leaving", "accepted"}

FrameworkInv == \A f \in Frameworks : StageInv(f)

AllFinished == \A f \in Frameworks : Finished(f)

WholeBlocks(blocks) ==
  AllFinished /\ \A f \in Frameworks : BlockIsWhole(f, blocks[f])

AssemblyInv ==
  /\ \A t \in Triggers : trigger[t] \in {"building", "writing"} => AllFinished
  /\ \A t \in Triggers : trigger[t] = "writing" => built[t] # None
  /\ \A t \in Triggers : built[t] # None => WholeBlocks(built[t])
  /\ analysis # None => WholeBlocks(analysis)

(* A prepared run has its report, or a trigger that can still write it, or *)
(* a framework that will trigger once more.                                *)
Ending ==
  \/ analysis # None
  \/ \E t \in Triggers : trigger[t] \in {"due", "building", "writing"}
  \/ \E f \in Frameworks : stage[f] \notin {"refused", "accepted"}

EndInv ==
  at = "done" /\ "rejection" \notin held /\ build.entry # "head-only" =>
    Ending /\ \A f \in Frameworks : stage[f] # "none"

(* The inductive invariant.                                                *)
Inv == TypeOK /\ HeadInv /\ StartInv /\ FrameworkInv /\ AssemblyInv /\ EndInv

-----------------------------------------------------------------------------
(* A framework that a step leaves alone keeps its part of the invariant.   *)
Same(f) ==
  /\ stage'[f] = stage[f] /\ lane'[f] = lane[f]
  /\ drafts'[f] = drafts[f] /\ reviewed'[f] = reviewed[f]
  /\ first'[f] = first[f] /\ marks'[f] = marks[f]
  /\ f \in accepted' <=> f \in accepted

(* A framework that a step does not touch keeps its part.                  *)
LEMMA SameStage ==
  ASSUME NEW f \in Frameworks, StageInv(f), Same(f)
  PROVE  StageInv(f)'
  BY DEF StageInv, Same, Settled, Problems

(* What is finished stays so, with its drafts, rulings and lanes.          *)
Kept(f) ==
  Finished(f) =>
    /\ f \in accepted' \/ stage'[f] = "refused"
    /\ (stage'[f] = "refused") = (stage[f] = "refused")
    /\ drafts'[f] = drafts[f] /\ reviewed'[f] = reviewed[f] /\ lane'[f] = lane[f]

(* A step that touches no trigger keeps the part about them.               *)
LEMMA AssemblyKept ==
  ASSUME AssemblyInv, UNCHANGED <<built, analysis>>,
         \A f \in Frameworks : Kept(f),
         \A t \in Triggers : trigger'[t] \in {"building", "writing"}
                               => trigger'[t] = trigger[t]
  PROVE  AssemblyInv'
  BY DEF AssemblyInv, Kept, WholeBlocks, AllFinished, Finished, BlockIsWhole, Problems

(* A step of the head before prepare leaves the rest as it was.            *)
LEMMA HeadKeeps ==
  ASSUME Inv, HeadMoves, at # "done"
  PROVE  StartInv' /\ FrameworkInv' /\ AssemblyInv'
  <1>1. UNCHANGED <<stage, lane, round, assembly>>
    BY DEF HeadMoves
  <1>2. StartInv'
    BY <1>1 DEF Inv, StartInv, Prepared, assembly
  <1>3. FrameworkInv'
    BY <1>1, SameStage DEF Inv, FrameworkInv, Same, round
  <1>4. \A f \in Frameworks : Kept(f)
    BY <1>1 DEF Kept, Finished, round
  <1>5. AssemblyInv'
    BY <1>1, <1>4, AssemblyKept DEF Inv, assembly
  <1> QED
    BY <1>2, <1>3, <1>5

(* A step of the head keeps the invariant.                                 *)
LEMMA HeadStepInv ==
  ASSUME PipelineAssumption, Inv, HeadStep
  PROVE  Inv'
  <1> USE DEF HeadMoves, round, assembly, EndInv
  <1>1. CASE Extract
    BY <1>1, HeadKeeps DEF Extract, Inv, TypeOK, HeadInv
  <1>2. CASE Repair
    BY <1>2, HeadKeeps DEF Repair, Inv, TypeOK, HeadInv
  <1>3. CASE Gate
    BY <1>3, HeadKeeps DEF Gate, Inv, TypeOK, HeadInv, AfterGate, AfterReading, Tail
  <1>4. CASE Reject
    BY <1>4, HeadKeeps DEF Reject, Inv, TypeOK, HeadInv
  <1>5. CASE ReadCapabilities
    BY <1>5, HeadKeeps DEF ReadCapabilities, Inv, TypeOK, HeadInv
  <1>6. CASE Stated
    BY <1>6, HeadKeeps DEF Stated, Inv, TypeOK, HeadInv, AfterReading, Tail
  <1>7. CASE Assert
    BY <1>7, HeadKeeps DEF Assert, Inv, TypeOK, HeadInv, Tail
  <1>8. CASE ParkCatalog
    BY <1>8, HeadKeeps DEF ParkCatalog, Inv, TypeOK, HeadInv
  <1>9. CASE Pause
    BY <1>9, HeadKeeps DEF Pause, Inv, TypeOK, HeadInv
  <1>10. CASE Prepare
    <2>1. at = "prepare" /\ ~Silent
      BY <1>10 DEF Prepare
    <2>2. \A f \in Frameworks : stage[f] = "none"
      BY <2>1 DEF Inv, StartInv, Prepared
    <2>3. \A t \in Triggers : trigger[t] = "none"
      BY <2>1 DEF Inv, StartInv, Prepared
    <2>4. TypeOK'
      BY <1>10 DEF Prepare, Inv, TypeOK, Stages
    <2>5. Prepared'
      BY <1>10, <2>1 DEF Prepare, Inv, HeadInv, Prepared, Silent, TypeOK, Resolvable
    <2>14. EndInv'
      <3>1. PICK refused \in SUBSET Frameworks :
              /\ stage' = [f \in Frameworks |-> IF f \in refused THEN "refused" ELSE "lanes"]
              /\ trigger' = [trigger EXCEPT ![Skip] = IF refused = {} THEN "none" ELSE "due"]
        BY <1>10 DEF Prepare
      <3>2. CASE refused = {}
        BY <3>1, <3>2 DEF Ending, PipelineAssumption
      <3>3. CASE refused # {}
        BY <3>1, <3>3 DEF Ending, Triggers, Inv, TypeOK
      <3> QED
        BY <3>1, <3>2, <3>3
    <2>6. HeadInv' /\ StartInv'
      BY <2>5 DEF HeadInv, StartInv, Prepared
    <2>7. FrameworkInv'
      <3> SUFFICES ASSUME NEW f \in Frameworks PROVE StageInv(f)'
        BY DEF FrameworkInv
      <3>1. /\ stage'[f] \in {"refused", "lanes"}
            /\ stage'[f] = "lanes" => \A l \in Lanes : lane'[f][l] = "called"
        BY <1>10 DEF Prepare
      <3>2. /\ drafts' = drafts /\ reviewed' = reviewed /\ marks' = marks
            /\ accepted' = accepted
        BY <1>10 DEF Prepare
      <3>3. /\ drafts[f] = {} /\ reviewed[f] = NoRuling
            /\ "problems" \notin marks[f] /\ f \notin accepted
        BY <2>2 DEF Inv, FrameworkInv, StageInv
      <3> QED
        BY <3>1, <3>2, <3>3 DEF StageInv, NoRuling
    <2>8. analysis = None
      BY <2>1 DEF Inv, StartInv, Prepared
    <2>9. \A f \in Frameworks : ~Finished(f)
      BY <2>2 DEF Finished, Inv, FrameworkInv, StageInv
    <2>10. \A t \in Triggers : trigger'[t] \in {"none", "due"}
      BY <1>10, <2>3 DEF Prepare, Triggers, Inv, TypeOK
    <2>11. \A f \in Frameworks : Kept(f)
      BY <2>9 DEF Kept
    <2>12. AssemblyInv'
      BY <1>10, <2>10, <2>11, AssemblyKept DEF Prepare, Inv
    <2> QED
      BY <2>4, <2>6, <2>7, <2>12, <2>14 DEF Inv
  <1> QED
    BY <1>1, <1>2, <1>3, <1>4, <1>5, <1>6, <1>7, <1>8, <1>9, <1>10 DEF HeadStep

(* A step of one framework that keeps the framework's own part, and takes  *)
(* nothing back from what is finished, keeps the rest.                     *)
LEMMA OneFramework ==
  ASSUME Inv, FrameworkMoves, UNCHANGED <<built, analysis>>,
         NEW f \in Frameworks, stage[f] # "none",
         stage'[f] # "none",
         trigger'[f] = "due" \/ stage'[f] \notin {"refused", "accepted"},
         StageInv(f)', Kept(f), \A g \in Frameworks \ {f} : Same(g),
         \A t \in Triggers : trigger'[t] # trigger[t] => trigger'[t] = "due"
  PROVE  HeadInv' /\ StartInv' /\ FrameworkInv' /\ AssemblyInv' /\ EndInv'
  <1>1. UNCHANGED <<build, at, extracted, held>>
    BY DEF FrameworkMoves, head
  <1>2. Prepared /\ Prepared'
    BY <1>1 DEF Inv, StartInv, Prepared
  <1>3. HeadInv' /\ StartInv'
    BY <1>1, <1>2 DEF Inv, HeadInv, StartInv, Prepared
  <1>4. FrameworkInv'
    BY SameStage DEF Inv, FrameworkInv
  <1>5. \A g \in Frameworks : Kept(g)
    BY DEF Kept, Same, Finished
  <1>6. AssemblyInv'
    BY <1>5, AssemblyKept DEF Inv
  <1>7. EndInv'
    BY <1>1 DEF Inv, EndInv, Ending, Triggers, Same
  <1> QED
    BY <1>3, <1>4, <1>6, <1>7

(* A step of a framework keeps the invariant.                              *)
LEMMA FrameworkStepInv ==
  ASSUME PipelineAssumption, Inv, NEW f \in Frameworks, FrameworkStep(f)
  PROVE  Inv'
  <1> USE DEF FrameworkMoves, round, assembly, head
  <1>1. TypeOK /\ StageInv(f)
    BY DEF Inv, FrameworkInv
  <1>2. f \in accepted => stage[f] \in {"marking", "leaving", "accepted"}
    BY <1>1 DEF StageInv
  <1>3. ASSUME NEW l \in Lanes, LaneEnds(f, l)  PROVE Inv'
    <2>1. TypeOK'
      BY <1>1, <1>3 DEF LaneEnds, TypeOK
    <2>2. StageInv(f)'
      BY <1>1, <1>3 DEF LaneEnds, TypeOK, StageInv, Settled, Problems
    <2>3. Kept(f) /\ \A g \in Frameworks \ {f} : Same(g)
      BY <1>1, <1>2, <1>3 DEF LaneEnds, TypeOK, Kept, Finished, Same
    <2> QED
      BY <1>3, <2>1, <2>2, <2>3, OneFramework DEF LaneEnds, Inv
  <1>4. CASE MergeDrafts(f)
    <2>1. TypeOK'
      BY <1>1, <1>4 DEF MergeDrafts, LanesEnded, TypeOK, Stages, PipelineAssumption
    <2>2. \A l \in Lanes : lane[f][l] = "wrote"
      BY <1>1, <1>4, <1>2 DEF MergeDrafts, LanesEnded, SilentLane, TypeOK, StageInv
    <2>3. StageInv(f)'
      BY <1>1, <1>2, <1>4, <2>2 DEF MergeDrafts, LanesEnded, TypeOK, StageInv, Stages
    <2>4. Kept(f) /\ \A g \in Frameworks \ {f} : Same(g)
      BY <1>1, <1>2, <1>4 DEF MergeDrafts, LanesEnded, TypeOK, Kept, Finished, Same
    <2> QED
      BY <1>4, <2>1, <2>3, <2>4, OneFramework DEF MergeDrafts, LanesEnded, Inv
  <1>5. CASE Critic(f)
    <2>1. TypeOK'
      BY <1>1, <1>5 DEF Critic, TypeOK, Stages, Emitted
    <2>2. StageInv(f)'
      BY <1>1, <1>2, <1>5 DEF Critic, TypeOK, StageInv
    <2>3. Kept(f) /\ \A g \in Frameworks \ {f} : Same(g)
      BY <1>1, <1>2, <1>5 DEF Critic, TypeOK, Kept, Finished, Same
    <2> QED
      BY <1>5, <2>1, <2>2, <2>3, OneFramework DEF Critic, Inv
  <1>6. CASE FirstLook(f)
    <2>1. TypeOK'
      <3>1. CASE Problems(f, reviewed[f]) = {}
        BY <1>1, <1>6, <3>1 DEF FirstLook, TypeOK, Stages
      <3>2. CASE Problems(f, reviewed[f]) # {}
        <4>1. marks' = [marks EXCEPT ![f] = @ \cup {"problems"}]
          BY <1>6, <3>2 DEF FirstLook, Marked
        <4>2. marks' \in [Frameworks -> SUBSET {"problems", "drift"}]
          BY <1>1, <4>1 DEF TypeOK
        <4>3. /\ stage' = [stage EXCEPT ![f] = "recritic"]
              /\ first' = [first EXCEPT ![f] = reviewed[f]]
              /\ UNCHANGED <<build, at, extracted, held, outcome, lane, drafts,
                            reviewed, accepted, trigger, built, analysis>>
          BY <1>6, <3>2 DEF FirstLook
        <4> QED
          BY <1>1, <4>2, <4>3 DEF TypeOK, Stages
      <3> QED
        BY <3>1, <3>2
    <2>2. StageInv(f)'
      BY <1>1, <1>2, <1>6 DEF FirstLook, Marked, TypeOK, StageInv, Settled, Problems
    <2>3. Kept(f) /\ \A g \in Frameworks \ {f} : Same(g)
      BY <1>1, <1>2, <1>6 DEF FirstLook, Marked, TypeOK, Kept, Finished, Same
    <2> QED
      <3>1. stage[f] = "router" /\ stage'[f] \in {"accepting", "recritic"}
        BY <1>1, <1>6 DEF FirstLook, TypeOK
      <3> QED
        BY <1>6, <2>1, <2>2, <2>3, <3>1, OneFramework DEF FirstLook, Inv
  <1>7. CASE SecondLook(f)
    <2>1. Merged(f) \in Rulings
      BY <1>1 DEF Merged, TypeOK, Rulings
    <2>2. TypeOK'
      BY <1>1, <1>7, <2>1 DEF SecondLook, TypeOK, Stages
    <2>3. \A c \in drafts[f] : first[f][c] # "unsettled" => Merged(f)[c] = first[f][c]
      BY <1>1 DEF Merged, Repairable, Problems, TypeOK
    <2>4. StageInv(f)'
      <3>1. PICK s \in {"failing", "drifted", "accepting"} :
              /\ stage' = [stage EXCEPT ![f] = s]
              /\ s # "failing" => Problems(f, Merged(f)) = {}
        BY <1>7 DEF SecondLook
      <3>2. /\ reviewed'[f] = Merged(f) /\ stage'[f] = s
            /\ drafts' = drafts /\ first' = first /\ accepted' = accepted
            /\ lane' = lane
        BY <1>1, <1>7, <3>1 DEF SecondLook, TypeOK
      <3>3. s # "failing" => Settled(f)'
        BY <2>3, <3>1, <3>2 DEF Settled, Problems
      <3> QED
        BY <1>1, <1>2, <1>7, <3>2, <3>3 DEF SecondLook, StageInv
    <2>5. Kept(f) /\ \A g \in Frameworks \ {f} : Same(g)
      BY <1>1, <1>2, <1>7 DEF SecondLook, TypeOK, Kept, Finished, Same
    <2> QED
      BY <1>7, <2>2, <2>4, <2>5, OneFramework DEF SecondLook, Inv
  <1>8. CASE Accept(f)
    <2>1. TypeOK'
      BY <1>1, <1>8 DEF Accept, TypeOK, Stages
    <2>2. StageInv(f)'
      BY <1>1, <1>8 DEF Accept, TypeOK, StageInv, Settled, Problems
    <2>3. Kept(f) /\ \A g \in Frameworks \ {f} : Same(g)
      BY <1>1, <1>2, <1>8 DEF Accept, TypeOK, Kept, Finished, Same
    <2> QED
      BY <1>8, <2>1, <2>2, <2>3, OneFramework DEF Accept, Inv
  <1>9. CASE Mark(f)
    <2>1. TypeOK'
      BY <1>1, <1>9 DEF Mark, Marked, TypeOK, Stages
    <2>2. StageInv(f)'
      BY <1>1, <1>9 DEF Mark, Marked, TypeOK, StageInv, Settled, Problems
    <2>3. Kept(f) /\ \A g \in Frameworks \ {f} : Same(g)
      BY <1>1, <1>2, <1>9 DEF Mark, Marked, TypeOK, Kept, Finished, Same
    <2> QED
      BY <1>9, <2>1, <2>2, <2>3, OneFramework DEF Mark, Inv
  <1>10. CASE Leave(f)
    <2>1. TypeOK'
      BY <1>1, <1>10 DEF Leave, TypeOK, Stages
    <2>2. StageInv(f)'
      BY <1>1, <1>10 DEF Leave, TypeOK, StageInv, Settled, Problems
    <2>3. Kept(f) /\ \A g \in Frameworks \ {f} : Same(g)
      BY <1>1, <1>2, <1>10 DEF Leave, TypeOK, Kept, Finished, Same
    <2>4. \A t \in Triggers : trigger'[t] # trigger[t] => trigger'[t] = "due"
      BY <1>1, <1>10 DEF Leave, TypeOK, Triggers
    <2> QED
      BY <1>10, <2>1, <2>2, <2>3, <2>4, OneFramework DEF Leave, Inv, TypeOK
  <1> QED
    BY <1>3, <1>4, <1>5, <1>6, <1>7, <1>8, <1>9, <1>10 DEF FrameworkStep

-----------------------------------------------------------------------------
(* A step of one trigger of assemble leaves the frameworks as they were.   *)
LEMMA AssembleStepInv ==
  ASSUME PipelineAssumption, Inv, NEW t \in Triggers, AssembleStep(t)
  PROVE  Inv'
  <1> USE DEF round, head
  <1>1. /\ UNCHANGED <<head, outcome, stage, lane, round>>
        /\ trigger[t] # "none"
    BY DEF AssembleStep, AssembleGate, BuildBlocks, WriteReport
  <1>2. Prepared /\ Prepared'
    BY <1>1 DEF Inv, StartInv, Prepared
  <1>3. HeadInv' /\ StartInv'
    BY <1>1, <1>2 DEF Inv, HeadInv, StartInv, Prepared
  <1>4. FrameworkInv'
    BY <1>1, SameStage DEF Inv, FrameworkInv, Same
  <1>5. \A blocks : WholeBlocks(blocks) =>
          AllFinished' /\ \A f \in Frameworks : BlockIsWhole(f, blocks[f])'
    BY <1>1 DEF WholeBlocks, AllFinished, Finished, BlockIsWhole, Problems
  <1>6. TypeOK' /\ AssemblyInv'
    <2>1. CASE AssembleGate(t)
      <3>1. TypeOK'
        BY <1>1, <2>1 DEF AssembleGate, Inv, TypeOK, Triggers
      <3>2. \A u \in Triggers : trigger'[u] \in {"building", "writing"} => AllFinished
        BY <2>1 DEF AssembleGate, Inv, TypeOK, AssemblyInv, AllFinished, Triggers
      <3> QED
        BY <1>1, <2>1, <3>1, <3>2 DEF AssembleGate, Inv, AssemblyInv, WholeBlocks,
           AllFinished, Finished, BlockIsWhole, Problems
    <2>2. CASE BuildBlocks(t)
      <3>1. AllFinished
        BY <2>2 DEF BuildBlocks, Inv, AssemblyInv
      <3>2. \A f \in Frameworks : Block(f) \in Blocks
        BY DEF Inv, TypeOK, Block, Blocks
      <3>3. TypeOK'
        BY <1>1, <2>2, <3>2 DEF BuildBlocks, Inv, TypeOK, Triggers
      <3>4. \A f \in Frameworks : BlockIsWhole(f, Block(f))
        <4> SUFFICES ASSUME NEW f \in Frameworks PROVE BlockIsWhole(f, Block(f))
          OBVIOUS
        <4>1. StageInv(f) /\ (f \in accepted \/ stage[f] = "refused")
          BY <3>1 DEF Inv, FrameworkInv, AllFinished, Finished
        <4>2. CASE stage[f] = "refused"
          BY <4>1, <4>2 DEF StageInv, BlockIsWhole, Block, Problems, NoRuling
        <4>3. CASE stage[f] # "refused"
          BY <4>1, <4>3 DEF StageInv, BlockIsWhole, Block, Settled
        <4> QED
          BY <4>2, <4>3
      <3>7. \A u \in Triggers : trigger'[u] = "writing" => built'[u] # None
        BY <2>2, <3>2 DEF BuildBlocks, Inv, TypeOK, AssemblyInv, Triggers, PipelineAssumption
      <3>5. \A u \in Triggers : built'[u] # None =>
              \A f \in Frameworks : BlockIsWhole(f, built'[u][f])
        BY <2>2, <3>4 DEF BuildBlocks, Inv, TypeOK, AssemblyInv, WholeBlocks, Triggers
      <3>6. /\ stage' = stage /\ drafts' = drafts /\ reviewed' = reviewed
            /\ lane' = lane /\ accepted' = accepted /\ analysis' = analysis
        BY <1>1, <2>2 DEF BuildBlocks
      <3> QED
        BY <3>1, <3>3, <3>5, <3>6, <3>7 DEF Inv, AssemblyInv, WholeBlocks,
           AllFinished, Finished, BlockIsWhole, Problems
    <2>3. CASE WriteReport(t)
      <3>1. TypeOK'
        BY <1>1, <2>3 DEF WriteReport, Inv, TypeOK, Triggers
      <3>2. \A u \in Triggers : built'[u] # None => built'[u] = built[u]
        BY <2>3 DEF WriteReport, Inv, TypeOK, Triggers
      <3>5. \A u \in Triggers : trigger'[u] = "writing" => built'[u] # None
        BY <2>3 DEF WriteReport, Inv, TypeOK, AssemblyInv, Triggers
      <3>3. /\ AllFinished
            /\ analysis' # None => \A f \in Frameworks : BlockIsWhole(f, analysis'[f])
        BY <2>3 DEF WriteReport, Inv, AssemblyInv, WholeBlocks
      <3>4. /\ stage' = stage /\ drafts' = drafts /\ reviewed' = reviewed
            /\ lane' = lane /\ accepted' = accepted
        BY <1>1
      <3> QED
        BY <3>1, <3>2, <3>3, <3>4, <3>5 DEF Inv, AssemblyInv, WholeBlocks,
           AllFinished, Finished, BlockIsWhole, Problems
    <2> QED
      BY <2>1, <2>2, <2>3 DEF AssembleStep
  <1>7. EndInv'
    <2>1. CASE AssembleGate(t)
      <3>1. AllFinished /\ analysis = None => trigger'[t] = "building"
        BY <2>1 DEF AssembleGate, Inv, TypeOK, AllFinished, Triggers
      <3>2. AllFinished \/ \E f \in Frameworks : stage[f] \notin {"refused", "accepted"}
        BY DEF Inv, FrameworkInv, StageInv, AllFinished, Finished
      <3>3. /\ stage' = stage /\ analysis' = analysis
            /\ at' = at /\ held' = held /\ build' = build
        BY <1>1, <2>1 DEF AssembleGate
      <3>4. Ending'
        BY <3>1, <3>2, <3>3 DEF Ending
      <3> QED
        BY <3>3, <3>4 DEF EndInv, Inv
    <2>2. CASE BuildBlocks(t)
      BY <1>1, <2>2 DEF BuildBlocks, EndInv, Ending, Inv, TypeOK, Triggers
    <2>3. CASE WriteReport(t)
      BY <1>1, <2>3 DEF WriteReport, EndInv, Ending, Inv, AssemblyInv
    <2> QED
      BY <2>1, <2>2, <2>3 DEF AssembleStep
  <1> QED
    BY <1>3, <1>4, <1>6, <1>7 DEF Inv

(* What changes the outcome alone, or nothing, changes no part.            *)
LEMMA StutterInv ==
  ASSUME Inv, UNCHANGED <<head, stage, lane, round, assembly>>,
         outcome' \in {"running", "completed", "awaiting", "rejected", "failed"}
  PROVE  Inv'
  <1> USE DEF head, round, assembly
  <1>1. TypeOK'
    BY DEF Inv, TypeOK
  <1>2. HeadInv' /\ StartInv'
    BY DEF Inv, HeadInv, StartInv, Prepared
  <1>3. FrameworkInv'
    BY SameStage DEF Inv, FrameworkInv, Same
  <1>4. AssemblyInv'
    BY AssemblyKept DEF Inv, Kept, Finished
  <1>5. EndInv'
    BY DEF Inv, EndInv, Ending
  <1> QED
    BY <1>1, <1>2, <1>3, <1>4, <1>5 DEF Inv

-----------------------------------------------------------------------------
(* The invariant holds before the drive begins.                            *)
LEMMA InitInv ==
  ASSUME PipelineAssumption, Init
  PROVE  Inv
  <1> USE DEF Init
  <1>1. NoRuling \in Rulings
    BY DEF NoRuling, Rulings
  <1>2. TypeOK
    BY <1>1 DEF TypeOK, Stages, PipelineAssumption, Build
  <1>3. HeadInv /\ StartInv
    <2>1. StartInv
      BY DEF StartInv, Triggers
    <2>2. CASE build.entry = "resume"
      BY <2>1, <2>2 DEF HeadInv, PipelineAssumption
    <2>3. CASE build.entry # "resume"
      BY <2>1, <2>3 DEF HeadInv
    <2> QED
      BY <2>2, <2>3
  <1>4. FrameworkInv
    BY DEF FrameworkInv, StageInv
  <1>5. AssemblyInv /\ EndInv
    BY DEF AssemblyInv, Triggers, EndInv
  <1> QED
    BY <1>2, <1>3, <1>4, <1>5 DEF Inv

(* A drive that is quiet left one of the graph's results.                  *)
LEMMA QuietResult ==
  ASSUME PipelineAssumption, Inv, Quiet
  PROVE  Result \in {"completed", "awaiting", "rejected"}
  <1>1. CASE "rejection" \in held
    BY <1>1 DEF Result
  <1>2. CASE "rejection" \notin held /\ build.entry = "head-only"
    BY <1>2 DEF Inv, HeadInv, Quiet, Result
  <1>3. CASE "rejection" \notin held /\ build.entry # "head-only"
    <2>1. Ending /\ \A f \in Frameworks : stage[f] \in {"refused", "accepted"}
      BY <1>3 DEF Inv, EndInv, Quiet
    <2>2. \A t \in Triggers : trigger[t] \in {"none", "done"}
      BY DEF Quiet, Triggers
    <2>3. analysis # None
      BY <2>1, <2>2 DEF Ending
    <2> QED
      BY <1>3, <2>3 DEF Result
  <1> QED
    BY <1>1, <1>2, <1>3

(* Every step keeps the invariant.                                         *)
LEMMA NextInv ==
  ASSUME PipelineAssumption, Inv, [Next]_vars
  PROVE  Inv'
  <1>1. CASE HeadStep
    BY <1>1, HeadStepInv
  <1>2. CASE \E f \in Frameworks : FrameworkStep(f)
    BY <1>2, FrameworkStepInv
  <1>3. CASE \E t \in Triggers : AssembleStep(t)
    BY <1>3, AssembleStepInv
  <1>4. CASE NodeRaises \/ CallRaises
    BY <1>4, StutterInv DEF NodeRaises, CallRaises, Fail
  <1>5. CASE Return
    BY <1>5, QuietResult, StutterInv DEF Return
  <1>6. CASE UNCHANGED vars
    BY <1>6, StutterInv DEF vars, Inv, TypeOK
  <1> QED
    BY <1>1, <1>2, <1>3, <1>4, <1>5, <1>6 DEF Next, Progress, Triggers

(* The invariant holds in every reachable state.                           *)
THEOREM InvHolds == Spec => []Inv
  <1>1. PipelineAssumption
    BY PipelineAssumption
  <1> QED
    BY <1>1, InitInv, NextInv, PTL DEF Spec

(* Every variable keeps its type, and no drive of any selection ends with  *)
(* neither a report, nor a rejection, nor a pause, nor a failure: the last *)
(* trigger of assemble is never lost.                                      *)
THEOREM PipelineTyped == Spec => []TypeOK
  <1>1. Inv => TypeOK
    BY DEF Inv
  <1> QED
    BY <1>1, InvHolds, PTL

(* A report, whichever trigger wrote it, holds a whole block for every     *)
(* framework of the selection, for any number of frameworks and lanes.     *)
THEOREM ReportWhole == Spec => []ReportIsWhole
  <1>1. Inv => ReportIsWhole
    BY DEF Inv, StartInv, Prepared, AssemblyInv, WholeBlocks, ReportIsWhole
  <1> QED
    BY <1>1, InvHolds, PTL

(* No re-ask changes a ruling that its first pass got right.               *)
THEOREM ReaskBounded == Spec => []ReaskInBrief
  <1>1. Inv => ReaskInBrief
    <2> SUFFICES ASSUME Inv, NEW f \in accepted, "problems" \in marks[f]
                 PROVE  \A c \in drafts[f] :
                          first[f][c] # "unsettled" => reviewed[f][c] = first[f][c]
      BY DEF ReaskInBrief
    <2>1. f \in Frameworks
      BY DEF Inv, TypeOK
    <2>2. StageInv(f) /\ stage[f] \in {"marking", "leaving", "accepted"}
      BY <2>1 DEF Inv, FrameworkInv, StageInv
    <2> QED
      BY <2>2 DEF StageInv, Settled
  <1> QED
    BY <1>1, InvHolds, PTL
=============================================================================

----------------------------- MODULE KeptProofs -----------------------------
(***************************************************************************)
(* Proofs about what the program keeps between its runs and takes in from  *)
(* outside: improvements that were approved, plugins, synapse links,       *)
(* memories, imported files, skills, the configuration, the sign-ins to    *)
(* MCP servers, and the files its tools write.                             *)
(***************************************************************************)
EXTENDS Improvement, Plugins, SynapseLink, Memories, Imports, Skills, Settings, McpSignIn,
        Files, SequenceTheorems, FiniteSetTheorems, TLAPS

(* Improvement.  What an approval applies is what was tested, for any      *)
(* number of approvers and of changes of files.                            *)
Content == {"v0", "v1"}
Recorded == {"none", "v0", "v1"}
ImpReports ==
  [baseline : {"none", "passed", "failed"}, sourceKept : BOOLEAN, error : BOOLEAN,
   candidate : Recorded, patch : Recorded, evaluations : BOOLEAN,
   checks : {"none", "passed", "failed"}, afterKept : BOOLEAN, skills : Recorded,
   behavior : {"none", "baseline", "passed", "failed"}, behaviorSkills : Recorded]
Results == [review : Recorded, proposals : Recorded]
Histories ==
  [tested : Results, applied : Results, times : Nat, touched : BOOLEAN, unseen : BOOLEAN]

(* A file of the experiment is as it was or changed; only the source is    *)
(* patched.                                                                *)
ImpTyped ==
  /\ impStep \in {"baseline", "behavior", "agent", "checks", "evaluate", "over"}
  /\ impReport \in ImpReports
  /\ impFiles \in [Live \union Kept -> {"v0", "v1", "patched"}]
  /\ \A f \in Kept : impFiles[f] \in Content
  /\ impReviewed \in [report : ImpReports, patch : Recorded]
  /\ impApprovals \in [Approvers -> {"idle", "report", "files", "apply", "install", "approved"}]
  /\ impHistory \in Histories

UnderWay == \E a \in Approvers : impApprovals[a] # "idle"

(* An evaluation that passed ended the experiment, and no file of it turns *)
(* back: what is still as it was frozen was so when it was evaluated.      *)
Evaluated ==
  impReport.behavior = "passed" =>
    /\ impStep = "over"
    /\ impReport.candidate = "v0" /\ impReport.patch = "v0"
    /\ impReport.skills \in Content
    /\ impHistory.tested.review \in Content /\ impHistory.tested.proposals \in Content
    /\ impFiles["review"] = "v0" => impHistory.tested.review = "v0"
    /\ impFiles["proposals"] = "v0" => impHistory.tested.proposals = "v0"
    /\ impReport.skills = "v1" => impHistory.tested.proposals = "v1"

(* What the report says of files that are frozen before the evaluation.    *)
Frozen ==
  /\ impStep \in {"checks", "evaluate"} => impReport.candidate = "v0" /\ impReport.patch = "v0"
  /\ impStep = "evaluate" => impReport.skills \in Content
  /\ impReport.skills = "v1" => impFiles["proposals"] = "v1"

(* How far an approval is says what it has found.                          *)
ApprovalFound(a) ==
  /\ impApprovals[a] \in {"files", "apply", "install", "approved"} => acceptable(impReport)
  /\ impApprovals[a] \in {"install", "approved"} => impHistory.times = 1
  /\ impApprovals[a] \in {"apply", "install"} /\ ~impHistory.touched =>
       /\ impFiles["patch"] = "v0" /\ impHistory.tested.review = "v0"
       /\ impFiles["proposals"] = impHistory.tested.proposals

(* The source takes the patch once.                                        *)
AppliedOnce ==
  /\ impHistory.times \in {0, 1}
  /\ impHistory.times = 1 <=> impFiles["source"] = "patched"
  /\ impHistory.times = 1 <=> impHistory.applied.review # "none"
  /\ impHistory.times = 1 => acceptable(impReport)
  /\ impHistory.applied.proposals # "none" => impHistory.times = 1
  /\ ~impHistory.touched =>
       /\ impHistory.times = 1 =>
            /\ impHistory.applied.review = impFiles["patch"]
            /\ impHistory.applied.review = impHistory.tested.review
       /\ impHistory.applied.proposals \in {"none", impHistory.tested.proposals}

(* While an approval is under way and no file of the experiment changes,   *)
(* the pin of the review stays that of the patch.                          *)
ReviewPinned ==
  ~impHistory.unseen /\ ~impHistory.touched /\ (impHistory.times = 1 \/ UnderWay) =>
    impReviewed.patch = impFiles["patch"]

ImpInv ==
  /\ ImpTyped /\ Evaluated /\ Frozen
  /\ \A a \in Approvers : ApprovalFound(a)
  /\ AppliedOnce /\ ReviewPinned
-----------------------------------------------------------------------------
LEMMA ImpInitInv == ImpInit => ImpInv
BY DEF ImpInit, ImpInv, ImpTyped, Evaluated, Frozen, ApprovalFound, AppliedOnce, ReviewPinned,
       UnderWay, NewReport, Nothing, ImpReports, Histories, Results, Content, Recorded, Kept,
       Live

(* Before the experiment is over nothing is acceptable, so no approval is  *)
(* past the report and nothing was applied.                                *)
NoneYet ==
  /\ impReport.behavior # "passed"
  /\ \A a \in Approvers : impApprovals[a] \in {"idle", "report"}
  /\ impHistory.times = 0
  /\ impHistory.applied.review = "none" /\ impHistory.applied.proposals = "none"

LEMMA NotYet == ImpInv /\ impStep # "over" => NoneYet
BY DEF ImpInv, ImpTyped, Evaluated, ApprovalFound, AppliedOnce, acceptable, semantic_status,
       NoneYet

(* A step of the experiment that keeps the history: what is left to show   *)
(* is about the report alone.                                              *)
LEMMA PipelineKeeps ==
  ASSUME NEW from, NEW to, NEW report, ImpInv, from # "over", Pipeline(from, to, report),
         to \in {"baseline", "behavior", "agent", "checks", "evaluate", "over"},
         report \in ImpReports, UNCHANGED impHistory,
         report.behavior # "passed", Frozen'
  PROVE  ImpInv'
<1>1. NoneYet
  BY NotYet DEF Pipeline
<1>2. ImpTyped'
  BY DEF ImpInv, ImpTyped, Pipeline
<1>3. Evaluated'
  BY DEF Evaluated, Pipeline
<1>4. ASSUME NEW a \in Approvers PROVE ApprovalFound(a)'
  BY <1>1 DEF NoneYet, ApprovalFound, Pipeline
<1>5. AppliedOnce'
  BY <1>1 DEF ImpInv, NoneYet, AppliedOnce, Pipeline
<1>6. ReviewPinned'
  BY DEF ImpInv, ReviewPinned, UnderWay, Pipeline
<1>7. QED
  BY <1>2, <1>3, <1>4, <1>5, <1>6 DEF ImpInv

LEMMA BaselineKeeps == ImpInv /\ Baseline => ImpInv'
<1> SUFFICES ASSUME ImpInv, Baseline PROVE ImpInv'
  OBVIOUS
<1>1. PICK result \in {"passed", "failed"}, kept \in BOOLEAN :
        Pipeline("baseline", "behavior",
                 [impReport EXCEPT !.baseline = result, !.sourceKept = kept])
  BY DEF Baseline
<1> DEFINE report == [impReport EXCEPT !.baseline = result, !.sourceKept = kept]
<1>2. /\ report \in ImpReports /\ report.behavior = impReport.behavior
      /\ report.skills = impReport.skills
  BY DEF ImpInv, ImpTyped, ImpReports
<1>3. report.behavior # "passed"
  BY <1>1, <1>2, NotYet DEF Pipeline, NoneYet
<1>4. UNCHANGED impHistory
  BY DEF Baseline
<1>5. Frozen'
  BY <1>1, <1>2 DEF ImpInv, Frozen, Pipeline
<1>6. Pipeline("baseline", "behavior", report)
  BY <1>1
<1> HIDE DEF report
<1>7. QED
  BY <1>2, <1>3, <1>4, <1>5, <1>6, PipelineKeeps

LEMMA BaselineBehaviorKeeps == ImpInv /\ BaselineBehavior => ImpInv'
<1> SUFFICES ASSUME ImpInv, BaselineBehavior PROVE ImpInv'
  OBVIOUS
<1>1. PICK to \in {"agent", "over"}, error \in BOOLEAN :
        Pipeline("behavior", to, [impReport EXCEPT !.behavior = "baseline", !.error = error])
  <2>1. impReport \in ImpReports
    BY DEF ImpInv, ImpTyped
  <2>2. [impReport EXCEPT !.behavior = "baseline"] =
          [impReport EXCEPT !.behavior = "baseline", !.error = impReport.error]
    BY <2>1 DEF ImpReports
  <2>3. impReport.error \in BOOLEAN
    BY <2>1 DEF ImpReports
  <2>4. QED
    BY <2>2, <2>3 DEF BaselineBehavior
<1> DEFINE report == [impReport EXCEPT !.behavior = "baseline", !.error = error]
<1>2. report \in ImpReports /\ report.behavior = "baseline" /\ report.skills = impReport.skills
  BY DEF ImpInv, ImpTyped, ImpReports
<1>4. UNCHANGED impHistory
  BY DEF BaselineBehavior
<1>5. Frozen'
  BY <1>1, <1>2 DEF ImpInv, Frozen, Pipeline
<1>6. Pipeline("behavior", to, report)
  BY <1>1
<1> HIDE DEF report
<1>7. QED
  BY <1>2, <1>4, <1>5, <1>6, PipelineKeeps

LEMMA AgentRunsKeeps == ImpInv /\ AgentRuns => ImpInv'
<1> SUFFICES ASSUME ImpInv, AgentRuns PROVE ImpInv'
  OBVIOUS
<1>1. PICK failed \in BOOLEAN, evaluations \in BOOLEAN :
        Pipeline("agent", "checks",
                 [impReport EXCEPT !.error = failed, !.evaluations = evaluations,
                                   !.candidate = "v0", !.patch = "v0"])
  BY DEF AgentRuns
<1> DEFINE report == [impReport EXCEPT !.error = failed, !.evaluations = evaluations,
                                       !.candidate = "v0", !.patch = "v0"]
<1>2. /\ report \in ImpReports /\ report.behavior = impReport.behavior
      /\ report.skills = impReport.skills /\ report.candidate = "v0" /\ report.patch = "v0"
  <2>1. impReport \in ImpReports
    BY DEF ImpInv, ImpTyped
  <2>2. "v0" \in Recorded
    BY DEF Recorded
  <2>3. report \in ImpReports
    BY <2>1, <2>2, Zenon DEF ImpReports
  <2>4. QED
    BY <2>1, <2>3 DEF ImpReports
<1>3. report.behavior # "passed"
  BY <1>1, <1>2, NotYet DEF Pipeline, NoneYet
<1>4. UNCHANGED impHistory
  BY DEF AgentRuns
<1>5. Frozen'
  BY <1>1, <1>2 DEF ImpInv, Frozen, Pipeline
<1>6. Pipeline("agent", "checks", report)
  BY <1>1
<1> HIDE DEF report
<1>7. QED
  BY <1>2, <1>3, <1>4, <1>5, <1>6, PipelineKeeps

LEMMA CandidateChecksKeeps == ImpInv /\ CandidateChecks => ImpInv'
<1> SUFFICES ASSUME ImpInv, CandidateChecks PROVE ImpInv'
  OBVIOUS
<1>1. PICK result \in {"passed", "failed"}, kept \in BOOLEAN :
        Pipeline("checks", "evaluate",
                 [impReport EXCEPT !.checks = result, !.afterKept = kept,
                                   !.skills = impFiles["proposals"]])
  BY DEF CandidateChecks
<1> DEFINE report == [impReport EXCEPT !.checks = result, !.afterKept = kept,
                                       !.skills = impFiles["proposals"]]
<1>2. impReport \in ImpReports /\ impFiles["proposals"] \in Content
  BY DEF ImpInv, ImpTyped, Kept
<1>3. /\ report \in ImpReports /\ report.behavior = impReport.behavior
      /\ report.skills = impFiles["proposals"]
      /\ report.candidate = impReport.candidate /\ report.patch = impReport.patch
  BY <1>2 DEF ImpReports, Recorded, Content
<1>4. report.behavior # "passed"
  BY <1>1, <1>3, NotYet DEF Pipeline, NoneYet
<1>5. UNCHANGED impHistory
  BY DEF CandidateChecks
<1>6. Frozen'
  BY <1>1, <1>2, <1>3 DEF ImpInv, Frozen, Pipeline
<1>7. Pipeline("checks", "evaluate", report)
  BY <1>1
<1> HIDE DEF report
<1>8. QED
  BY <1>3, <1>4, <1>5, <1>6, <1>7, PipelineKeeps

(* The evaluation reads the files as they are: whatever is still as it was *)
(* frozen later is so now.                                                 *)
LEMMA CandidateBehaviorKeeps == ImpInv /\ CandidateBehavior => ImpInv'
<1> SUFFICES ASSUME ImpInv, CandidateBehavior PROVE ImpInv'
  OBVIOUS
<1>1. CASE checks_passed(impReport) /\ ~impReport.evaluations
  <2>1. PICK result \in {"passed", "failed"} :
          Pipeline("evaluate", "over", [impReport EXCEPT !.behavior = result,
                                           !.behaviorSkills = impReport.skills])
    BY <1>1 DEF CandidateBehavior
  <2>2. impHistory' = [impHistory EXCEPT !.tested =
                         [review |-> impFiles["review"], proposals |-> impFiles["proposals"]]]
    BY <1>1 DEF CandidateBehavior
  <2> DEFINE report == [impReport EXCEPT !.behavior = result, !.behaviorSkills = impReport.skills]
  <2>3. /\ impReport \in ImpReports /\ impHistory \in Histories
        /\ impFiles["review"] \in Content /\ impFiles["proposals"] \in Content
    BY DEF ImpInv, ImpTyped, Kept
  <2>4. /\ report \in ImpReports
        /\ report.skills = impReport.skills /\ report.candidate = impReport.candidate
        /\ report.patch = impReport.patch
    BY <2>3 DEF ImpReports
  <2>5. impReport' = report /\ impStep = "evaluate" /\ impStep' = "over"
        /\ UNCHANGED <<impFiles, impReviewed, impApprovals>>
    BY <2>1 DEF Pipeline
  <2> HIDE DEF report
  <2>6. NoneYet
    BY <2>5, NotYet
  <2>7. /\ impHistory' \in Histories
        /\ impHistory'.tested = [review |-> impFiles["review"], proposals |-> impFiles["proposals"]]
        /\ impHistory'.applied = impHistory.applied /\ impHistory'.times = impHistory.times
        /\ impHistory'.touched = impHistory.touched /\ impHistory'.unseen = impHistory.unseen
    BY <2>2, <2>3 DEF Histories, Results, Recorded, Content
  <2>8. ImpTyped'
    BY <2>4, <2>5, <2>7 DEF ImpInv, ImpTyped
  <2>9. Evaluated'
    BY <2>3, <2>4, <2>5, <2>7 DEF ImpInv, Evaluated, Frozen, Content
  <2>10. Frozen'
    BY <2>4, <2>5 DEF ImpInv, Frozen
  <2>11. ASSUME NEW a \in Approvers PROVE ApprovalFound(a)'
    BY <2>5, <2>6 DEF NoneYet, ApprovalFound
  <2>12. AppliedOnce'
    BY <2>5, <2>6, <2>7 DEF ImpInv, NoneYet, AppliedOnce
  <2>13. ReviewPinned'
    BY <2>5, <2>7 DEF ImpInv, ReviewPinned, UnderWay
  <2>14. QED
    BY <2>8, <2>9, <2>10, <2>11, <2>12, <2>13 DEF ImpInv
<1>2. CASE ~(checks_passed(impReport) /\ ~impReport.evaluations)
  <2>1. Pipeline("evaluate", "over", impReport) /\ UNCHANGED impHistory
    BY <1>2 DEF CandidateBehavior
  <2>2. impReport \in ImpReports
    BY DEF ImpInv, ImpTyped
  <2>3. impReport.behavior # "passed"
    BY <2>1, NotYet DEF Pipeline, NoneYet
  <2>4. Frozen'
    BY <2>1 DEF ImpInv, Frozen, Pipeline
  <2>5. QED
    BY <2>1, <2>2, <2>3, <2>4, PipelineKeeps
<1>3. QED
  BY <1>1, <1>2

LEMMA ExperimentStopsKeeps == ImpInv /\ ExperimentStops => ImpInv'
<1> SUFFICES ASSUME ImpInv, ExperimentStops PROVE ImpInv'
  OBVIOUS
<1>1. Pipeline(impStep, "over", impReport) /\ UNCHANGED impHistory /\ impStep # "over"
  BY DEF ExperimentStops
<1>2. impReport \in ImpReports
  BY DEF ImpInv, ImpTyped
<1>3. impReport.behavior # "passed"
  BY <1>1, NotYet DEF NoneYet
<1>4. Frozen'
  BY <1>1 DEF ImpInv, Frozen, Pipeline
<1>5. QED
  BY <1>1, <1>2, <1>3, <1>4, PipelineKeeps
-----------------------------------------------------------------------------
LEMMA ReviewKeeps == ImpInv /\ Review => ImpInv'
BY DEF Review, ImpInv, ImpTyped, Evaluated, Frozen, ApprovalFound, AppliedOnce, ReviewPinned,
       UnderWay, acceptable, checks_passed, semantic_status, ImpReports,
       Histories, Results, Content, Recorded, Kept, Live

(* An approval that begins while none is under way and nothing was applied *)
(* forgets what was touched before; the pin of the review is then the one  *)
(* the command compares with.                                              *)
LEMMA ApproveReviewedKeeps == ASSUME NEW a \in Approvers, ImpInv, ApproveReviewed(a) PROVE ImpInv'
<1>1. PICK id \in BOOLEAN :
        /\ ~id => impReviewed = [report |-> impReport, patch |-> impFiles["patch"]]
        /\ impHistory' = [impHistory EXCEPT !.unseen = @ \/ id,
                             !.touched = @ /\ (impHistory.times > 0 \/ UnderWay)]
  BY DEF ApproveReviewed, UnderWay
<1>2. /\ impApprovals[a] = "idle" /\ impApprovals' = [impApprovals EXCEPT ![a] = "report"]
      /\ UNCHANGED <<impStep, impReport, impReviewed, impFiles>>
  BY DEF ApproveReviewed, Approving
<1>3. impHistory \in Histories /\ impHistory.times \in {0, 1}
  BY DEF ImpInv, ImpTyped, AppliedOnce
<1>4. /\ impHistory' \in Histories
      /\ impHistory'.tested = impHistory.tested /\ impHistory'.applied = impHistory.applied
      /\ impHistory'.times = impHistory.times
      /\ impHistory'.unseen <=> (impHistory.unseen \/ id)
      /\ impHistory'.touched <=> (impHistory.touched /\ (impHistory.times = 1 \/ UnderWay))
  <2>1. impHistory.times > 0 <=> impHistory.times = 1
    BY <1>3
  <2>2. QED
    BY <1>1, <1>3, <2>1, Zenon DEF Histories
<1>5. ~impHistory'.touched => ~impHistory.touched \/ (impHistory.times = 0 /\ ~UnderWay)
  BY <1>3, <1>4
<1>6. ASSUME NEW b \in Approvers
      PROVE  impApprovals'[b] = IF b = a THEN "report" ELSE impApprovals[b]
  BY <1>2 DEF ImpInv, ImpTyped
<1>7. ImpTyped'
  BY <1>2, <1>4 DEF ImpInv, ImpTyped
<1>8. Evaluated' /\ Frozen'
  BY <1>2, <1>4 DEF ImpInv, Evaluated, Frozen
<1>9. ASSUME NEW b \in Approvers PROVE ApprovalFound(b)'
  <2>1. CASE b = a
    BY <1>6, <2>1 DEF ApprovalFound
  <2>2. CASE b # a
    <3>1. impApprovals'[b] = impApprovals[b]
      BY <1>6, <2>2
    <3>2. impApprovals[b] # "idle" => UnderWay
      BY DEF UnderWay
    <3>3. QED
      BY <1>2, <1>4, <1>5, <3>1, <3>2 DEF ImpInv, ApprovalFound
  <2>3. QED
    BY <2>1, <2>2
<1>10. AppliedOnce'
  BY <1>2, <1>3, <1>4, <1>5 DEF ImpInv, AppliedOnce
<1>11. ReviewPinned'
  BY <1>1, <1>2, <1>4, <1>5 DEF ImpInv, ReviewPinned
<1>12. QED
  BY <1>7, <1>8, <1>9, <1>10, <1>11 DEF ImpInv

LEMMA ApproveReportKeeps == ASSUME NEW a \in Approvers, ImpInv, ApproveReport(a) PROVE ImpInv'
BY DEF ApproveReport, Approving, ImpInv, ImpTyped, Evaluated, Frozen, ApprovalFound,
       AppliedOnce, ReviewPinned, UnderWay, acceptable, checks_passed, semantic_status,
       ImpReports, Histories, Results, Content, Recorded, Kept, Live

(* What is compared with the report is what was evaluated.                 *)
LEMMA ApproveFilesKeeps == ASSUME NEW a \in Approvers, ImpInv, ApproveFiles(a) PROVE ImpInv'
BY DEF ApproveFiles, Approving, ImpInv, ImpTyped, Evaluated, Frozen, ApprovalFound,
       AppliedOnce, ReviewPinned, UnderWay, acceptable, checks_passed, semantic_status,
       ImpReports, Histories, Results, Content, Recorded, Kept, Live

(* The source takes the patch once, so this is the first time.             *)
LEMMA ApplyPatchKeeps == ASSUME NEW a \in Approvers, ImpInv, ApplyPatch(a) PROVE ImpInv'
<1>1. /\ impFiles["source"] # "patched" /\ impFiles' = [impFiles EXCEPT !["source"] = "patched"]
      /\ impApprovals[a] = "apply" /\ impApprovals' = [impApprovals EXCEPT ![a] = "install"]
      /\ UNCHANGED <<impStep, impReport, impReviewed>>
  BY DEF ApplyPatch, Approving
<1>2. impHistory \in Histories /\ impFiles["patch"] \in Content /\ impHistory.times = 0
  BY <1>1 DEF ImpInv, ImpTyped, AppliedOnce, Kept
<1>3. /\ impHistory' \in Histories
      /\ impHistory'.tested = impHistory.tested /\ impHistory'.times = 1
      /\ impHistory'.applied.review = impFiles["patch"]
      /\ impHistory'.applied.proposals = impHistory.applied.proposals
      /\ impHistory'.touched = impHistory.touched /\ impHistory'.unseen = impHistory.unseen
  <2> DEFINE applied == [impHistory.applied EXCEPT !.review = impFiles["patch"]]
  <2>1. impHistory' = [impHistory EXCEPT !.applied = applied, !.times = @ + 1]
    BY DEF ApplyPatch
  <2>2. impHistory.applied \in Results
    BY <1>2 DEF Histories
  <2>3. /\ applied \in Results /\ applied.review = impFiles["patch"]
        /\ applied.proposals = impHistory.applied.proposals
    BY <1>2, <2>2 DEF Results, Recorded, Content
  <2> HIDE DEF applied
  <2>4. impHistory' = [impHistory EXCEPT !.applied = applied, !.times = 1]
    BY <1>2, <2>1
  <2>5. impHistory' \in Histories
    BY <1>2, <2>3, <2>4 DEF Histories
  <2>6. QED
    BY <1>2, <2>3, <2>4 DEF Histories
<1>4. /\ impFiles' \in [Live \union Kept -> {"v0", "v1", "patched"}]
      /\ impFiles'["source"] = "patched" /\ \A f \in Kept : impFiles'[f] = impFiles[f]
  BY <1>1 DEF ImpInv, ImpTyped, Live, Kept
<1>5. /\ impApprovals' \in
           [Approvers -> {"idle", "report", "files", "apply", "install", "approved"}]
      /\ impApprovals'[a] = "install"
      /\ \A b \in Approvers : b # a => impApprovals'[b] = impApprovals[b]
  BY <1>1 DEF ImpInv, ImpTyped
<1>6. acceptable(impReport) /\ UnderWay
  BY <1>1 DEF ImpInv, ApprovalFound, UnderWay
<1>7. ImpTyped'
  BY <1>1, <1>3, <1>4, <1>5 DEF ImpInv, ImpTyped
<1>8. Evaluated' /\ Frozen'
  BY <1>1, <1>3, <1>4 DEF ImpInv, Evaluated, Frozen, Kept
<1>9. ASSUME NEW b \in Approvers PROVE ApprovalFound(b)'
  BY <1>1, <1>2, <1>3, <1>4, <1>5, <1>6
     DEF ImpInv, ApprovalFound, Kept, acceptable, checks_passed, semantic_status
<1>10. AppliedOnce'
  BY <1>1, <1>2, <1>3, <1>4, <1>6
     DEF ImpInv, ApprovalFound, AppliedOnce, Kept, Content, acceptable, checks_passed,
         semantic_status
<1>11. ReviewPinned'
  BY <1>1, <1>3, <1>4, <1>6 DEF ImpInv, ReviewPinned, Kept
<1>12. QED
  BY <1>7, <1>8, <1>9, <1>10, <1>11 DEF ImpInv

LEMMA InstallSkillsKeeps == ASSUME NEW a \in Approvers, ImpInv, InstallSkills(a) PROVE ImpInv'
BY DEF InstallSkills, Approving, ImpInv, ImpTyped, Evaluated, Frozen, ApprovalFound,
       AppliedOnce, ReviewPinned, UnderWay, acceptable, checks_passed, semantic_status,
       ImpReports, Histories, Results, Content, Recorded, Kept, Live

LEMMA ApproveStopsKeeps == ASSUME NEW a \in Approvers, ImpInv, ApproveStops(a) PROVE ImpInv'
BY DEF ApproveStops, Approving, ImpInv, ImpTyped, Evaluated, Frozen, ApprovalFound,
       AppliedOnce, ReviewPinned, UnderWay, acceptable, checks_passed, semantic_status,
       ImpReports, Histories, Results, Content, Recorded, Kept, Live

(* A file of the experiment that changes is touched, and no file turns     *)
(* back to what it was.                                                    *)
LEMMA ChangeKeeps == ASSUME NEW f \in DOMAIN impFiles, ImpInv, Change(f) PROVE ImpInv'
<1>1. /\ impFiles[f] = "v0" /\ impFiles' = [impFiles EXCEPT ![f] = "v1"]
      /\ f \in Kept => impStep \notin {"baseline", "behavior", "agent"}
      /\ UNCHANGED <<impStep, impReport, impReviewed, impApprovals>>
  BY DEF Change
<1>2. impHistory \in Histories
  BY DEF ImpInv, ImpTyped
<1>3. /\ impHistory' \in Histories
      /\ impHistory'.tested = impHistory.tested /\ impHistory'.applied = impHistory.applied
      /\ impHistory'.times = impHistory.times /\ impHistory'.unseen = impHistory.unseen
      /\ impHistory'.touched <=> (impHistory.touched \/ f \in Kept)
  BY <1>2, Zenon DEF Change, Histories
<1>4. /\ impFiles' \in [Live \union Kept -> {"v0", "v1", "patched"}]
      /\ \A g \in Live \union Kept : impFiles'[g] = IF g = f THEN "v1" ELSE impFiles[g]
  BY <1>1 DEF ImpInv, ImpTyped
<1>5. ImpTyped'
  BY <1>1, <1>3, <1>4 DEF ImpInv, ImpTyped, Content, Kept
<1>6. Evaluated' /\ Frozen'
  BY <1>1, <1>3, <1>4 DEF ImpInv, Evaluated, Frozen, Kept
<1>7. ~impHistory'.touched =>
        ~impHistory.touched /\ \A g \in Kept : impFiles'[g] = impFiles[g]
  BY <1>3, <1>4
<1>8. ASSUME NEW b \in Approvers PROVE ApprovalFound(b)'
  BY <1>1, <1>3, <1>7 DEF ImpInv, ApprovalFound, Kept
<1>9. impFiles'["source"] = "patched" <=> impFiles["source"] = "patched"
  BY <1>1, <1>4 DEF Live
<1>10. AppliedOnce'
  BY <1>1, <1>3, <1>7, <1>9 DEF ImpInv, AppliedOnce, Kept
<1>11. ReviewPinned'
  BY <1>1, <1>3, <1>7 DEF ImpInv, ReviewPinned, UnderWay, Kept
<1>12. QED
  BY <1>5, <1>6, <1>8, <1>10, <1>11 DEF ImpInv
-----------------------------------------------------------------------------
LEMMA ImpStepKeeps == ImpInv /\ [ImpNext]_impVars => ImpInv'
<1> SUFFICES ASSUME ImpInv, [ImpNext]_impVars PROVE ImpInv'
  OBVIOUS
<1>1. CASE UNCHANGED impVars
  BY <1>1 DEF impVars, ImpInv, ImpTyped, Evaluated, Frozen, ApprovalFound, AppliedOnce,
              ReviewPinned, UnderWay, acceptable, checks_passed, semantic_status, ImpReports,
              Histories, Results, Content, Recorded, Kept, Live
<1>2. CASE \E a \in Approvers :
             \/ ApproveReviewed(a) \/ ApproveReport(a) \/ ApproveFiles(a)
             \/ ApplyPatch(a) \/ InstallSkills(a) \/ ApproveStops(a)
  BY <1>2, ApproveReviewedKeeps, ApproveReportKeeps, ApproveFilesKeeps, ApplyPatchKeeps,
     InstallSkillsKeeps, ApproveStopsKeeps
<1>3. QED
  BY <1>1, <1>2, BaselineKeeps, BaselineBehaviorKeeps, AgentRunsKeeps, CandidateChecksKeeps,
     CandidateBehaviorKeeps, ExperimentStopsKeeps, ReviewKeeps, ChangeKeeps DEF ImpNext

LEMMA ImpHolds == ImpInv => ImpTypeOK /\ AppliedIsTested
<1> SUFFICES ASSUME ImpInv PROVE ImpTypeOK /\ AppliedIsTested
  OBVIOUS
<1>1. AppliedIsTested
  BY DEF ImpInv, ImpTyped, Evaluated, AppliedOnce, ReviewPinned, AppliedIsTested, acceptable,
         semantic_status
<1>2. ImpTypeOK
  <2>1. impHistory.times \in Nat
    BY DEF ImpInv, ImpTyped, Histories
  <2> QED
    BY <2>1 DEF ImpInv, ImpTyped, ImpTypeOK
<1> QED
  BY <1>1, <1>2

(* Whatever changes while a result is evaluated, reviewed and approved,    *)
(* what an approval applies is what was tested and, without an id,         *)
(* reviewed, unless a file of the experiment changed under the approval    *)
(* itself; and it is applied once (improve/review.rs).                     *)
THEOREM AppliedWasTested == ImpSpec => []AppliedIsTested
BY ImpInitInv, ImpStepKeeps, ImpHolds, PTL DEF ImpSpec
-----------------------------------------------------------------------------
(* Plugins.  Only what a person was shown runs, for any layout of plugins, *)
(* any contents and any number of edits.                                   *)
PluginShown(n, plugin) == <<Layout[plugin.place], plugin.pinned>> \in described[n]

(* A grant in the file, or on its way there, is for what was shown.        *)
GrantsInv ==
  /\ DOMAIN grants = PluginNames /\ DOMAIN described = PluginNames
  /\ \A n \in PluginNames : grants[n] # NoGrant => grants[n] \in described[n]
  /\ DOMAIN command = {"step", "name", "pinned", "read"}
  /\ command.step = "shown" => /\ command.name \in PluginNames
                               /\ command.pinned \in described[command.name]
  /\ command.step = "saves" =>
       /\ DOMAIN command.read = PluginNames
       /\ \A n \in PluginNames : command.read[n] # NoGrant => command.read[n] \in described[n]

(* What an agent was built from is what was approved when it was; and what *)
(* its tools are and ran is what was pinned then, unless the plugin is a   *)
(* portable one.                                                           *)
BuiltInv ==
  /\ DOMAIN catalog = PluginNames /\ DOMAIN loaded = PluginNames /\ DOMAIN ran = PluginNames
  /\ ~trusting => \A n \in PluginNames : catalog[n].approved => PluginShown(n, catalog[n])
  /\ agentBuild # "built" => \A n \in PluginNames : loaded[n] = 0 /\ ran[n] = 0
  /\ \A n \in PluginNames :
       /\ catalog[n].approved => catalog[n].place \in PluginPlaces
       /\ loaded[n] # 0 => catalog[n].approved
       /\ ran[n] # 0 => catalog[n].approved
       /\ loaded[n] # 0 /\ Runtime(n) # "portable" => loaded[n] = catalog[n].pinned.artifact
       /\ ran[n] # 0 /\ Runtime(n) # "portable" => ran[n] = catalog[n].pinned.artifact

PluginsInv == GrantsInv /\ BuiltInv
-----------------------------------------------------------------------------
(* What a discovery approves, the name's grant is for.                     *)
LEMMA DiscoveredIsGranted ==
  ASSUME NEW n \in PluginNames
  PROVE  discovered[n].approved =>
           /\ discovered[n] # NoPlugin
           /\ grants[n] # NoGrant
           /\ grants[n] = <<Layout[discovered[n].place], discovered[n].pinned>>
<1> DEFINE roots == {place \in PluginPlaces : place[2] = n /\ Found(place)}
           last == CHOOSE place \in roots : \A other \in roots : other[1] <= place[1]
<1>1. discovered[n] =
        IF roots = {} THEN NoPlugin
        ELSE [place |-> last, pinned |-> plugged[last], approved |-> grants[n] = fingerprint(last)]
  BY DEF discovered
<1>2. CASE roots = {}
  BY <1>1, <1>2 DEF NoPlugin
<1>3. CASE roots # {}
  <2>1. last \in roots
    <3>1. roots \in SUBSET PluginPlaces
      OBVIOUS
    <3>2. PICK p \in roots : \A other \in roots : other[1] <= p[1]
      BY <1>3, <3>1, LayoutAssumption
    <3>3. QED
      BY <3>2
  <2>2. plugged[last] # NoContent
    BY <2>1 DEF Found
  <2> HIDE DEF last
  <2>3. discovered[n] =
          [place |-> last, pinned |-> plugged[last], approved |-> grants[n] = fingerprint(last)]
    BY <1>1, <1>3
  <2>4. discovered[n] # NoPlugin
    BY <2>2, <2>3 DEF NoPlugin
  <2>5. fingerprint(last) # NoGrant /\ fingerprint(last) = <<Layout[last], plugged[last]>>
    BY <2>2 DEF fingerprint, NoGrant
  <2>6. discovered[n].approved = (grants[n] = fingerprint(last))
    BY <2>3
  <2>7. discovered[n].place = last /\ discovered[n].pinned = plugged[last]
    BY <2>3
  <2>8. QED
    BY <2>4, <2>5, <2>6, <2>7
<1>4. QED
  BY <1>2, <1>3

LEMMA PluginsInitInv == PluginsInit => PluginsInv
BY DEF PluginsInit, PluginsInv, GrantsInv, BuiltInv, NoPluginCommand, Unplugged, NoPlugin,
       PluginShown

LEMMA EditedKeeps == PluginsInv /\ PluginEdited => PluginsInv'
BY DEF PluginsInv, GrantsInv, BuiltInv, PluginShown, Runtime, PluginEdited

(* What is shown joins what was shown.                                     *)
LEMMA ShowsKeeps == PluginsInv /\ ShowsPlugin => PluginsInv'
<1> SUFFICES ASSUME PluginsInv, ShowsPlugin PROVE PluginsInv'
  OBVIOUS
<1>1. PICK n \in PluginNames :
        /\ command' = [NoPluginCommand EXCEPT !.step = "shown", !.name = n,
                         !.pinned = <<Layout[discovered[n].place], discovered[n].pinned>>]
        /\ described' = [described EXCEPT ![n] =
                           @ \union {<<Layout[discovered[n].place], discovered[n].pinned>>}]
  BY DEF ShowsPlugin
<1>2. UNCHANGED <<plugged, edits, grants, agentBuild, catalog, trusting, loaded, ran>>
  BY DEF ShowsPlugin
<1> DEFINE new == <<Layout[discovered[n].place], discovered[n].pinned>>
<1>3. /\ DOMAIN command' = {"step", "name", "pinned", "read"}
      /\ command'.step = "shown" /\ command'.name = n /\ command'.pinned = new
  BY <1>1 DEF NoPluginCommand
<1> HIDE DEF new
<1>4. /\ DOMAIN described' = PluginNames
      /\ \A m \in PluginNames : described[m] \subseteq described'[m]
      /\ new \in described'[n]
  BY <1>1 DEF PluginsInv, GrantsInv, new
<1>5. GrantsInv'
  BY <1>2, <1>3, <1>4 DEF PluginsInv, GrantsInv
<1>6. BuiltInv'
  BY <1>2, <1>4 DEF PluginsInv, BuiltInv, PluginShown, Runtime
<1>7. QED
  BY <1>5, <1>6 DEF PluginsInv

(* What a discovery finds is at one of the places.                         *)
LEMMA DiscoveredIsFound ==
  ASSUME NEW n \in PluginNames, discovered[n] # NoPlugin
  PROVE  discovered[n].place \in PluginPlaces
<1> DEFINE roots == {place \in PluginPlaces : place[2] = n /\ Found(place)}
           last == CHOOSE place \in roots : \A other \in roots : other[1] <= place[1]
<1>1. discovered[n] =
        IF roots = {} THEN NoPlugin
        ELSE [place |-> last, pinned |-> plugged[last], approved |-> grants[n] = fingerprint(last)]
  BY DEF discovered
<1>2. roots # {} /\ roots \in SUBSET PluginPlaces
  BY <1>1
<1>3. PICK p \in roots : \A other \in roots : other[1] <= p[1]
  BY <1>2, LayoutAssumption
<1>4. last \in PluginPlaces
  BY <1>2, <1>3
<1> HIDE DEF last
<1> QED
  BY <1>1, <1>2, <1>4

(* A command grants what it showed.                                        *)
LEMMA CommandKeeps == PluginsInv /\ (approve_with \/ revoke_with \/ GrantsSaved) => PluginsInv'
<1> SUFFICES ASSUME PluginsInv, approve_with \/ revoke_with \/ GrantsSaved PROVE PluginsInv'
  OBVIOUS
<1>1. BuiltInv'
  BY DEF PluginsInv, BuiltInv, PluginShown, Runtime, approve_with, revoke_with, GrantsSaved
<1>2. GrantsInv'
  <2>1. CASE approve_with
    <3> DEFINE read == [grants EXCEPT ![command.name] = command.pinned]
    <3>1. command.step = "shown" /\ command' = [command EXCEPT !.step = "saves", !.read = read]
      BY <2>1 DEF approve_with
    <3>2. /\ DOMAIN read = PluginNames
          /\ \A n \in PluginNames : read[n] # NoGrant => read[n] \in described[n]
      BY <3>1 DEF PluginsInv, GrantsInv
    <3> HIDE DEF read
    <3>3. DOMAIN command' = DOMAIN command /\ command'.step = "saves" /\ command'.read = read
      BY <3>1 DEF PluginsInv, GrantsInv
    <3>4. QED
      BY <2>1, <3>2, <3>3 DEF PluginsInv, GrantsInv, approve_with
  <2>2. CASE revoke_with
    <3>1. PICK n \in PluginNames : command' = [NoPluginCommand EXCEPT !.step = "saves", !.name = n,
                                                 !.read = [grants EXCEPT ![n] = NoGrant]]
      BY <2>2 DEF revoke_with
    <3> DEFINE read == [grants EXCEPT ![n] = NoGrant]
    <3>2. /\ DOMAIN read = PluginNames
          /\ \A m \in PluginNames : read[m] # NoGrant => read[m] \in described[m]
      BY DEF PluginsInv, GrantsInv
    <3>3. command' = [NoPluginCommand EXCEPT !.step = "saves", !.name = n, !.read = read]
      BY <3>1
    <3> HIDE DEF read
    <3>4. /\ DOMAIN command' = {"step", "name", "pinned", "read"}
          /\ command'.step = "saves" /\ command'.read = read
      BY <3>3 DEF NoPluginCommand
    <3>5. QED
      BY <2>2, <3>2, <3>4 DEF PluginsInv, GrantsInv, revoke_with
  <2>3. CASE GrantsSaved
    BY <2>3 DEF PluginsInv, GrantsInv, GrantsSaved, NoPluginCommand
  <2>4. QED
    BY <2>1, <2>2, <2>3
<1>3. QED
  BY <1>1, <1>2 DEF PluginsInv

LEMMA DiscoversKeeps == PluginsInv /\ AgentDiscovers => PluginsInv'
<1> SUFFICES ASSUME PluginsInv, AgentDiscovers PROVE PluginsInv'
  OBVIOUS
<1>1. PICK yeet \in BOOLEAN :
        /\ trusting' = yeet
        /\ catalog' = [n \in PluginNames |-> [discovered[n] EXCEPT
                         !.approved = @ \/ (yeet /\ discovered[n] # NoPlugin)]]
  BY DEF AgentDiscovers
<1>2. /\ agentBuild' = "discovered" /\ UNCHANGED <<plugged, edits, grants, command, described>>
      /\ loaded' = [n \in PluginNames |-> 0] /\ ran' = [n \in PluginNames |-> 0]
  BY DEF AgentDiscovers
<1>3. GrantsInv'
  BY <1>2 DEF PluginsInv, GrantsInv
<1>4. ASSUME NEW n \in PluginNames, ~trusting', catalog'[n].approved
      PROVE  PluginShown(n, catalog[n])'
  <2>1. catalog'[n] = [discovered[n] EXCEPT !.approved = discovered[n].approved \/ FALSE]
    BY <1>1, <1>4
  <2>2. /\ catalog'[n].place = discovered[n].place /\ catalog'[n].pinned = discovered[n].pinned
        /\ catalog'[n].approved = (discovered[n].approved \/ FALSE)
    BY <2>1 DEF discovered, NoPlugin
  <2>3. discovered[n].approved
    BY <1>4, <2>2
  <2>4. grants[n] = <<Layout[catalog'[n].place], catalog'[n].pinned>> /\ grants[n] # NoGrant
    BY <2>2, <2>3, DiscoveredIsGranted
  <2>5. QED
    BY <1>2, <2>4 DEF PluginsInv, GrantsInv, PluginShown
<1>5. ASSUME NEW n \in PluginNames, catalog'[n].approved
      PROVE  catalog'[n].place \in PluginPlaces
  <2>1. PICK all \in BOOLEAN :
          catalog'[n] = [discovered[n] EXCEPT
                           !.approved = discovered[n].approved \/ (all /\ discovered[n] # NoPlugin)]
    BY <1>1
  <2>2. /\ catalog'[n].place = discovered[n].place
        /\ catalog'[n].approved = (discovered[n].approved \/ (all /\ discovered[n] # NoPlugin))
    BY <2>1 DEF discovered, NoPlugin
  <2>3. discovered[n] # NoPlugin
    BY <1>5, <2>2, DiscoveredIsGranted
  <2>4. QED
    BY <2>2, <2>3, DiscoveredIsFound
<1>6. BuiltInv'
  BY <1>1, <1>2, <1>4, <1>5 DEF BuiltInv
<1>7. QED
  BY <1>3, <1>6 DEF PluginsInv

(* Loading checks a plugin with tools again, or takes what was pinned.     *)
LEMMA BuiltKeeps == PluginsInv /\ AgentBuilt => PluginsInv'
<1> SUFFICES ASSUME PluginsInv, AgentBuilt PROVE PluginsInv'
  OBVIOUS
<1> DEFINE approved == {n \in PluginNames : catalog[n].approved}
<1>1. /\ agentBuild = "discovered"
      /\ UNCHANGED <<plugged, edits, grants, command, trusting, ran, described>>
  BY DEF AgentBuilt
<1>2. GrantsInv'
  BY <1>1 DEF PluginsInv, GrantsInv
<1>3. BuiltInv'
  <2>1. CASE agentBuild' = "none" /\ catalog' = Unplugged /\ UNCHANGED loaded
    BY <1>1, <2>1 DEF PluginsInv, BuiltInv, Unplugged, NoPlugin
  <2>2. CASE /\ agentBuild' = "built" /\ UNCHANGED catalog
             /\ loaded' = [n \in PluginNames |-> IF n \in approved THEN Loads(n) ELSE 0]
    <3>1. ASSUME NEW n \in PluginNames, loaded'[n] # 0
          PROVE  catalog[n].approved /\ (Runtime(n) # "portable" => loaded'[n] = catalog[n].pinned.artifact)
      BY <2>2, <3>1 DEF Loads
    <3>2. QED
      BY <1>1, <2>2, <3>1 DEF PluginsInv, BuiltInv, PluginShown, Runtime
  <2>3. QED
    BY <2>1, <2>2 DEF AgentBuilt
<1>4. QED
  BY <1>2, <1>3 DEF PluginsInv

LEMMA RunsKeeps == PluginsInv /\ ToolRuns => PluginsInv'
<1> SUFFICES ASSUME PluginsInv, ToolRuns PROVE PluginsInv'
  OBVIOUS
<1>1. PICK n \in PluginNames : loaded[n] # 0 /\ \E content \in MayRun(n) : ran' = [ran EXCEPT ![n] = content]
  BY DEF ToolRuns
<1>2. PICK content \in MayRun(n) : ran' = [ran EXCEPT ![n] = content]
  BY <1>1
<1>3. Runtime(n) # "portable" => content = loaded[n]
  BY <1>2 DEF MayRun
<1>4. /\ agentBuild = "built"
      /\ UNCHANGED <<plugged, edits, grants, command, agentBuild, catalog, trusting, loaded,
                     described>>
  BY DEF ToolRuns
<1>5. GrantsInv'
  BY <1>4 DEF PluginsInv, GrantsInv
<1>6. BuiltInv'
  BY <1>1, <1>2, <1>3, <1>4 DEF PluginsInv, BuiltInv, PluginShown, Runtime
<1>7. QED
  BY <1>5, <1>6 DEF PluginsInv

LEMMA PluginsStepKeeps == PluginsInv /\ [PluginsNext]_pluginVars => PluginsInv'
<1>1. PluginsInv /\ UNCHANGED pluginVars => PluginsInv'
  BY DEF PluginsInv, GrantsInv, BuiltInv, PluginShown, Runtime, pluginVars
<1>2. QED
  BY <1>1, EditedKeeps, ShowsKeeps, CommandKeeps, DiscoversKeeps, BuiltKeeps, RunsKeeps
     DEF PluginsNext

(* What is in an artifact, or 0 where there is none.                       *)
Artifacts == Contents \union {0}

PluginTyped ==
  /\ edits \in 0 .. MaxEdits /\ trusting \in BOOLEAN
  /\ command.step \in {"none", "shown", "saves"} /\ agentBuild \in {"none", "discovered", "built"}
  /\ DOMAIN plugged = PluginPlaces
  /\ \A place \in PluginPlaces : plugged[place].artifact \in Artifacts
  /\ \A n \in PluginNames : /\ catalog[n].pinned.artifact \in Artifacts
                            /\ loaded[n] \in Artifacts /\ ran[n] \in Artifacts

PluginsTyped == PluginsInv /\ PluginTyped

LEMMA PluginsInitTyped == PluginsInit => PluginsTyped
<1> SUFFICES ASSUME PluginsInit PROVE PluginsTyped
  OBVIOUS
<1>1. PluginTyped
  <2>1. /\ plugged = [place \in PluginPlaces |-> [tree |-> 1, artifact |-> 1]]
        /\ edits = 0 /\ command = NoPluginCommand /\ agentBuild = "none" /\ catalog = Unplugged
        /\ trusting = FALSE /\ loaded = [n \in PluginNames |-> 0] /\ ran = [n \in PluginNames |-> 0]
    BY DEF PluginsInit
  <2>2. 0 \in 0 .. MaxEdits /\ 0 \in Artifacts /\ 1 \in Artifacts
    BY EditsAssumption DEF Artifacts
  <2>3. command.step = "none"
    BY <2>1 DEF NoPluginCommand
  <2>4. \A n \in PluginNames : catalog[n].pinned.artifact = 0
    BY <2>1 DEF Unplugged, NoPlugin, NoContent
  <2>5. DOMAIN plugged = PluginPlaces /\ \A place \in PluginPlaces : plugged[place].artifact = 1
    BY <2>1
  <2> QED
    BY <2>1, <2>2, <2>3, <2>4, <2>5 DEF PluginTyped
<1> QED
  BY <1>1, PluginsInitInv DEF PluginsTyped

LEMMA DiscoveredTyped ==
  ASSUME NEW n \in PluginNames, PluginTyped
  PROVE  discovered[n].pinned.artifact \in Artifacts
<1> DEFINE roots == {place \in PluginPlaces : place[2] = n /\ Found(place)}
           last == CHOOSE place \in roots : \A other \in roots : other[1] <= place[1]
<1>1. discovered[n] =
        IF roots = {} THEN NoPlugin
        ELSE [place |-> last, pinned |-> plugged[last], approved |-> grants[n] = fingerprint(last)]
  BY DEF discovered
<1>2. CASE roots = {}
  BY <1>1, <1>2 DEF NoPlugin, NoContent, Artifacts
<1>3. CASE roots # {}
  <2>1. last \in roots
    <3>1. roots \in SUBSET PluginPlaces
      OBVIOUS
    <3>2. PICK p \in roots : \A other \in roots : other[1] <= p[1]
      BY <1>3, <3>1, LayoutAssumption
    <3> QED
      BY <3>2
  <2>2. last \in PluginPlaces
    BY <2>1
  <2> HIDE DEF last
  <2>3. discovered[n].pinned = plugged[last]
    BY <1>1, <1>3
  <2> QED
    BY <2>2, <2>3 DEF PluginTyped
<1> QED
  BY <1>2, <1>3

LEMMA PluginsTypedStep == PluginsTyped /\ [PluginsNext]_pluginVars => PluginsTyped'
<1> SUFFICES ASSUME PluginsTyped, [PluginsNext]_pluginVars PROVE PluginsTyped'
  OBVIOUS
<1>0. PluginsInv /\ PluginTyped /\ PluginsInv'
  BY PluginsStepKeeps DEF PluginsTyped
<1>1. CASE PluginEdited
  <2>1. PICK place \in PluginPlaces : \E files \in PluginFiles(place) \union {NoContent} :
           plugged' = [plugged EXCEPT ![place] = files]
    BY <1>1 DEF PluginEdited
  <2>2. PICK files \in PluginFiles(place) \union {NoContent} :
           plugged' = [plugged EXCEPT ![place] = files]
    BY <2>1
  <2>3. files.artifact \in Artifacts
    BY DEF PluginFiles, NoContent, Artifacts
  <2>4. /\ edits < MaxEdits /\ edits' = edits + 1
        /\ UNCHANGED <<grants, command, agentBuild, catalog, trusting, loaded, ran, described>>
    BY <1>1 DEF PluginEdited
  <2> QED
    BY <1>0, <2>2, <2>3, <2>4, EditsAssumption DEF PluginTyped, PluginsTyped
<1>2. CASE ShowsPlugin \/ approve_with \/ revoke_with \/ GrantsSaved
  <2>1. UNCHANGED <<plugged, edits, agentBuild, catalog, trusting, loaded, ran>>
    BY <1>2 DEF ShowsPlugin, approve_with, revoke_with, GrantsSaved
  <2>2. command'.step \in {"none", "shown", "saves"}
    <3>1. CASE ShowsPlugin
      BY <3>1 DEF ShowsPlugin, NoPluginCommand
    <3>2. CASE approve_with
      <4>1. "step" \in DOMAIN command
        BY <1>0 DEF PluginsInv, GrantsInv
      <4> QED
        BY <3>2, <4>1 DEF approve_with
    <3>3. CASE revoke_with
      BY <3>3 DEF revoke_with, NoPluginCommand
    <3>4. CASE GrantsSaved
      BY <3>4 DEF GrantsSaved, NoPluginCommand
    <3> QED
      BY <1>2, <3>1, <3>2, <3>3, <3>4
  <2> QED
    BY <1>0, <2>1, <2>2 DEF PluginTyped, PluginsTyped
<1>3. CASE AgentDiscovers
  <2>1. PICK yeet \in BOOLEAN :
          /\ trusting' = yeet
          /\ catalog' = [n \in PluginNames |-> [discovered[n] EXCEPT
                           !.approved = @ \/ (yeet /\ discovered[n] # NoPlugin)]]
    BY <1>3 DEF AgentDiscovers
  <2>2. /\ agentBuild' = "discovered" /\ UNCHANGED <<plugged, edits, grants, command, described>>
        /\ loaded' = [n \in PluginNames |-> 0] /\ ran' = [n \in PluginNames |-> 0]
    BY <1>3 DEF AgentDiscovers
  <2>3. ASSUME NEW n \in PluginNames
        PROVE  catalog'[n].pinned.artifact \in Artifacts
    <3>1. catalog'[n].pinned = discovered[n].pinned
      BY <2>1 DEF discovered, NoPlugin
    <3> QED
      BY <1>0, <3>1, DiscoveredTyped
  <2> QED
    BY <1>0, <2>1, <2>2, <2>3 DEF PluginTyped, PluginsTyped, Artifacts
<1>4. CASE AgentBuilt
  <2> DEFINE approved == {n \in PluginNames : catalog[n].approved}
  <2>1. UNCHANGED <<plugged, edits, grants, command, trusting, ran, described>>
    BY <1>4 DEF AgentBuilt
  <2>2. \/ agentBuild' = "none" /\ catalog' = Unplugged /\ UNCHANGED loaded
        \/ /\ agentBuild' = "built" /\ UNCHANGED catalog
           /\ loaded' = [n \in PluginNames |-> IF n \in approved THEN Loads(n) ELSE 0]
    BY <1>4 DEF AgentBuilt
  <2>3. ASSUME NEW n \in approved PROVE Loads(n) \in Artifacts
    <3>1. Now(n) \in Artifacts /\ catalog[n].pinned.artifact \in Artifacts /\ 0 \in Artifacts
      BY <1>0 DEF PluginTyped, PluginsInv, BuiltInv, Now, Artifacts
    <3> QED
      BY <3>1 DEF Loads
  <2>4. 0 \in Artifacts /\ \A n \in PluginNames : Unplugged[n].pinned.artifact \in Artifacts
    BY DEF Artifacts, Unplugged, NoPlugin, NoContent
  <2> QED
    BY <1>0, <2>1, <2>2, <2>3, <2>4 DEF PluginTyped, PluginsTyped
<1>5. CASE ToolRuns
  <2>1. PICK n \in PluginNames : loaded[n] # 0 /\ \E content \in MayRun(n) : ran' = [ran EXCEPT ![n] = content]
    BY <1>5 DEF ToolRuns
  <2>2. PICK content \in MayRun(n) : ran' = [ran EXCEPT ![n] = content]
    BY <2>1
  <2>3. loaded[n] \in Artifacts /\ Now(n) \in Artifacts
    BY <1>0, <2>1 DEF PluginTyped, PluginsInv, BuiltInv, Now
  <2>4. content \in Artifacts
    BY <2>2, <2>3 DEF MayRun
  <2>5. UNCHANGED <<plugged, edits, grants, command, agentBuild, catalog, trusting, loaded, described>>
    BY <1>5 DEF ToolRuns
  <2> QED
    BY <1>0, <2>2, <2>4, <2>5 DEF PluginTyped, PluginsTyped, PluginsInv, BuiltInv
<1>6. CASE UNCHANGED pluginVars
  BY <1>0, <1>6 DEF PluginTyped, PluginsTyped, pluginVars
<1> QED
  BY <1>1, <1>2, <1>3, <1>4, <1>5, <1>6 DEF PluginsNext

LEMMA PluginsHold == PluginsTyped => PluginsTypeOK /\ ApprovedIsShown
<1> SUFFICES ASSUME PluginsTyped PROVE PluginsTypeOK /\ ApprovedIsShown
  OBVIOUS
<1>1. PluginsTypeOK
  BY DEF PluginsTyped, PluginTyped, PluginsTypeOK, Artifacts
<1>2. ApprovedIsShown
  <2>1. ASSUME NEW n \in PluginNames, grants[n] # NoGrant PROVE grants[n] \in described[n]
    BY <2>1 DEF PluginsTyped, PluginsInv, GrantsInv
  <2>2. ASSUME ~trusting, NEW n \in PluginNames, ran[n] # 0, Runtime(n) # "portable"
        PROVE  \E shown \in described[n] : shown[1] = Runtime(n) /\ shown[2].artifact = ran[n]
    <3>1. /\ ran[n] = catalog[n].pinned.artifact
          /\ <<Runtime(n), catalog[n].pinned>> \in described[n]
      BY <2>2 DEF PluginsTyped, PluginsInv, BuiltInv, PluginShown, Runtime
    <3> DEFINE shown == <<Runtime(n), catalog[n].pinned>>
    <3>2. shown[1] = Runtime(n) /\ shown[2].artifact = ran[n]
      BY <3>1
    <3> QED
      BY <3>1, <3>2
  <2>3. ASSUME ~trusting, NEW n \in PluginNames, catalog[n].approved
        PROVE  <<Runtime(n), catalog[n].pinned>> \in described[n]
    BY <2>3 DEF PluginsTyped, PluginsInv, BuiltInv, PluginShown, Runtime
  <2> QED
    BY <2>1, <2>2, <2>3 DEF ApprovedIsShown
<1> QED
  BY <1>1, <1>2

(* However plugins change between the listing, the grant, the next start   *)
(* and a call: a grant is for what was shown under that name, and an agent *)
(* that does not trust everything is built from plugins found as they were *)
(* shown, and runs of each bundle, component and process only that.  What a*)
(* portable plugin runs is not compared again and is not claimed here      *)
(* (plugin/catalog.rs).                                                    *)
THEOREM OnlyShownRuns == PluginsSpec => []ApprovedIsShown
BY PluginsInitTyped, PluginsTypedStep, PluginsHold, PTL DEF PluginsSpec
-----------------------------------------------------------------------------
(* SynapseLink.  A link is in both files or in neither, for any number of  *)
(* programs and calls.                                                     *)
LinkBusy(c) == linkCalls[c].step # "idle"

(* What a call that was alone so far has done, by the step it is at.       *)
Before(call) == linkFlags = call.at[1] /\ linkProfile = call.at[2]
Wants(call) ==
  /\ call.op = "connect" => call.flags.enabled /\ call.profile.synapse = "bridge"
  /\ call.op = "disconnect" => ~call.flags.enabled /\ call.profile.synapse = "absent"
LinkDone(call) ==
  CASE call.step = "load" ->
         /\ Before(call)
         /\ call.op = "connect" => call.flags.enabled
         /\ call.op = "disconnect" => ~call.flags.enabled
    [] call.step = "temp" -> Before(call) /\ call.found = call.at[2] /\ Wants(call)
    [] call.step = "rename" ->
         Before(call) /\ call.found = call.at[2] /\ Wants(call) /\ linkTemp = call.profile
    [] call.step = "config" ->
         IF call.op = "flags" THEN Before(call)
         ELSE /\ linkFlags = call.at[1] /\ call.found = call.at[2]
              /\ linkProfile = call.profile /\ Wants(call)
    [] call.step = "retemp" -> linkFlags \in {call.at[1], TornFlags} /\ call.found = call.at[2]
    [] call.step = "restore" ->
         linkFlags \in {call.at[1], TornFlags} /\ call.found = call.at[2] /\ linkTemp = call.found

(* What holds of a call under way.                                        *)
LinkCallInv(call) ==
  /\ DOMAIN call = {"op", "step", "flags", "found", "profile", "at", "alone"}
  /\ call.step \in {"load", "temp", "rename", "config", "retemp", "restore"}
  /\ call.op \in LinkOps
  /\ call.profile \in McpProfiles /\ call.found \in McpProfiles
  /\ call.op = "flags" => call.step = "config"
  /\ call.alone => LinkDone(call)

(* Only the call that began last, with nothing under way, can be alone.    *)
LinkInv ==
  /\ linkProfile \in McpProfiles
  /\ linkTemp \in McpProfiles \union {NoTemp}
  /\ DOMAIN linkCalls = Linkers
  /\ \A c \in Linkers : LinkBusy(c) =>
       /\ LinkCallInv(linkCalls[c])
       /\ linkCalls[c].alone => \A d \in Linkers : d # c => ~LinkBusy(d)
-----------------------------------------------------------------------------
LEMMA LinkInitInv == LinkInit => LinkInv
BY DEF LinkInit, LinkInv, LinkBusy, NoLink, McpProfiles, Entries

(* A call moves on, or ends.  No other call was alone then.                *)
LEMMA OneMoves ==
  ASSUME NEW c \in Linkers, NEW call, LinkInv, LinkBusy(c),
         linkCalls' = [linkCalls EXCEPT ![c] = call],
         linkProfile' \in McpProfiles, linkTemp' \in McpProfiles \union {NoTemp},
         call.step # "idle" => LinkCallInv(call)' /\ (call.alone => linkCalls[c].alone)
  PROVE  LinkInv'
<1>1. DOMAIN linkCalls' = Linkers /\ linkCalls'[c] = call
  BY DEF LinkInv
<1>2. ASSUME NEW d \in Linkers, d # c PROVE linkCalls'[d] = linkCalls[d]
  BY <1>2 DEF LinkInv
<1>3. ASSUME NEW d \in Linkers, LinkBusy(d)'
      PROVE  /\ LinkCallInv(linkCalls[d])'
             /\ linkCalls'[d].alone => \A e \in Linkers : e # d => ~LinkBusy(e)'
  <2>1. CASE d = c
    <3>1. call.step # "idle"
      BY <1>1, <1>3, <2>1 DEF LinkBusy
    <3>2. ASSUME call.alone, NEW e \in Linkers, e # c PROVE ~LinkBusy(e)'
      BY <3>1, <3>2, <1>2 DEF LinkInv, LinkBusy
    <3>3. LinkCallInv(linkCalls[d])'
      BY <1>1, <2>1, <3>1 DEF LinkCallInv, LinkDone, Before, Wants
    <3>4. QED
      BY <1>1, <2>1, <3>2, <3>3
  <2>2. CASE d # c
    <3>1. linkCalls'[d] = linkCalls[d] /\ LinkBusy(d)
      BY <1>2, <1>3, <2>2 DEF LinkBusy
    <3>2. LinkCallInv(linkCalls[d]) /\ ~linkCalls[d].alone
      BY <3>1, <2>2 DEF LinkInv
    <3>3. QED
      BY <3>1, <3>2 DEF LinkCallInv
  <2>3. QED
    BY <2>1, <2>2
<1>4. QED
  BY <1>1, <1>3 DEF LinkInv

LEMMA EndKeeps ==
  ASSUME NEW c \in Linkers, NEW said, LinkInv, LinkBusy(c), LinkEnds(c, said),
         linkProfile' \in McpProfiles, linkTemp' \in McpProfiles \union {NoTemp}
  PROVE  LinkInv'
<1>1. NoLink.step = "idle"
  BY DEF NoLink
<1>2. linkCalls' = [linkCalls EXCEPT ![c] = NoLink]
  BY DEF LinkEnds
<1>3. QED
  BY <1>1, <1>2, OneMoves

(* A call that begins takes from the others that they were alone.          *)
LEMMA BeginKeeps ==
  ASSUME NEW c \in Linkers, NEW op \in LinkOps, NEW flags, LinkInv, LinkBegins(c, op, flags),
         op = "connect" => flags.enabled, op = "disconnect" => ~flags.enabled
  PROVE  LinkInv'
<1>0. PICK call :
        call = [op |-> op, step |-> IF op = "flags" THEN "config" ELSE "load", flags |-> flags,
                found |-> linkProfile, profile |-> linkProfile,
                at |-> <<linkFlags, linkProfile>>,
                alone |-> \A e \in Linkers : linkCalls[e].step = "idle"]
  OBVIOUS
<1>1. /\ linkCalls' = [d \in Linkers |->
            IF d = c THEN call
            ELSE IF linkCalls[d].step = "idle" THEN linkCalls[d]
            ELSE [linkCalls[d] EXCEPT !.alone = FALSE]]
      /\ UNCHANGED <<linkFlags, linkProfile, linkTemp>>
  BY <1>0 DEF LinkBegins
<1>2. linkProfile \in McpProfiles
  BY DEF LinkInv
<1>3. LinkCallInv(call)'
  <2>1. LinkDone(call)'
    BY <1>0, <1>1 DEF LinkDone, Before, LinkOps
  <2>2. QED
    BY <1>0, <1>1, <1>2, <2>1 DEF LinkCallInv, LinkOps
<1>4. call.alone => \A e \in Linkers : ~LinkBusy(e)
  BY <1>0 DEF LinkBusy
<1>5. ASSUME NEW d \in Linkers, LinkBusy(d)'
      PROVE  /\ LinkCallInv(linkCalls[d])'
             /\ linkCalls'[d].alone => \A e \in Linkers : e # d => ~LinkBusy(e)'
  <2>1. CASE d = c
    <3>1. linkCalls'[d] = call
      BY <1>1, <2>1
    <3>2. LinkCallInv(linkCalls[d])'
      BY <1>3, <3>1 DEF LinkCallInv, LinkDone, Before, Wants
    <3>3. ASSUME call.alone, NEW e \in Linkers, e # d PROVE ~LinkBusy(e)'
      BY <1>1, <1>4, <2>1, <3>3 DEF LinkBusy
    <3>4. QED
      BY <3>1, <3>2, <3>3
  <2>2. CASE d # c
    <3>1. LinkBusy(d) /\ linkCalls'[d] = [linkCalls[d] EXCEPT !.alone = FALSE]
      BY <1>1, <1>5, <2>2 DEF LinkBusy
    <3>2. LinkCallInv(linkCalls[d])
      BY <3>1 DEF LinkInv
    <3>3. PICK old : old = linkCalls[d]
      OBVIOUS
    <3>4. PICK new : new = [old EXCEPT !.alone = FALSE]
      OBVIOUS
    <3>5. /\ DOMAIN new = DOMAIN old /\ ~new.alone
          /\ new.step = old.step /\ new.op = old.op
          /\ new.profile = old.profile /\ new.found = old.found
      BY <3>2, <3>3, <3>4 DEF LinkCallInv
    <3>6. QED
      BY <3>1, <3>2, <3>3, <3>4, <3>5 DEF LinkCallInv
  <2>3. QED
    BY <2>1, <2>2
<1>6. QED
  BY <1>1, <1>5 DEF LinkInv

LEMMA BeginsKeep ==
  ASSUME NEW c \in Linkers, LinkInv,
         Connects(c) \/ Disconnects(c) \/ SetsFlags(c) \/ EditsProfile(c)
  PROVE  LinkInv'
<1>1. CASE Connects(c)
  <2>1. PICK mesh \in BOOLEAN, shared \in BOOLEAN :
          LinkBegins(c, "connect", [enabled |-> TRUE, mesh |-> mesh \/ LoadedFlags.mesh,
                                    shared |-> shared \/ LoadedFlags.shared])
    BY <1>1 DEF Connects
  <2>2. PICK flags : flags = [enabled |-> TRUE, mesh |-> mesh \/ LoadedFlags.mesh,
                              shared |-> shared \/ LoadedFlags.shared]
    OBVIOUS
  <2>3. LinkBegins(c, "connect", flags) /\ flags.enabled
    BY <2>1, <2>2
  <2>4. QED
    BY <2>3, BeginKeeps DEF LinkOps
<1>2. CASE Disconnects(c)
  <2>1. PICK flags : flags = DefaultFlags
    OBVIOUS
  <2>2. LinkBegins(c, "disconnect", flags) /\ ~flags.enabled
    BY <1>2, <2>1 DEF Disconnects, DefaultFlags
  <2>3. QED
    BY <2>2, BeginKeeps DEF LinkOps
<1>3. CASE SetsFlags(c)
  <2>1. PICK flags : LinkBegins(c, "flags", flags)
    BY <1>3 DEF SetsFlags
  <2>2. QED
    BY <2>1, BeginKeeps DEF LinkOps
<1>4. CASE EditsProfile(c)
  <2>1. PICK flags : flags = LoadedFlags
    OBVIOUS
  <2>2. LinkBegins(c, "profile", flags)
    BY <1>4, <2>1 DEF EditsProfile
  <2>3. QED
    BY <2>2, BeginKeeps DEF LinkOps
<1>5. QED
  BY <1>1, <1>2, <1>3, <1>4

(* What a call knows of itself, by its step.                               *)
LEMMA Knows ==
  ASSUME NEW c \in Linkers, LinkInv, LinkBusy(c)
  PROVE  LinkCallInv(linkCalls[c])
BY DEF LinkInv

LEMMA LoadKeeps == ASSUME NEW c \in Linkers, LinkInv, LoadsProfile(c) PROVE LinkInv'
<1>1. PICK call : call = linkCalls[c]
  OBVIOUS
<1>2. /\ call.step = "load" /\ LinkBusy(c) /\ LinkCallInv(call)
      /\ UNCHANGED <<linkFlags, linkProfile, linkTemp>>
  BY <1>1, Knows DEF LoadsProfile, LinkBusy
<1>3. linkProfile \in McpProfiles /\ linkTemp \in McpProfiles \union {NoTemp}
  BY DEF LinkInv
<1>4. CASE LinkEnds(c, "err")
  BY <1>2, <1>3, <1>4, EndKeeps
<1>5. CASE \E profile \in ProfileChanges(call.op, linkProfile) :
             LinkGoes(c, [call EXCEPT !.step = "temp", !.found = linkProfile, !.profile = profile])
  <2>1. PICK profile \in ProfileChanges(call.op, linkProfile) :
             LinkGoes(c, [call EXCEPT !.step = "temp", !.found = linkProfile, !.profile = profile])
    BY <1>5
  <2>2. call.op \in {"connect", "disconnect", "profile"}
    BY <1>2 DEF LinkCallInv, LinkOps
  <2>3. /\ profile \in McpProfiles
        /\ call.op = "connect" => profile.synapse = "bridge"
        /\ call.op = "disconnect" => profile.synapse = "absent"
    BY <1>3, <2>2 DEF ProfileChanges, McpProfiles, Entries
  <2>4. PICK next : next = [call EXCEPT !.step = "temp", !.found = linkProfile, !.profile = profile]
    OBVIOUS
  <2>5. /\ DOMAIN next = DOMAIN call /\ next.step = "temp" /\ next.found = linkProfile
        /\ next.profile = profile /\ next.op = call.op /\ next.flags = call.flags
        /\ next.at = call.at /\ next.alone = call.alone
    BY <1>2, <2>4 DEF LinkCallInv
  <2>6. call.alone => LinkDone(next)'
    BY <1>2, <2>3, <2>5 DEF LinkCallInv, LinkDone, Before, Wants
  <2>7. LinkCallInv(next)' /\ (next.alone => call.alone)
    BY <1>2, <1>3, <2>2, <2>3, <2>5, <2>6 DEF LinkCallInv
  <2>8. linkCalls' = [linkCalls EXCEPT ![c] = next]
    BY <2>1, <2>4 DEF LinkGoes
  <2>9. QED
    BY <1>1, <1>2, <1>3, <2>7, <2>8, OneMoves
<1>6. QED
  BY <1>1, <1>4, <1>5 DEF LoadsProfile

LEMMA TempKeeps == ASSUME NEW c \in Linkers, LinkInv, WritesTemp(c) PROVE LinkInv'
<1>1. PICK call : call = linkCalls[c]
  OBVIOUS
<1>2. PICK goal : goal = IF call.step = "temp" THEN "rename" ELSE "restore"
  OBVIOUS
<1>3. PICK text : text = IF call.step = "temp" THEN call.profile ELSE call.found
  OBVIOUS
<1>4. /\ call.step \in {"temp", "retemp"} /\ LinkBusy(c) /\ LinkCallInv(call)
      /\ UNCHANGED <<linkFlags, linkProfile>>
  BY <1>1, Knows DEF WritesTemp, LinkBusy
<1>5. /\ linkProfile \in McpProfiles /\ linkTemp \in McpProfiles \union {NoTemp}
      /\ text \in McpProfiles
  BY <1>3, <1>4 DEF LinkInv, LinkCallInv
<1>6. CASE linkTemp' = text /\ LinkGoes(c, [call EXCEPT !.step = goal])
  <2>1. PICK next : next = [call EXCEPT !.step = goal]
    OBVIOUS
  <2>2. /\ DOMAIN next = DOMAIN call /\ next.step = goal /\ next.found = call.found
        /\ next.profile = call.profile /\ next.op = call.op /\ next.flags = call.flags
        /\ next.at = call.at /\ next.alone = call.alone
    BY <1>4, <2>1 DEF LinkCallInv
  <2>3. call.alone => LinkDone(next)'
    BY <1>2, <1>3, <1>4, <1>6, <2>2 DEF LinkCallInv, LinkDone, Before, Wants
  <2>4. LinkCallInv(next)' /\ (next.alone => call.alone)
    BY <1>2, <1>4, <2>2, <2>3 DEF LinkCallInv
  <2>5. linkCalls' = [linkCalls EXCEPT ![c] = next]
    BY <1>6, <2>1 DEF LinkGoes
  <2>6. QED
    BY <1>1, <1>4, <1>5, <1>6, <2>4, <2>5, OneMoves
<1>7. CASE /\ linkTemp' \in {linkTemp, NoTemp}
           /\ LinkEnds(c, IF goal = "rename" THEN "err" ELSE "unrestored")
  BY <1>4, <1>5, <1>7, EndKeeps
<1>8. QED
  BY <1>1, <1>2, <1>3, <1>6, <1>7 DEF WritesTemp

LEMMA RenameKeeps == ASSUME NEW c \in Linkers, LinkInv, Renames(c) PROVE LinkInv'
<1>1. PICK call : call = linkCalls[c]
  OBVIOUS
<1>2. /\ call.step \in {"rename", "restore"} /\ LinkBusy(c) /\ LinkCallInv(call)
      /\ UNCHANGED linkFlags
  BY <1>1, Knows DEF Renames, LinkBusy
<1>3. linkProfile' \in McpProfiles /\ linkTemp' \in McpProfiles \union {NoTemp}
  BY DEF LinkInv, Renames
<1>4. CASE \E said : LinkEnds(c, said)
  BY <1>2, <1>3, <1>4, EndKeeps
<1>5. CASE /\ linkTemp # NoTemp /\ linkProfile' = linkTemp
           /\ call.step = "rename" /\ call.op # "profile"
           /\ LinkGoes(c, [call EXCEPT !.step = "config"])
  <2>1. PICK next : next = [call EXCEPT !.step = "config"]
    OBVIOUS
  <2>2. /\ DOMAIN next = DOMAIN call /\ next.step = "config" /\ next.found = call.found
        /\ next.profile = call.profile /\ next.op = call.op /\ next.flags = call.flags
        /\ next.at = call.at /\ next.alone = call.alone
    BY <1>2, <2>1 DEF LinkCallInv
  <2>3. call.op # "flags"
    BY <1>2 DEF LinkCallInv
  <2>4. call.alone => LinkDone(next)'
    BY <1>2, <1>5, <2>2, <2>3 DEF LinkCallInv, LinkDone, Before, Wants
  <2>5. LinkCallInv(next)' /\ (next.alone => call.alone)
    BY <1>2, <2>2, <2>3, <2>4 DEF LinkCallInv
  <2>6. linkCalls' = [linkCalls EXCEPT ![c] = next]
    BY <1>5, <2>1 DEF LinkGoes
  <2>7. QED
    BY <1>1, <1>2, <1>3, <2>5, <2>6, OneMoves
<1>6. QED
  BY <1>1, <1>2, <1>4, <1>5 DEF Renames

LEMMA SaveKeeps == ASSUME NEW c \in Linkers, LinkInv, SavesFlags(c) PROVE LinkInv'
<1>1. PICK call : call = linkCalls[c]
  OBVIOUS
<1>2. /\ call.step = "config" /\ LinkBusy(c) /\ LinkCallInv(call)
      /\ UNCHANGED <<linkProfile, linkTemp>>
  BY <1>1, Knows DEF SavesFlags, LinkBusy
<1>3. linkProfile' \in McpProfiles /\ linkTemp' \in McpProfiles \union {NoTemp}
  BY <1>2 DEF LinkInv
<1>4. CASE \E said : LinkEnds(c, said)
  BY <1>2, <1>3, <1>4, EndKeeps
<1>5. CASE /\ call.op # "flags" /\ linkFlags' \in {linkFlags, TornFlags}
           /\ LinkGoes(c, [call EXCEPT !.step = "retemp"])
  <2>1. PICK next : next = [call EXCEPT !.step = "retemp"]
    OBVIOUS
  <2>2. /\ DOMAIN next = DOMAIN call /\ next.step = "retemp" /\ next.found = call.found
        /\ next.profile = call.profile /\ next.op = call.op /\ next.flags = call.flags
        /\ next.at = call.at /\ next.alone = call.alone
    BY <1>2, <2>1 DEF LinkCallInv
  <2>3. call.alone => LinkDone(next)'
    BY <1>2, <1>5, <2>2 DEF LinkCallInv, LinkDone, Before, Wants
  <2>4. LinkCallInv(next)' /\ (next.alone => call.alone)
    BY <1>2, <1>5, <2>2, <2>3 DEF LinkCallInv
  <2>5. linkCalls' = [linkCalls EXCEPT ![c] = next]
    BY <1>5, <2>1 DEF LinkGoes
  <2>6. QED
    BY <1>1, <1>2, <1>3, <2>4, <2>5, OneMoves
<1>6. QED
  BY <1>1, <1>2, <1>4, <1>5 DEF SavesFlags

LEMMA LostKeeps == ASSUME NEW c \in Linkers, LinkInv, LinkLost(c) PROVE LinkInv'
<1>1. LinkBusy(c) /\ LinkEnds(c, "lost") /\ UNCHANGED <<linkProfile, linkTemp>>
  BY DEF LinkLost, LinkBusy
<1>2. linkProfile' \in McpProfiles /\ linkTemp' \in McpProfiles \union {NoTemp}
  BY <1>1 DEF LinkInv
<1>3. QED
  BY <1>1, <1>2, EndKeeps

LEMMA LinkStepKeeps == LinkInv /\ [LinkNext]_linkVars => LinkInv'
<1>1. LinkInv /\ UNCHANGED linkVars => LinkInv'
  <2> SUFFICES ASSUME LinkInv, UNCHANGED linkVars PROVE LinkInv'
    OBVIOUS
  <2>1. ASSUME NEW c \in Linkers, LinkBusy(c)' PROVE LinkCallInv(linkCalls[c])'
    <3>1. PICK call : call = linkCalls[c]
      OBVIOUS
    <3>2. LinkCallInv(call)
      BY <2>1, <3>1 DEF linkVars, LinkInv, LinkBusy
    <3>3. LinkCallInv(call)'
      BY <3>2 DEF linkVars, LinkCallInv, LinkDone, Before, Wants
    <3>4. linkCalls'[c] = call
      BY <3>1 DEF linkVars
    <3>5. QED
      BY <3>3, <3>4 DEF LinkCallInv, LinkDone, Before, Wants
  <2>2. QED
    BY <2>1 DEF linkVars, LinkInv, LinkBusy
<1>2. QED
  BY <1>1, BeginsKeep, LoadKeeps, TempKeeps, RenameKeeps, SaveKeeps, LostKeeps DEF LinkNext

(* The flags a call will write, and what a call ends with.                 *)
CallsHaveFlags == \A c \in Linkers : linkCalls[c].step # "idle" => linkCalls[c].flags \in Flags

LinkTyped ==
  /\ LinkInv /\ CallsHaveFlags
  /\ linkFlags \in Flags \union {TornFlags}
  /\ linkSaid \in {"none", "ok", "err", "unrestored", "lost"}
  /\ linkBegun \in 0 .. MaxLinkCalls

LEMMA LinkInitTyped == LinkInit => LinkTyped
BY LinkInitInv, LinkCallsAssumption DEF LinkInit, LinkTyped, CallsHaveFlags, Flags, DefaultFlags, NoLink

LEMMA LinkGoesTyped ==
  ASSUME LinkTyped, NEW c \in Linkers, NEW call, call.flags \in Flags, LinkGoes(c, call)
  PROVE  CallsHaveFlags' /\ linkSaid' = "none"
BY DEF LinkTyped, LinkInv, CallsHaveFlags, LinkGoes

LEMMA LinkEndsTyped ==
  ASSUME LinkTyped, NEW c \in Linkers, NEW said, LinkEnds(c, said)
  PROVE  CallsHaveFlags' /\ linkSaid' = said
BY DEF LinkTyped, LinkInv, CallsHaveFlags, LinkEnds, NoLink

LEMMA LinkBeginsTyped ==
  ASSUME LinkTyped, NEW c \in Linkers, NEW op, NEW flags \in Flags, LinkBegins(c, op, flags)
  PROVE  CallsHaveFlags' /\ linkSaid' = "none" /\ linkFlags' = linkFlags
         /\ linkBegun' \in 0 .. MaxLinkCalls
<1>1. /\ linkBegun < MaxLinkCalls /\ linkBegun' = linkBegun + 1 /\ linkSaid' = "none"
      /\ linkFlags' = linkFlags
  BY DEF LinkBegins
<1>2. linkBegun' \in 0 .. MaxLinkCalls
  BY <1>1, LinkCallsAssumption DEF LinkTyped
<1>3. ASSUME NEW d \in Linkers, linkCalls'[d].step # "idle"
      PROVE  linkCalls'[d].flags \in Flags
  <2>1. CASE d = c
    BY <2>1 DEF LinkBegins
  <2>2. CASE d # c /\ linkCalls[d].step = "idle"
    BY <1>3, <2>2 DEF LinkBegins
  <2>3. CASE d # c /\ linkCalls[d].step # "idle"
    <3>1. linkCalls'[d] = [linkCalls[d] EXCEPT !.alone = FALSE]
      BY <2>3 DEF LinkBegins
    <3>2. linkCalls[d].flags \in Flags /\ "flags" \in DOMAIN linkCalls[d]
      BY <2>3 DEF LinkTyped, CallsHaveFlags, LinkInv, LinkBusy, LinkCallInv
    <3> QED
      BY <3>1, <3>2
  <2> QED
    BY <2>1, <2>2, <2>3
<1> QED
  BY <1>1, <1>2, <1>3 DEF CallsHaveFlags

LEMMA LinkStepTyped == LinkTyped /\ [LinkNext]_linkVars => LinkTyped'
<1> SUFFICES ASSUME LinkTyped, [LinkNext]_linkVars PROVE LinkTyped'
  OBVIOUS
<1>1. LinkInv'
  BY LinkStepKeeps DEF LinkTyped
<1>2. CASE UNCHANGED linkVars
  BY <1>1, <1>2 DEF LinkTyped, CallsHaveFlags, linkVars
<1>3. ASSUME NEW c \in Linkers, Connects(c) \/ Disconnects(c) \/ SetsFlags(c) \/ EditsProfile(c)
      PROVE  LinkTyped'
  <2>2. LoadedFlags \in Flags
    BY DEF LinkTyped, LoadedFlags, DefaultFlags, Flags
  <2>3. \E wanted \in Flags : \E kind : LinkBegins(c, kind, wanted)
    <3>1. CASE Connects(c)
      <4>1. PICK mesh, shared \in BOOLEAN :
              LinkBegins(c, "connect", [enabled |-> TRUE, mesh |-> mesh \/ LoadedFlags.mesh,
                                        shared |-> shared \/ LoadedFlags.shared])
        BY <3>1 DEF Connects
      <4>2. [enabled |-> TRUE, mesh |-> mesh \/ LoadedFlags.mesh,
             shared |-> shared \/ LoadedFlags.shared] \in Flags
        BY DEF Flags
      <4> QED
        BY <4>1, <4>2
    <3>2. CASE Disconnects(c)
      <4>1. DefaultFlags \in Flags
        BY DEF Flags, DefaultFlags
      <4> QED
        BY <3>2, <4>1 DEF Disconnects
    <3>3. CASE SetsFlags(c)
      <4>1. FlagChanges \subseteq Flags
        <5>1. /\ LoadedFlags.enabled \in BOOLEAN /\ LoadedFlags.mesh \in BOOLEAN
              /\ LoadedFlags.shared \in BOOLEAN
          BY <2>2 DEF Flags
        <5>2. LoadedFlags = [enabled |-> LoadedFlags.enabled, mesh |-> LoadedFlags.mesh,
                             shared |-> LoadedFlags.shared]
          BY <2>2 DEF Flags
        <5>3. [LoadedFlags EXCEPT !.enabled = TRUE] \in Flags
          BY <2>2 DEF Flags
        <5>4. [LoadedFlags EXCEPT !.mesh = FALSE] \in Flags
          BY <2>2 DEF Flags
        <5>5. [LoadedFlags EXCEPT !.enabled = TRUE, !.mesh = TRUE] \in Flags
          <6> DEFINE on == [LoadedFlags EXCEPT !.enabled = TRUE]
          <6>1. on \in Flags
            BY <5>3
          <6> HIDE DEF on
          <6>2. [on EXCEPT !.mesh = TRUE] \in Flags
            BY <6>1 DEF Flags
          <6> QED
            BY <6>2 DEF on
        <5>6. [LoadedFlags EXCEPT !.enabled = TRUE, !.shared = TRUE] \in Flags
          <6> DEFINE on == [LoadedFlags EXCEPT !.enabled = TRUE]
          <6>1. on \in Flags
            BY <5>3
          <6> HIDE DEF on
          <6>2. [on EXCEPT !.shared = TRUE] \in Flags
            BY <6>1 DEF Flags
          <6> QED
            BY <6>2 DEF on
        <5>7. [LoadedFlags EXCEPT !.shared = FALSE] \in Flags
          BY <2>2 DEF Flags
        <5>8. DefaultFlags \in Flags
          BY DEF Flags, DefaultFlags
        <5> QED
          BY <5>3, <5>4, <5>5, <5>6, <5>7, <5>8, Zenon DEF FlagChanges
      <4>2. PICK wanted \in FlagChanges : LinkBegins(c, "flags", wanted)
        BY <3>3 DEF SetsFlags
      <4> QED
        BY <4>1, <4>2
    <3>4. CASE EditsProfile(c)
      BY <2>2, <3>4 DEF EditsProfile
    <3> QED
      BY <1>3, <3>1, <3>2, <3>3, <3>4
  <2>4. PICK wanted \in Flags : \E kind : LinkBegins(c, kind, wanted)
    BY <2>3
  <2>5. PICK kind : LinkBegins(c, kind, wanted)
    BY <2>4
  <2>6. CallsHaveFlags' /\ linkSaid' = "none" /\ linkFlags' = linkFlags
        /\ linkBegun' \in 0 .. MaxLinkCalls
    BY <2>5, LinkBeginsTyped
  <2> QED
    BY <1>1, <2>6 DEF LinkTyped
<1>4. ASSUME NEW c \in Linkers, LoadsProfile(c) \/ WritesTemp(c) \/ Renames(c) \/ SavesFlags(c)
                                \/ LinkLost(c)
      PROVE  LinkTyped'
  <2> DEFINE call == linkCalls[c]
  <2>1. call.step # "idle"
    BY <1>4 DEF LoadsProfile, WritesTemp, Renames, SavesFlags, LinkLost
  <2>2. call.flags \in Flags /\ DOMAIN call = {"op", "step", "flags", "found", "profile", "at", "alone"}
    BY <2>1 DEF LinkTyped, CallsHaveFlags, LinkInv, LinkBusy, LinkCallInv
  <2>3. linkBegun' = linkBegun /\ linkFlags' \in {linkFlags, call.flags, TornFlags}
    BY <1>4 DEF LoadsProfile, WritesTemp, Renames, SavesFlags, LinkLost
  <2>4. \/ \E next : next.flags = call.flags /\ LinkGoes(c, next)
        \/ \E said \in {"ok", "err", "unrestored", "lost"} : LinkEnds(c, said)
    <3>1. CASE LoadsProfile(c)
      <4>1. CASE LinkEnds(c, "err")
        BY <4>1
      <4>2. CASE ~LinkEnds(c, "err")
        <5>1. PICK profile : LinkGoes(c, [call EXCEPT !.step = "temp", !.found = linkProfile,
                                                      !.profile = profile])
          BY <3>1, <4>2 DEF LoadsProfile
        <5>2. [call EXCEPT !.step = "temp", !.found = linkProfile, !.profile = profile].flags
                = call.flags
          BY <2>2
        <5> QED
          BY <5>1, <5>2
      <4> QED
        BY <4>1, <4>2
    <3>2. CASE WritesTemp(c)
      <4> DEFINE to == IF call.step = "temp" THEN "rename" ELSE "restore"
      <4>1. LinkGoes(c, [call EXCEPT !.step = to])
              \/ LinkEnds(c, IF to = "rename" THEN "err" ELSE "unrestored")
        BY <3>2 DEF WritesTemp
      <4>2. [call EXCEPT !.step = to].flags = call.flags
        BY <2>2
      <4> QED
        BY <4>1, <4>2
    <3>3. CASE Renames(c)
      <4>1. \/ LinkGoes(c, [call EXCEPT !.step = "config"])
            \/ LinkEnds(c, "ok") \/ LinkEnds(c, "err") \/ LinkEnds(c, "unrestored")
        BY <3>3 DEF Renames
      <4>2. [call EXCEPT !.step = "config"].flags = call.flags
        BY <2>2
      <4> QED
        BY <4>1, <4>2
    <3>4. CASE SavesFlags(c)
      <4>1. \/ LinkGoes(c, [call EXCEPT !.step = "retemp"])
            \/ LinkEnds(c, "ok") \/ LinkEnds(c, "err")
        BY <3>4 DEF SavesFlags
      <4>2. [call EXCEPT !.step = "retemp"].flags = call.flags
        BY <2>2
      <4> QED
        BY <4>1, <4>2
    <3>5. CASE LinkLost(c)
      BY <3>5 DEF LinkLost
    <3> QED
      BY <1>4, <3>1, <3>2, <3>3, <3>4, <3>5
  <2>5. CallsHaveFlags' /\ linkSaid' \in {"none", "ok", "err", "unrestored", "lost"}
    <3> HIDE DEF call
    <3>1. CASE \E next : next.flags = call.flags /\ LinkGoes(c, next)
      BY <2>2, <3>1, LinkGoesTyped
    <3>2. CASE \E said \in {"ok", "err", "unrestored", "lost"} : LinkEnds(c, said)
      BY <3>2, LinkEndsTyped
    <3> QED
      BY <2>4, <3>1, <3>2
  <2> QED
    BY <1>1, <2>2, <2>3, <2>5 DEF LinkTyped
<1> QED
  BY <1>2, <1>3, <1>4 DEF LinkNext

LEMMA LinkHolds == LinkTyped => LinkTypeOK
<1> SUFFICES ASSUME LinkTyped PROVE LinkTypeOK
  OBVIOUS
<1>1. ASSUME NEW c \in Linkers, linkCalls[c].step # "idle"
      PROVE  linkCalls[c].op \in LinkOps /\ linkCalls[c].flags \in Flags
             /\ linkCalls[c].found \in McpProfiles
  BY <1>1 DEF LinkTyped, CallsHaveFlags, LinkInv, LinkBusy, LinkCallInv
<1> QED
  BY <1>1 DEF LinkTyped, LinkInv, LinkTypeOK
-----------------------------------------------------------------------------
(* The step that ends a call that was alone.                               *)
EndsWell(c) ==
  LET call == linkCalls[c]
  IN  call.step # "idle" /\ linkCalls'[c].step = "idle" /\ call.alone =>
        /\ linkSaid' = "ok" /\ call.op = "connect" =>
             linkFlags'.enabled /\ linkProfile'.synapse = "bridge"
        /\ linkSaid' = "ok" /\ call.op = "disconnect" =>
             ~linkFlags'.enabled /\ linkProfile'.synapse = "absent"
        /\ linkSaid' = "err" =>
             linkProfile' = call.at[2] /\ linkFlags' \in {call.at[1], TornFlags}

(* A call ends by a step of its own.                                       *)
LEMMA OnlyOwnEnd ==
  ASSUME NEW c \in Linkers, NEW d \in Linkers, c # d, LinkInv,
         \/ Connects(d) \/ Disconnects(d) \/ SetsFlags(d) \/ EditsProfile(d)
         \/ LoadsProfile(d) \/ WritesTemp(d) \/ Renames(d) \/ SavesFlags(d) \/ LinkLost(d),
         LinkBusy(c)
  PROVE  linkCalls'[c].step = linkCalls[c].step
<1>1. DOMAIN linkCalls[c] = {"op", "step", "flags", "found", "profile", "at", "alone"}
  BY DEF LinkInv, LinkCallInv
<1>2. CASE \E op, flags : LinkBegins(d, op, flags)
  <2>1. linkCalls'[c] = [linkCalls[c] EXCEPT !.alone = FALSE]
    BY <1>2 DEF LinkBegins, LinkBusy
  <2>2. QED
    BY <1>1, <2>1
<1>3. CASE \E call : linkCalls' = [linkCalls EXCEPT ![d] = call]
  BY <1>3 DEF LinkInv
<1>4. QED
  BY <1>2, <1>3 DEF Connects, Disconnects, SetsFlags, EditsProfile, LoadsProfile, WritesTemp,
                    Renames, SavesFlags, LinkLost, LinkGoes, LinkEnds

LEMMA EndIsWell == ASSUME NEW c \in Linkers, LinkInv, LinkNext PROVE EndsWell(c)
<1> SUFFICES ASSUME LinkBusy(c), linkCalls'[c].step = "idle", linkCalls[c].alone PROVE EndsWell(c)
  BY DEF EndsWell, LinkBusy
<1>1. PICK call : call = linkCalls[c]
  OBVIOUS
<1>2. LinkCallInv(call) /\ LinkDone(call)
  BY <1>1, Knows DEF LinkCallInv
<1>3. \/ Connects(c) \/ Disconnects(c) \/ SetsFlags(c) \/ EditsProfile(c)
      \/ LoadsProfile(c) \/ WritesTemp(c) \/ Renames(c) \/ SavesFlags(c) \/ LinkLost(c)
  BY OnlyOwnEnd DEF LinkNext, LinkBusy
<1>4. ~ \E op, flags : LinkBegins(c, op, flags)
  BY DEF LinkBegins, LinkBusy
<1>5. ASSUME NEW next, next.step # "idle" PROVE ~LinkGoes(c, next)
  BY <1>5 DEF LinkGoes, LinkInv
<1>6. CASE LoadsProfile(c)
  <2>1. ASSUME NEW profile
        PROVE  ~LinkGoes(c, [call EXCEPT !.step = "temp", !.found = linkProfile,
                                         !.profile = profile])
    <3>1. PICK next : next = [call EXCEPT !.step = "temp", !.found = linkProfile,
                                          !.profile = profile]
      OBVIOUS
    <3>2. next.step = "temp"
      BY <1>2, <3>1 DEF LinkCallInv
    <3>3. QED
      BY <1>5, <3>1, <3>2
  <2>2. LinkEnds(c, "err") /\ call.step = "load" /\ UNCHANGED <<linkFlags, linkProfile>>
    BY <1>1, <1>6, <2>1 DEF LoadsProfile
  <2>3. QED
    BY <1>1, <1>2, <2>2 DEF EndsWell, LinkDone, Before, LinkEnds
<1>7. CASE WritesTemp(c)
  <2>1. ASSUME NEW goal \in {"rename", "restore"} PROVE ~LinkGoes(c, [call EXCEPT !.step = goal])
    <3>1. PICK next : next = [call EXCEPT !.step = goal]
      OBVIOUS
    <3>2. next.step = goal
      BY <1>2, <3>1 DEF LinkCallInv
    <3>3. QED
      BY <1>5, <3>1, <3>2
  <2>2. PICK goal \in {"rename", "restore"} :
          /\ goal = "rename" <=> call.step = "temp"
          /\ call.step \in {"temp", "retemp"} /\ UNCHANGED <<linkFlags, linkProfile>>
          /\ LinkEnds(c, IF goal = "rename" THEN "err" ELSE "unrestored")
    BY <1>1, <1>7, <2>1 DEF WritesTemp
  <2>3. QED
    BY <1>1, <1>2, <2>2 DEF EndsWell, LinkDone, Before, LinkEnds
<1>8. CASE Renames(c)
  <2>1. ~LinkGoes(c, [call EXCEPT !.step = "config"])
    <3>1. PICK next : next = [call EXCEPT !.step = "config"]
      OBVIOUS
    <3>2. next.step = "config"
      BY <1>2, <3>1 DEF LinkCallInv
    <3>3. QED
      BY <1>5, <3>1, <3>2
  <2>2. CASE /\ linkTemp # NoTemp /\ linkProfile' = linkTemp
             /\ call.step = "restore" \/ call.op = "profile"
             /\ call.step \in {"rename", "restore"}
             /\ LinkEnds(c, IF call.step = "restore" THEN "err" ELSE "ok")
             /\ UNCHANGED linkFlags
    BY <1>1, <1>2, <2>2 DEF EndsWell, LinkDone, LinkEnds
  <2>3. CASE /\ LinkEnds(c, IF call.step = "restore" THEN "unrestored" ELSE "err")
             /\ call.step \in {"rename", "restore"}
             /\ UNCHANGED <<linkProfile, linkFlags>>
    BY <1>1, <1>2, <2>3 DEF EndsWell, LinkDone, Before, LinkEnds
  <2>4. QED
    BY <1>1, <1>8, <2>1, <2>2, <2>3 DEF Renames
<1>9. CASE SavesFlags(c)
  <2>1. ~LinkGoes(c, [call EXCEPT !.step = "retemp"])
    <3>1. PICK next : next = [call EXCEPT !.step = "retemp"]
      OBVIOUS
    <3>2. next.step = "retemp"
      BY <1>2, <3>1 DEF LinkCallInv
    <3>3. QED
      BY <1>5, <3>1, <3>2
  <2>2. /\ call.step = "config" /\ UNCHANGED linkProfile
        /\ \/ linkFlags' = call.flags /\ LinkEnds(c, "ok")
           \/ /\ call.op = "flags" /\ linkFlags' \in {linkFlags, TornFlags}
              /\ LinkEnds(c, "err")
    BY <1>1, <1>9, <2>1 DEF SavesFlags
  <2>3. QED
    BY <1>1, <1>2, <2>2 DEF EndsWell, LinkDone, Before, Wants, LinkEnds
<1>10. CASE LinkLost(c)
  BY <1>10 DEF EndsWell, LinkLost, LinkEnds
<1>11. QED
  BY <1>3, <1>4, <1>6, <1>7, <1>8, <1>9, <1>10
     DEF Connects, Disconnects, SetsFlags, EditsProfile

(* With no other call in between, a link that is reported is in both       *)
(* files, and one that failed left them as they were, or says what it      *)
(* could not put back (synapse.rs).                                        *)
THEOREM LinkIsWhole == LinkSpec => BothOrNeither
<1>1. LinkInv /\ [LinkNext]_linkVars => [\A c \in Linkers : EndsWell(c)]_linkVars
  BY EndIsWell
<1>2. LinkSpec => [][\A c \in Linkers : EndsWell(c)]_linkVars
  BY <1>1, LinkInitInv, LinkStepKeeps, PTL DEF LinkSpec
<1>3. QED
  BY <1>2, Zenon DEF BothOrNeither, EndsWell

-----------------------------------------------------------------------------
(* Memory.                                                                 *)
WritingCalls == [step : {"writing"}, id : MemoryIds, old : SUBSET MemoryIds]
ReplacingCalls == [step : {"replacing"}, id : MemoryIds, old : SUBSET MemoryIds]
RemovingCalls ==
  [step : {"removing"}, id : MemoryIds, for : MemoryIds \union {0}, old : SUBSET MemoryIds]
ReadingCalls ==
  [step : {"reading"}, left : SUBSET MemoryIds, shown : SUBSET MemoryIds, due : SUBSET MemoryIds]
MemoryCallTypes ==
  {NoMemoryCall} \union WritingCalls \union ReplacingCalls \union RemovingCalls \union ReadingCalls
Recollections == [due : SUBSET MemoryIds, shown : SUBSET MemoryIds]
MemoryPasts ==
  [remembered : SUBSET MemoryIds, doomed : SUBSET (MemoryIds \X (MemoryIds \union {0})),
   told : [MemoryIds -> Nat], recall : Recollections]

MemoryTyped ==
  /\ memoryFiles \in [MemoryIds -> {"none", "torn", "whole"}]
  /\ memoryCalls \in [Rememberers -> MemoryCallTypes]
  /\ memoryIds \in 0 .. MaxMemories
  /\ memoryPast \in MemoryPasts

(* Written as a whole, and still there or reported as gone.                *)
Settled(id) == memoryFiles[id] = "whole" \/ memoryPast.told[id] = 1

(* An id that was given out has a file until its removal is reported.      *)
OneRemoval ==
  \A id \in MemoryIds :
    /\ id > memoryIds => memoryFiles[id] = "none" /\ memoryPast.told[id] = 0
    /\ id <= memoryIds => IF memoryFiles[id] = "none" THEN memoryPast.told[id] = 1
                                                      ELSE memoryPast.told[id] = 0

ReplacedBySettled ==
  \A id \in MemoryIds : memoryPast.told[id] > 0 =>
    \E for \in MemoryIds \union {0} :
      <<id, for>> \in memoryPast.doomed /\ (for = 0 \/ Settled(for))

(* What a call relies on.                                                  *)
CallHolds(c) ==
  LET call == memoryCalls[c]
  IN  /\ call.step = "writing" => call.id <= memoryIds
      /\ call.step = "replacing" =>
           Settled(call.id) /\ \A id \in call.old : <<id, call.id>> \in memoryPast.doomed
      /\ call.step = "removing" =>
           /\ <<call.id, call.for>> \in memoryPast.doomed
           /\ call.for # 0 =>
                Settled(call.for) /\ \A id \in call.old : <<id, call.for>> \in memoryPast.doomed
      /\ call.step = "reading" =>
           \A id \in call.due : memoryFiles[id] = "whole" /\ (id \in call.shown \/ id \in call.left)

MemoryInv ==
  /\ MemoryTyped /\ OneRemoval /\ ReplacedBySettled
  /\ \A id \in memoryPast.remembered : Settled(id)
  /\ \A c \in Rememberers : CallHolds(c)
  /\ memoryPast.recall.due \subseteq memoryPast.recall.shown

LEMMA MemoryIdFacts ==
  /\ \A id \in MemoryIds : id \in Nat /\ id # 0 /\ id \in 1 .. MaxMemories
  /\ \A n \in 0 .. MaxMemories : 1 .. n \subseteq MemoryIds
  /\ \A n \in 0 .. MaxMemories : n < MaxMemories => n + 1 \in MemoryIds /\ n + 1 \in 0 .. MaxMemories
BY MemoriesAssumption DEF MemoryIds

LEMMA PastParts ==
  ASSUME NEW past \in MemoryPasts
  PROVE  /\ past.remembered \subseteq MemoryIds /\ past.doomed \subseteq MemoryIds \X (MemoryIds \union {0})
         /\ past.told \in [MemoryIds -> Nat] /\ past.recall \in Recollections
BY DEF MemoryPasts

LEMMA CallKinds ==
  ASSUME NEW call \in MemoryCallTypes
  PROVE  /\ call.step \in {"idle", "writing", "replacing", "removing", "reading"}
         /\ call.step = "writing" =>
              call \in WritingCalls /\ call.id \in MemoryIds /\ call.old \subseteq MemoryIds
         /\ call.step = "replacing" =>
              call \in ReplacingCalls /\ call.id \in MemoryIds /\ call.old \subseteq MemoryIds
         /\ call.step = "removing" =>
              /\ call \in RemovingCalls /\ call.id \in MemoryIds /\ call.old \subseteq MemoryIds
              /\ call.for \in MemoryIds \union {0}
         /\ call.step = "reading" =>
              /\ call \in ReadingCalls /\ call.left \subseteq MemoryIds /\ call.shown \subseteq MemoryIds
              /\ call.due \subseteq MemoryIds
<1>1. NoMemoryCall.step = "idle"
  BY DEF NoMemoryCall
<1>2. CASE call = NoMemoryCall
  BY <1>1, <1>2
<1>3. CASE call \in WritingCalls
  BY <1>3 DEF WritingCalls
<1>4. CASE call \in ReplacingCalls
  BY <1>4 DEF ReplacingCalls
<1>5. CASE call \in RemovingCalls
  BY <1>5 DEF RemovingCalls
<1>6. CASE call \in ReadingCalls
  BY <1>6 DEF ReadingCalls
<1> QED
  BY <1>2, <1>3, <1>4, <1>5, <1>6 DEF MemoryCallTypes

LEMMA MadeCalls ==
  /\ NoMemoryCall \in MemoryCallTypes /\ NoMemoryCall.step = "idle"
  /\ \A id \in MemoryIds, old \in SUBSET MemoryIds :
       /\ [step |-> "writing", id |-> id, old |-> old] \in MemoryCallTypes
       /\ [step |-> "replacing", id |-> id, old |-> old] \in MemoryCallTypes
       /\ \A for \in MemoryIds \union {0} :
            [step |-> "removing", id |-> id, for |-> for, old |-> old] \in MemoryCallTypes
  /\ \A left, shown, due \in SUBSET MemoryIds :
       [step |-> "reading", left |-> left, shown |-> shown, due |-> due] \in MemoryCallTypes
BY DEF NoMemoryCall, MemoryCallTypes, WritingCalls, ReplacingCalls, RemovingCalls, ReadingCalls

LEMMA MemoryInitInv == MemoriesInit => MemoryInv
<1> SUFFICES ASSUME MemoriesInit PROVE MemoryInv
  OBVIOUS
<1> DEFINE past == [remembered |-> {}, doomed |-> {}, told |-> [id \in MemoryIds |-> 0],
                    recall |-> NoRecall]
<1>1. memoryPast = past /\ memoryIds = 0 /\ \A c \in Rememberers : memoryCalls[c] = NoMemoryCall
  BY DEF MemoriesInit
<1>2. /\ past \in MemoryPasts /\ past.remembered = {} /\ past.recall.due = {}
      /\ \A id \in MemoryIds : past.told[id] = 0
  BY DEF MemoryPasts, Recollections, NoRecall
<1> HIDE DEF past
<1>3. MemoryTyped
  BY <1>1, <1>2, MadeCalls, MemoriesAssumption, SMTT(30) DEF MemoriesInit, MemoryTyped
<1>4. OneRemoval
  BY <1>1, <1>2, MemoryIdFacts DEF MemoriesInit, OneRemoval
<1>5. ReplacedBySettled
  BY <1>1, <1>2 DEF ReplacedBySettled
<1>6. \A c \in Rememberers : CallHolds(c)
  BY <1>1, MadeCalls DEF CallHolds
<1> QED
  BY <1>1, <1>2, <1>3, <1>4, <1>5, <1>6 DEF MemoryInv

LEMMA MemoryParts ==
  ASSUME MemoryInv
  PROVE  /\ memoryFiles \in [MemoryIds -> {"none", "torn", "whole"}]
         /\ memoryCalls \in [Rememberers -> MemoryCallTypes]
         /\ memoryIds \in 0 .. MaxMemories /\ memoryIds \in Nat
         /\ memoryPast \in MemoryPasts
         /\ OneRemoval /\ ReplacedBySettled
         /\ \A id \in memoryPast.remembered : Settled(id)
         /\ \A c \in Rememberers : CallHolds(c)
         /\ memoryPast.recall.due \subseteq memoryPast.recall.shown
BY MemoriesAssumption DEF MemoryInv, MemoryTyped

(* What holds of a call goes on holding while others write.                *)
LEMMA CallStays ==
  ASSUME MemoryInv, NEW c \in Rememberers, memoryCalls'[c] = memoryCalls[c],
         memoryIds \in Nat, memoryIds' \in Nat, memoryIds <= memoryIds',
         memoryPast.doomed \subseteq memoryPast'.doomed,
         \A id \in MemoryIds : Settled(id) => Settled(id)',
         \A id \in MemoryIds : memoryFiles[id] = "whole" => memoryFiles'[id] = "whole"
  PROVE  CallHolds(c)'
<1>1. CallHolds(c) /\ memoryCalls[c] \in MemoryCallTypes
  BY MemoryParts
<1>2. memoryCalls[c].step = "writing" => memoryCalls[c].id <= memoryIds'
  BY <1>1, CallKinds, MemoryIdFacts DEF CallHolds
<1>3. memoryCalls[c].step = "replacing" =>
        /\ Settled(memoryCalls[c].id)'
        /\ \A id \in memoryCalls[c].old : <<id, memoryCalls[c].id>> \in memoryPast'.doomed
  <2>1. memoryCalls[c].step = "replacing" =>
          (Settled(memoryCalls[c].id) =>
             \/ memoryFiles'[memoryCalls[c].id] = "whole"
             \/ memoryPast'.told[memoryCalls[c].id] = 1)
    BY <1>1, CallKinds DEF Settled
  <2> QED
    BY <1>1, <2>1 DEF CallHolds, Settled
<1>4. memoryCalls[c].step = "removing" =>
        /\ <<memoryCalls[c].id, memoryCalls[c].for>> \in memoryPast'.doomed
        /\ memoryCalls[c].for # 0 =>
             /\ memoryFiles'[memoryCalls[c].for] = "whole" \/ memoryPast'.told[memoryCalls[c].for] = 1
             /\ \A id \in memoryCalls[c].old : <<id, memoryCalls[c].for>> \in memoryPast'.doomed
  BY <1>1, CallKinds DEF CallHolds, Settled
<1>5. memoryCalls[c].step = "reading" =>
        \A id \in memoryCalls[c].due :
          memoryFiles'[id] = "whole" /\ (id \in memoryCalls[c].shown \/ id \in memoryCalls[c].left)
  BY <1>1, CallKinds DEF CallHolds
<1> QED
  BY <1>2, <1>3, <1>4, <1>5 DEF CallHolds, Settled

(* A step of one call, in which no whole file goes.                        *)
LEMMA MemoryGoesOn ==
  ASSUME MemoryInv, NEW c \in Rememberers, NEW call \in MemoryCallTypes, CallGoes(c, call),
         memoryFiles' \in [MemoryIds -> {"none", "torn", "whole"}], memoryIds' \in 0 .. MaxMemories,
         memoryIds <= memoryIds', memoryPast' \in MemoryPasts,
         memoryPast.doomed \subseteq memoryPast'.doomed, memoryPast'.told = memoryPast.told,
         \A id \in MemoryIds : memoryFiles[id] = "whole" => memoryFiles'[id] = "whole",
         OneRemoval', \A id \in memoryPast'.remembered : id \in memoryPast.remembered \/ Settled(id)',
         memoryPast'.recall.due \subseteq memoryPast'.recall.shown,
         memoryCalls'[c] = call => CallHolds(c)'
  PROVE  MemoryInv'
<1>1. memoryCalls'[c] = call /\ \A d \in Rememberers : d # c => memoryCalls'[d] = memoryCalls[d]
  BY MemoryParts DEF CallGoes
<1>2. \A id \in MemoryIds : Settled(id) => Settled(id)'
  BY DEF Settled
<1>3. MemoryTyped'
  BY MemoryParts DEF MemoryTyped, CallGoes
<1>4. ReplacedBySettled'
  <2>1. ASSUME NEW id \in MemoryIds, memoryPast'.told[id] > 0
        PROVE  \E for \in MemoryIds \union {0} :
                 <<id, for>> \in memoryPast'.doomed /\ (for = 0 \/ Settled(for)')
    <3>1. PICK for \in MemoryIds \union {0} :
            <<id, for>> \in memoryPast.doomed /\ (for = 0 \/ Settled(for))
      BY <2>1, MemoryParts DEF ReplacedBySettled
    <3> QED
      BY <1>2, <3>1
  <2> QED
    BY <2>1 DEF ReplacedBySettled
<1>5. \A id \in memoryPast'.remembered : Settled(id)'
  BY <1>2, MemoryParts, PastParts
<1>6. \A d \in Rememberers : CallHolds(d)'
  <2>1. ASSUME NEW d \in Rememberers, d # c PROVE CallHolds(d)'
    BY <1>1, <1>2, <2>1, MemoryParts, CallStays, MemoriesAssumption
  <2> QED
    BY <1>1, <2>1
<1> QED
  BY <1>3, <1>4, <1>5, <1>6 DEF MemoryInv

LEMMA RemembersKeeps == ASSUME MemoryInv, NEW c \in Rememberers, Remembers(c) PROVE MemoryInv'
<1> DEFINE id == memoryIds + 1
<1>1. /\ memoryIds' = id /\ memoryFiles' = [memoryFiles EXCEPT ![id] = "torn"]
      /\ memoryPast' = memoryPast /\ id \in MemoryIds /\ id \in 0 .. MaxMemories
      /\ memoryIds < id /\ memoryIds <= id
  BY MemoryParts, MemoryIdFacts DEF Remembers
<1>2. PICK old \in SUBSET (1 .. memoryIds) :
        CallGoes(c, [step |-> "writing", id |-> id, old |-> old])
  BY DEF Remembers
<1> DEFINE call == [step |-> "writing", id |-> id, old |-> old]
<1>3. call \in MemoryCallTypes /\ call.step = "writing" /\ call.id = id
  BY <1>1, <1>2, MadeCalls, MemoryParts, MemoryIdFacts
<1>4. CallGoes(c, call)
  BY <1>2
<1> HIDE DEF call
<1>5. /\ memoryFiles' \in [MemoryIds -> {"none", "torn", "whole"}] /\ memoryFiles'[id] = "torn"
      /\ \A k \in MemoryIds : k # id => memoryFiles'[k] = memoryFiles[k]
  BY <1>1, MemoryParts
<1>6. memoryFiles[id] = "none" /\ memoryPast.told[id] = 0
  BY <1>1, MemoryParts DEF OneRemoval
<1>7. OneRemoval'
  <2>1. ASSUME NEW k \in MemoryIds, k # id
        PROVE  (k > id <=> k > memoryIds) /\ (k <= id <=> k <= memoryIds)
    BY <2>1, MemoryParts, MemoryIdFacts
  <2>2. ~(id > id) /\ memoryPast.told[id] = 0 /\ memoryFiles'[id] # "none"
    BY <1>1, <1>5, <1>6, MemoryIdFacts
  <2>3. OneRemoval /\ memoryIds' = id /\ memoryPast' = memoryPast
    BY <1>1, MemoryParts
  <2> HIDE DEF id
  <2> QED
    BY <1>5, <2>1, <2>2, <2>3 DEF OneRemoval
<1>8. memoryCalls'[c] = call => CallHolds(c)'
  <2>1. id <= memoryIds'
    BY <1>1, MemoryIdFacts
  <2> QED
    BY <1>3, <2>1 DEF CallHolds
<1> HIDE DEF id
<1> QED
  BY <1>1, <1>3, <1>4, <1>5, <1>6, <1>7, <1>8, MemoryParts, MemoryGoesOn

LEMMA MemoryIdle == ASSUME NEW c, memoryCalls'[c] = NoMemoryCall PROVE CallHolds(c)'
BY MadeCalls DEF CallHolds

(* Nothing but the call itself.                                            *)
LEMMA CallGoesOn ==
  ASSUME MemoryInv, NEW c \in Rememberers, NEW call \in MemoryCallTypes, CallGoes(c, call),
         UNCHANGED <<memoryFiles, memoryIds, memoryPast>>,
         memoryCalls'[c] = call => CallHolds(c)'
  PROVE  MemoryInv'
<1>1. OneRemoval' /\ memoryIds <= memoryIds'
  BY MemoryParts DEF OneRemoval
<1> QED
  BY <1>1, MemoryParts, MemoryGoesOn

LEMMA MemoryCallLostKeeps == ASSUME MemoryInv, NEW c \in Rememberers, MemoryCallLost(c) PROVE MemoryInv'
BY MadeCalls, MemoryIdle, CallGoesOn DEF MemoryCallLost

LEMMA WritesMemoryKeeps == ASSUME MemoryInv, NEW c \in Rememberers, WritesMemory(c) PROVE MemoryInv'
<1> DEFINE call == memoryCalls[c]
<1>1. /\ call \in MemoryCallTypes /\ call.id \in MemoryIds /\ call.old \subseteq MemoryIds
      /\ call.id <= memoryIds /\ memoryIds' = memoryIds
  BY MemoryParts, CallKinds DEF WritesMemory, CallHolds
<1>2. CASE CallGoes(c, NoMemoryCall) /\ UNCHANGED <<memoryFiles, memoryPast>>
  BY <1>1, <1>2, MadeCalls, MemoryIdle, CallGoesOn
<1>3. CASE /\ memoryFiles' = [memoryFiles EXCEPT ![call.id] = IF @ = "none" THEN @ ELSE "whole"]
           /\ CallGoes(c, [step |-> "replacing", id |-> call.id, old |-> call.old])
           /\ memoryPast' = [memoryPast EXCEPT !.doomed = @ \union (call.old \X {call.id})]
  <2> DEFINE next == [step |-> "replacing", id |-> call.id, old |-> call.old]
  <2>1. next \in MemoryCallTypes /\ next.step = "replacing" /\ next.id = call.id /\ next.old = call.old
    BY <1>1, MadeCalls
  <2>2. /\ memoryPast' \in MemoryPasts /\ memoryPast'.told = memoryPast.told
        /\ memoryPast'.remembered = memoryPast.remembered /\ memoryPast'.recall = memoryPast.recall
        /\ memoryPast'.doomed = memoryPast.doomed \union (call.old \X {call.id})
    <3>1. memoryPast \in MemoryPasts /\ call.old \X {call.id} \subseteq MemoryIds \X (MemoryIds \union {0})
      BY <1>1, MemoryParts
    <3> HIDE DEF call
    <3> QED
      BY <1>3, <3>1 DEF MemoryPasts
  <2>3. /\ memoryFiles' \in [MemoryIds -> {"none", "torn", "whole"}]
        /\ \A id \in MemoryIds : id # call.id => memoryFiles'[id] = memoryFiles[id]
        /\ memoryFiles'[call.id] = IF memoryFiles[call.id] = "none" THEN "none" ELSE "whole"
    BY <1>1, <1>3, MemoryParts
  <2>4. CallGoes(c, next)
    BY <1>3
  <2> HIDE DEF next, call
  <2>5. OneRemoval'
    BY <1>1, <2>2, <2>3, MemoryParts DEF OneRemoval
  <2>6. memoryFiles'[call.id] = "whole" \/ memoryPast'.told[call.id] = 1
    <3>1. memoryFiles[call.id] = "none" => memoryPast.told[call.id] = 1
      BY <1>1, MemoryParts DEF OneRemoval
    <3> QED
      BY <2>2, <2>3, <3>1
  <2>7. memoryCalls'[c] = next => CallHolds(c)'
    <3>1. \A id \in call.old : <<id, call.id>> \in memoryPast'.doomed
      BY <2>2
    <3> QED
      BY <2>1, <2>6, <3>1 DEF CallHolds, Settled
  <2>8. memoryIds <= memoryIds' /\ memoryIds' \in 0 .. MaxMemories
    BY <1>1, MemoryParts
  <2>9. \A id \in MemoryIds : memoryFiles[id] = "whole" => memoryFiles'[id] = "whole"
    BY <2>3
  <2>10. memoryPast.doomed \subseteq memoryPast'.doomed
    BY <2>2
  <2> QED
    BY <2>1, <2>2, <2>3, <2>4, <2>5, <2>7, <2>8, <2>9, <2>10, MemoryParts, MemoryGoesOn
<1> QED
  BY <1>2, <1>3 DEF WritesMemory

LEMMA ForgetsKeeps == ASSUME MemoryInv, NEW c \in Rememberers, Forgets(c) PROVE MemoryInv'
<1>1. PICK id \in 1 .. memoryIds :
        /\ CallGoes(c, [step |-> "removing", id |-> id, for |-> 0, old |-> {}])
        /\ memoryPast' = [memoryPast EXCEPT !.doomed = @ \union {<<id, 0>>}]
  BY DEF Forgets
<1> DEFINE call == [step |-> "removing", id |-> id, for |-> 0, old |-> {}]
<1>2. id \in MemoryIds /\ UNCHANGED <<memoryFiles, memoryIds>>
  BY <1>1, MemoryParts, MemoryIdFacts DEF Forgets
<1>3. call \in MemoryCallTypes /\ call.step = "removing" /\ call.id = id /\ call.for = 0
  BY <1>2, MadeCalls
<1>4. /\ memoryPast' \in MemoryPasts /\ memoryPast'.told = memoryPast.told
      /\ memoryPast'.remembered = memoryPast.remembered /\ memoryPast'.recall = memoryPast.recall
      /\ memoryPast'.doomed = memoryPast.doomed \union {<<id, 0>>}
  <2>1. memoryPast \in MemoryPasts /\ {<<id, 0>>} \subseteq MemoryIds \X (MemoryIds \union {0})
    BY <1>2, MemoryParts
  <2> QED
    BY <1>1, <2>1 DEF MemoryPasts
<1>5. CallGoes(c, call)
  BY <1>1
<1> HIDE DEF call
<1>6. OneRemoval' /\ memoryIds <= memoryIds' /\ memoryPast.doomed \subseteq memoryPast'.doomed
  BY <1>2, <1>4, MemoryParts DEF OneRemoval
<1>7. memoryCalls'[c] = call => CallHolds(c)'
  <2>1. <<id, 0>> \in memoryPast'.doomed
    BY <1>4
  <2> QED
    BY <1>3, <2>1 DEF CallHolds
<1> QED
  BY <1>2, <1>3, <1>4, <1>5, <1>6, <1>7, MemoryParts, MemoryGoesOn

LEMMA ReplacesKeeps == ASSUME MemoryInv, NEW c \in Rememberers, Replaces(c) PROVE MemoryInv'
<1> DEFINE call == memoryCalls[c]
<1>1. /\ call \in ReplacingCalls /\ call.id \in MemoryIds /\ call.old \subseteq MemoryIds
      /\ Settled(call.id) /\ \A id \in call.old : <<id, call.id>> \in memoryPast.doomed
      /\ UNCHANGED <<memoryFiles, memoryIds>>
  BY MemoryParts, CallKinds DEF Replaces, CallHolds
<1>2. CASE /\ CallGoes(c, NoMemoryCall)
           /\ memoryPast' = [memoryPast EXCEPT !.remembered = @ \union {call.id}]
  <2>1. /\ memoryPast' \in MemoryPasts /\ memoryPast'.told = memoryPast.told
        /\ memoryPast'.remembered = memoryPast.remembered \union {call.id}
        /\ memoryPast'.recall = memoryPast.recall /\ memoryPast'.doomed = memoryPast.doomed
    <3>1. memoryPast \in MemoryPasts /\ {call.id} \subseteq MemoryIds
      BY <1>1, MemoryParts
    <3> HIDE DEF call
    <3> QED
      BY <1>2, <3>1 DEF MemoryPasts
  <2>2. \A id \in memoryPast'.remembered : id \in memoryPast.remembered \/ Settled(id)'
    BY <1>1, <2>1 DEF Settled
  <2>3. OneRemoval' /\ memoryIds <= memoryIds' /\ memoryPast.doomed \subseteq memoryPast'.doomed
    BY <1>1, <2>1, MemoryParts DEF OneRemoval
  <2> QED
    BY <1>1, <1>2, <2>1, <2>2, <2>3, MadeCalls, MemoryIdle, MemoryParts, MemoryGoesOn
<1>3. CASE /\ \E id \in call.old :
                CallGoes(c, IF id \in Stored
                  THEN [step |-> "removing", id |-> id, for |-> call.id, old |-> call.old \ {id}]
                  ELSE [call EXCEPT !.old = @ \ {id}])
           /\ UNCHANGED memoryPast
  <2>1. PICK id \in call.old :
          CallGoes(c, IF id \in Stored
            THEN [step |-> "removing", id |-> id, for |-> call.id, old |-> call.old \ {id}]
            ELSE [call EXCEPT !.old = @ \ {id}])
    BY <1>3
  <2> DEFINE one == [step |-> "removing", id |-> id, for |-> call.id, old |-> call.old \ {id}]
             two == [call EXCEPT !.old = @ \ {id}]
             k == call.id
             old == call.old
  <2>2. /\ one \in MemoryCallTypes /\ one.step = "removing" /\ one.id = id /\ one.for = k
        /\ one.old \subseteq old /\ k # 0
    BY <1>1, MadeCalls, MemoryIdFacts
  <2>3. /\ two \in MemoryCallTypes /\ two.step = "replacing" /\ two.id = k /\ two.old \subseteq old
    <3>1. two \in ReplacingCalls /\ two.step = "replacing" /\ two.id = k /\ two.old \subseteq old
      BY <1>1 DEF ReplacingCalls
    <3> QED
      BY <3>1 DEF MemoryCallTypes
  <2>4. CallGoes(c, one) \/ CallGoes(c, two)
    BY <2>1
  <2> HIDE DEF one, two
  <2>5. /\ memoryFiles'[k] = "whole" \/ memoryPast'.told[k] = 1
        /\ \A o \in old : <<o, k>> \in memoryPast'.doomed
    BY <1>1, <1>3 DEF Settled
  <2>6. memoryCalls'[c] = one => CallHolds(c)'
    <3> HIDE DEF k, old
    <3> QED
      BY <2>1, <2>2, <2>5 DEF CallHolds, Settled, old
  <2>7. memoryCalls'[c] = two => CallHolds(c)'
    <3> HIDE DEF k, old
    <3> QED
      BY <2>3, <2>5 DEF CallHolds, Settled
  <2> QED
    BY <1>1, <1>3, <2>2, <2>3, <2>4, <2>6, <2>7, CallGoesOn
<1> QED
  BY <1>2, <1>3 DEF Replaces

LEMMA RecallsKeeps == ASSUME MemoryInv, NEW c \in Rememberers, Recalls(c) PROVE MemoryInv'
<1> DEFINE whole == {id \in Stored : memoryFiles[id] = "whole"}
           call == [step |-> "reading", left |-> MemoryIds, shown |-> {}, due |-> whole]
<1>1. /\ call \in MemoryCallTypes /\ call.step = "reading" /\ call.left = MemoryIds /\ call.due = whole
      /\ whole \subseteq MemoryIds
  BY MadeCalls DEF Stored
<1>2. CallGoes(c, call) /\ UNCHANGED <<memoryFiles, memoryIds, memoryPast>>
  BY DEF Recalls
<1>3. \A id \in whole : memoryFiles[id] = "whole" /\ id \in MemoryIds
  BY DEF Stored
<1> HIDE DEF call, whole
<1>4. memoryCalls'[c] = call => CallHolds(c)'
  <2>1. \A id \in call.due : memoryFiles'[id] = "whole" /\ id \in call.left
    BY <1>1, <1>2, <1>3
  <2> QED
    BY <1>1, <2>1 DEF CallHolds
<1> QED
  BY <1>1, <1>2, <1>4, CallGoesOn

LEMMA ReadsMemoryKeeps == ASSUME MemoryInv, NEW c \in Rememberers, ReadsMemory(c) PROVE MemoryInv'
<1> DEFINE call == memoryCalls[c]
<1>1. /\ call \in ReadingCalls /\ call.left \subseteq MemoryIds /\ call.shown \subseteq MemoryIds
      /\ call.due \subseteq MemoryIds
      /\ \A id \in call.due : memoryFiles[id] = "whole" /\ (id \in call.shown \/ id \in call.left)
      /\ UNCHANGED <<memoryFiles, memoryIds>>
  BY MemoryParts, CallKinds DEF ReadsMemory, CallHolds
<1>2. CASE /\ call.left = {}
           /\ CallGoes(c, NoMemoryCall)
           /\ memoryPast' = [memoryPast EXCEPT !.recall = [due |-> call.due, shown |-> call.shown]]
  <2>1. [due |-> call.due, shown |-> call.shown] \in Recollections /\ call.due \subseteq call.shown
    BY <1>1, <1>2 DEF Recollections
  <2>2. /\ memoryPast' \in MemoryPasts /\ memoryPast'.told = memoryPast.told
        /\ memoryPast'.remembered = memoryPast.remembered /\ memoryPast'.doomed = memoryPast.doomed
        /\ memoryPast'.recall.due \subseteq memoryPast'.recall.shown
    <3>1. memoryPast \in MemoryPasts
      BY MemoryParts
    <3> QED
      BY <1>2, <2>1, <3>1 DEF MemoryPasts
  <2>3. OneRemoval' /\ memoryIds <= memoryIds' /\ memoryPast.doomed \subseteq memoryPast'.doomed
    BY <1>1, <2>2, MemoryParts DEF OneRemoval
  <2> QED
    BY <1>1, <1>2, <2>2, <2>3, MadeCalls, MemoryIdle, MemoryParts, MemoryGoesOn
<1>3. CASE /\ \E id \in call.left :
                CallGoes(c, [call EXCEPT !.left = @ \ {id},
                  !.shown = IF memoryFiles[id] = "whole" THEN @ \union {id} ELSE @])
           /\ UNCHANGED memoryPast
  <2>1. PICK id \in call.left :
          CallGoes(c, [call EXCEPT !.left = @ \ {id},
            !.shown = IF memoryFiles[id] = "whole" THEN @ \union {id} ELSE @])
    BY <1>3
  <2> DEFINE next == [call EXCEPT !.left = @ \ {id},
                        !.shown = IF memoryFiles[id] = "whole" THEN @ \union {id} ELSE @]
  <2>2. /\ next \in ReadingCalls /\ next.step = "reading" /\ next.due = call.due
        /\ next.left = call.left \ {id}
        /\ next.shown = IF memoryFiles[id] = "whole" THEN call.shown \union {id} ELSE call.shown
    <3>1. call.left \ {id} \subseteq MemoryIds /\ call.shown \union {id} \subseteq MemoryIds
      BY <1>1
    <3> QED
      BY <1>1, <3>1 DEF ReadingCalls
  <2>3. next \in MemoryCallTypes
    BY <2>2 DEF MemoryCallTypes
  <2>4. CallGoes(c, next)
    BY <2>1
  <2>5. \A k \in next.due : memoryFiles'[k] = "whole" /\ (k \in next.shown \/ k \in next.left)
    <3> HIDE DEF next
    <3> QED
      BY <1>1, <2>2
  <2> HIDE DEF next
  <2>6. memoryCalls'[c] = next => CallHolds(c)'
    BY <2>2, <2>5 DEF CallHolds
  <2> QED
    BY <1>1, <1>3, <2>3, <2>4, <2>6, CallGoesOn
<1> QED
  BY <1>2, <1>3 DEF ReadsMemory

(* A file that goes has been given out, was not reported as gone before,   *)
(* and the call that removes it knows what it was removed for.             *)
LEMMA RemovesMemoryKeeps == ASSUME MemoryInv, NEW c \in Rememberers, RemovesMemory(c) PROVE MemoryInv'
<1> DEFINE call == memoryCalls[c]
           next == IF call.for = 0 THEN NoMemoryCall
                   ELSE [step |-> "replacing", id |-> call.for, old |-> call.old]
           others == IF memoryFiles'[call.id] = "none" THEN NotDue(call.id) ELSE memoryCalls
           k == call.id
<1>1. /\ call \in RemovingCalls /\ k \in MemoryIds /\ call.old \subseteq MemoryIds
      /\ call.for \in MemoryIds \union {0} /\ <<k, call.for>> \in memoryPast.doomed
      /\ call.for # 0 =>
           Settled(call.for) /\ \A id \in call.old : <<id, call.for>> \in memoryPast.doomed
      /\ memoryIds' = memoryIds
  BY MemoryParts, CallKinds DEF RemovesMemory, CallHolds
<1>2. next \in MemoryCallTypes
  BY <1>1, MadeCalls
<1>3. memoryCalls' = [others EXCEPT ![c] = next]
  BY DEF RemovesMemory
<1>4. \/ /\ k \in Stored
         /\ memoryFiles' = [memoryFiles EXCEPT ![k] = "none"]
         /\ memoryPast' = [memoryPast EXCEPT !.told[k] = @ + 1]
      \/ UNCHANGED <<memoryFiles, memoryPast>>
  BY DEF RemovesMemory
<1>5. /\ memoryPast' \in MemoryPasts /\ memoryPast'.doomed = memoryPast.doomed
      /\ memoryPast'.remembered = memoryPast.remembered /\ memoryPast'.recall = memoryPast.recall
      /\ \A id \in MemoryIds : id # k => memoryPast'.told[id] = memoryPast.told[id]
  <2>1. memoryPast \in MemoryPasts /\ memoryPast.told \in [MemoryIds -> Nat]
    BY MemoryParts, PastParts
  <2>2. [memoryPast.told EXCEPT ![k] = @ + 1] \in [MemoryIds -> Nat]
    BY <1>1, <2>1
  <2> HIDE DEF k
  <2>3. CASE memoryPast' = [memoryPast EXCEPT !.told[k] = @ + 1]
    <3> DEFINE told == [memoryPast.told EXCEPT ![k] = @ + 1]
    <3>1. told \in [MemoryIds -> Nat] /\ \A id \in MemoryIds : id # k => told[id] = memoryPast.told[id]
      BY <2>1, <2>2
    <3>2. memoryPast' = [memoryPast EXCEPT !.told = told]
      BY <2>3
    <3> HIDE DEF told
    <3> QED
      BY <2>1, <3>1, <3>2 DEF MemoryPasts
  <2> QED
    BY <1>4, <2>1, <2>3
<1>6. /\ memoryFiles' \in [MemoryIds -> {"none", "torn", "whole"}]
      /\ \A id \in MemoryIds : id # k => memoryFiles'[id] = memoryFiles[id]
  BY <1>1, <1>4, MemoryParts
<1>7. \/ memoryFiles[k] # "none" /\ memoryFiles'[k] = "none" /\ memoryPast.told[k] = 0 /\ memoryPast'.told[k] = 1
         /\ k <= memoryIds
      \/ memoryFiles'[k] = memoryFiles[k] /\ memoryPast'.told[k] = memoryPast.told[k]
  <2>1. CASE UNCHANGED <<memoryFiles, memoryPast>>
    BY <2>1
  <2>2. CASE /\ k \in Stored
             /\ memoryFiles' = [memoryFiles EXCEPT ![k] = "none"]
             /\ memoryPast' = [memoryPast EXCEPT !.told[k] = @ + 1]
    <3>1. memoryFiles[k] # "none" /\ memoryFiles'[k] = "none"
      BY <1>1, <2>2, MemoryParts DEF Stored
    <3>2. ~(k > memoryIds) /\ k <= memoryIds
      BY <1>1, <3>1, MemoryParts, MemoryIdFacts DEF OneRemoval
    <3>3. memoryPast.told[k] = 0
      BY <1>1, <3>1, <3>2, MemoryParts DEF OneRemoval
    <3>4. memoryPast'.told[k] = memoryPast.told[k] + 1
      <4>1. memoryPast \in MemoryPasts /\ memoryPast.told \in [MemoryIds -> Nat]
        BY MemoryParts, PastParts
      <4> HIDE DEF k
      <4>2. memoryPast' = [memoryPast EXCEPT !.told = [memoryPast.told EXCEPT ![k] = @ + 1]]
        BY <2>2
      <4> QED
        BY <1>1, <4>1, <4>2 DEF MemoryPasts
    <3> QED
      BY <3>1, <3>2, <3>3, <3>4
  <2> QED
    BY <1>4, <2>1, <2>2
<1>8. others \in [Rememberers -> MemoryCallTypes]
  <2>1. NotDue(k) \in [Rememberers -> MemoryCallTypes]
    <3>1. ASSUME NEW d \in Rememberers, memoryCalls[d].step = "reading"
          PROVE  [memoryCalls[d] EXCEPT !.due = @ \ {k}] \in MemoryCallTypes
      <4>1. memoryCalls[d] \in ReadingCalls /\ memoryCalls[d].due \ {k} \subseteq MemoryIds
        BY <3>1, MemoryParts, CallKinds
      <4> QED
        BY <4>1 DEF ReadingCalls, MemoryCallTypes
    <3> QED
      BY <3>1, MemoryParts DEF NotDue
  <2> QED
    BY <2>1, MemoryParts
<1>9. /\ memoryCalls' \in [Rememberers -> MemoryCallTypes] /\ memoryCalls'[c] = next
      /\ \A d \in Rememberers : d # c => memoryCalls'[d] = others[d]
  BY <1>2, <1>3, <1>8
<1>10. \A id \in MemoryIds : Settled(id) =>
         memoryFiles'[id] = "whole" \/ memoryPast'.told[id] = 1
  BY <1>5, <1>6, <1>7 DEF Settled
<1>11. OneRemoval'
  BY <1>1, <1>5, <1>6, <1>7, MemoryParts, MemoryIdFacts DEF OneRemoval
<1>12. ReplacedBySettled'
  <2>1. ASSUME NEW id \in MemoryIds, memoryPast'.told[id] > 0
        PROVE  \E for \in MemoryIds \union {0} :
                 <<id, for>> \in memoryPast'.doomed /\ (for = 0 \/ Settled(for)')
    <3>1. CASE memoryPast.told[id] > 0
      <4>1. PICK for \in MemoryIds \union {0} :
              <<id, for>> \in memoryPast.doomed /\ (for = 0 \/ Settled(for))
        BY <3>1, MemoryParts DEF ReplacedBySettled
      <4> QED
        BY <1>5, <1>10, <4>1 DEF Settled
    <3>2. CASE ~(memoryPast.told[id] > 0)
      <4>1. id = k
        BY <1>5, <2>1, <3>2
      <4>2. call.for = 0 \/ (memoryFiles'[call.for] = "whole" \/ memoryPast'.told[call.for] = 1)
        BY <1>1, <1>10
      <4>3. <<k, call.for>> \in memoryPast'.doomed
        BY <1>1, <1>5
      <4> DEFINE f == call.for
      <4>4. f \in MemoryIds \union {0} /\ <<id, f>> \in memoryPast'.doomed
        BY <1>1, <4>1, <4>3
      <4>5. f = 0 \/ (memoryFiles'[f] = "whole" \/ memoryPast'.told[f] = 1)
        BY <4>2
      <4> HIDE DEF f
      <4> QED
        BY <4>4, <4>5 DEF Settled
    <3> QED
      BY <3>1, <3>2
  <2> QED
    BY <2>1 DEF ReplacedBySettled
<1>13. \A id \in memoryPast'.remembered : Settled(id)'
  BY <1>5, <1>10, MemoryParts, PastParts DEF Settled
<1>14. CallHolds(c)'
  <2>1. CASE call.for = 0
    BY <1>9, <2>1, MemoryIdle
  <2>2. CASE call.for # 0
    <3> DEFINE f == call.for
               old == call.old
    <3>1. /\ memoryFiles'[f] = "whole" \/ memoryPast'.told[f] = 1
          /\ \A id \in old : <<id, f>> \in memoryPast'.doomed
          /\ memoryCalls'[c] = [step |-> "replacing", id |-> f, old |-> old]
      BY <1>1, <1>5, <1>9, <1>10, <2>2
    <3> HIDE DEF f, old, next, others, k, call
    <3> QED
      BY <3>1 DEF CallHolds, Settled
  <2> QED
    BY <2>1, <2>2
<1>15. ASSUME NEW d \in Rememberers, d # c PROVE CallHolds(d)'
  <2>0. CallHolds(d) /\ memoryCalls[d] \in MemoryCallTypes
    BY MemoryParts
  <2>1. CASE memoryCalls[d].step # "reading"
    <3>1. memoryCalls'[d] = memoryCalls[d]
      BY <1>9, <1>15, <2>1 DEF NotDue
    <3> DEFINE m == memoryCalls[d]
    <3>2. /\ m.step = "writing" => m.id <= memoryIds'
          /\ m.step = "replacing" =>
               /\ memoryFiles'[m.id] = "whole" \/ memoryPast'.told[m.id] = 1
               /\ \A id \in m.old : <<id, m.id>> \in memoryPast'.doomed
          /\ m.step = "removing" =>
               /\ <<m.id, m.for>> \in memoryPast'.doomed
               /\ m.for # 0 =>
                    /\ memoryFiles'[m.for] = "whole" \/ memoryPast'.told[m.for] = 1
                    /\ \A id \in m.old : <<id, m.for>> \in memoryPast'.doomed
      BY <1>1, <1>5, <1>10, <2>0, CallKinds DEF CallHolds
    <3>3. memoryCalls'[d] = m /\ m.step # "reading"
      BY <2>1, <3>1
    <3> HIDE DEF m, next, others, k, call
    <3> QED
      BY <3>2, <3>3 DEF CallHolds, Settled
  <2>2. CASE memoryCalls[d].step = "reading"
    <3> DEFINE m == memoryCalls[d]
               n == memoryCalls'[d]
    <3>1. /\ m \in ReadingCalls /\ m.due \subseteq MemoryIds
          /\ \A id \in m.due : memoryFiles[id] = "whole" /\ (id \in m.shown \/ id \in m.left)
      BY <2>0, <2>2, CallKinds DEF CallHolds
    <3>2. n = IF memoryFiles'[k] = "none" THEN [m EXCEPT !.due = @ \ {k}] ELSE m
      BY <1>9, <1>15, <2>2 DEF NotDue
    <3>3. /\ n.step = "reading" /\ n.shown = m.shown /\ n.left = m.left
          /\ n.due = IF memoryFiles'[k] = "none" THEN m.due \ {k} ELSE m.due
      <4> HIDE DEF m, k, n
      <4> QED
        BY <3>1, <3>2 DEF ReadingCalls
    <3>4. \A id \in n.due : memoryFiles'[id] = "whole" /\ (id \in n.shown \/ id \in n.left)
      <4> HIDE DEF m, k, n
      <4> QED
        BY <1>6, <1>7, <3>1, <3>3
    <3> QED
      BY <3>3, <3>4 DEF CallHolds
  <2> QED
    BY <2>1, <2>2
<1>16. MemoryTyped'
  BY <1>1, <1>5, <1>6, <1>9, MemoryParts DEF MemoryTyped
<1>17. memoryPast'.recall.due \subseteq memoryPast'.recall.shown
  BY <1>5, MemoryParts
<1>18. \A d \in Rememberers : CallHolds(d)'
  BY <1>14, <1>15
<1> QED
  BY <1>11, <1>12, <1>13, <1>16, <1>17, <1>18 DEF MemoryInv

LEMMA MemoryStep == MemoryInv /\ [MemoriesNext]_memoriesVars => MemoryInv'
<1> SUFFICES ASSUME MemoryInv, [MemoriesNext]_memoriesVars PROVE MemoryInv'
  OBVIOUS
<1>1. CASE UNCHANGED memoriesVars
  BY <1>1 DEF memoriesVars, MemoryInv, MemoryTyped, OneRemoval, ReplacedBySettled, Settled,
     CallHolds
<1>2. CASE MemoriesNext
  BY <1>2, RemembersKeeps, WritesMemoryKeeps, ForgetsKeeps, ReplacesKeeps, RemovesMemoryKeeps,
     RecallsKeeps, ReadsMemoryKeeps, MemoryCallLostKeeps DEF MemoriesNext
<1> QED
  BY <1>1, <1>2

LEMMA MemoryHolds == MemoryInv => MemoriesTypeOK /\ MemoryKept
<1> SUFFICES ASSUME MemoryInv PROVE MemoriesTypeOK /\ MemoryKept
  OBVIOUS
<1>1. MemoriesTypeOK
  <2>1. MemoryIds \union {0} \subseteq 0 .. MaxMemories
    BY MemoriesAssumption DEF MemoryIds
  <2> QED
    BY <2>1, MemoryParts, PastParts DEF MemoriesTypeOK
<1>2. \A id \in memoryPast.remembered : memoryFiles[id] = "whole" \/ memoryPast.told[id] = 1
  BY MemoryParts DEF Settled
<1>3. \A id \in MemoryIds : memoryPast.told[id] <= 1
  BY MemoryParts, MemoryIdFacts DEF OneRemoval
<1>4. ASSUME NEW id \in MemoryIds, memoryPast.told[id] > 0
      PROVE  \E for \in {entry[2] : entry \in {entry \in memoryPast.doomed : entry[1] = id}} :
               for = 0 \/ memoryFiles[for] = "whole" \/ memoryPast.told[for] > 0
  <2>1. PICK for \in MemoryIds \union {0} :
          <<id, for>> \in memoryPast.doomed /\ (for = 0 \/ Settled(for))
    BY <1>4, MemoryParts DEF ReplacedBySettled
  <2>2. for \in {entry[2] : entry \in {entry \in memoryPast.doomed : entry[1] = id}}
    BY <2>1
  <2>3. for = 0 \/ memoryFiles[for] = "whole" \/ memoryPast.told[for] > 0
    <3>1. memoryPast.told[for] = 1 => memoryPast.told[for] > 0
      OBVIOUS
    <3> QED
      BY <2>1, <3>1 DEF Settled
  <2> QED
    BY <2>2, <2>3
<1> QED
  BY <1>1, <1>2, <1>3, <1>4, MemoryParts DEF MemoryKept

-----------------------------------------------------------------------------
(* Imports.                                                                *)
ImportSteps == {"servers", "profile", "next", "copies"}
ImportCallTypes ==
  {NoImport} \union [step : ImportSteps, left : SUBSET Candidates, profile : SUBSET Servers,
                     name : Files \union {NoName}]
ImportPasts ==
  [met : BOOLEAN, broke : BOOLEAN, again : SUBSET Candidates, done : SUBSET Files, over : BOOLEAN]

ImportTyped ==
  /\ imported \in [Files -> Marks] /\ noteList \in Seq(Notes)
  /\ importCalls \in [Importers -> ImportCallTypes]
  /\ importsBegun \in 0 .. MaxImports /\ importPast \in ImportPasts

Busy(c) == importCalls[c].step # "idle"

(* One import at a time stores a memory that was found absent once.        *)
ImportsApart == ~importPast.met => \A c, d \in Importers : Busy(c) /\ Busy(d) => c = d
StoredAt(note, i) == i \in DOMAIN noteList /\ noteList[i] = note
NotesOnce ==
  \A note \in Notes : note \notin importPast.again /\ ~importPast.met /\ ~importPast.over =>
    /\ \A i, j \in DOMAIN noteList : StoredAt(note, i) /\ StoredAt(note, j) => i = j
    /\ \A c \in Importers : Busy(c) /\ note \in importCalls[c].left =>
         \A i \in DOMAIN noteList : ~StoredAt(note, i)

(* Without a failure, only what is being copied is there in part.          *)
OnlyFailuresPart ==
  ~importPast.broke => \A name \in Files :
    imported[name] \in {"absent", "whole"} \/ \E c \in Importers : importCalls[c].name = name

(* What was imported is whole unless it was chosen again; what an import   *)
(* that meets no other still has to import is chosen again or not imported *)
(* before, and the profile it loaded has every server there is.            *)
DoneKept ==
  ~importPast.met =>
    /\ \A name \in importPast.done : imported[name] = "whole" \/ name \in importPast.again
    /\ \A c \in Importers :
         /\ importCalls[c].left \intersect importPast.done \subseteq importPast.again
         /\ importCalls[c].step = "profile" =>
              \A name \in Servers : imported[name] = "whole" => name \in importCalls[c].profile

(* A call has the name of what it copies, and only while it copies.        *)
NamedRight(call) ==
  IF call.step = "copies" THEN call.name \in SkillTrees \union Prompts ELSE call.name = NoName
CallsNamed == \A c \in Importers : NamedRight(importCalls[c])

ImportInv ==
  ImportTyped /\ ImportsApart /\ NotesOnce /\ OnlyFailuresPart /\ DoneKept /\ CallsNamed

LEMMA ImportCallKinds ==
  ASSUME NEW call \in ImportCallTypes
  PROVE  /\ call.step \in ImportSteps \union {"idle"}
         /\ call.step # "idle" =>
              call \in [step : ImportSteps, left : SUBSET Candidates, profile : SUBSET Servers,
                        name : Files \union {NoName}]
         /\ call.left \subseteq Candidates
         /\ NoImport \in ImportCallTypes /\ NoImport.step = "idle" /\ NoImport.left = {}
BY DEF ImportCallTypes, NoImport, ImportSteps

LEMMA ImportPastParts ==
  ASSUME NEW past \in ImportPasts
  PROVE  /\ past.met \in BOOLEAN /\ past.broke \in BOOLEAN /\ past.over \in BOOLEAN
         /\ past.again \subseteq Candidates /\ past.done \subseteq Files
BY DEF ImportPasts

LEMMA ImportInitInv == ImportsInit => ImportInv
<1> SUFFICES ASSUME ImportsInit PROVE ImportInv
  OBVIOUS
<1>1. ImportTyped
  BY ImportCallKinds, ImportsAssumption DEF ImportsInit, ImportTyped, ImportCallTypes,
     ImportPasts, Marks
<1>2. \A c \in Importers : ~Busy(c) /\ importCalls[c].left = {} /\ importCalls[c].step # "profile"
  BY ImportCallKinds DEF ImportsInit, Busy, NoImport
<1>3. /\ noteList = <<>> /\ importPast.done = {}
      /\ \A name \in Files : imported[name] = "absent"
  BY DEF ImportsInit
<1>4. \A i \in DOMAIN noteList : FALSE
  BY <1>3
<1>5. CallsNamed
  BY DEF ImportsInit, CallsNamed, NamedRight, NoImport
<1> QED
  BY <1>1, <1>2, <1>3, <1>4, <1>5 DEF ImportInv, ImportsApart, NotesOnce, OnlyFailuresPart, DoneKept

(* A call that goes on with no more to import and stores no memory.        *)
LEMMA ImportGoesOn ==
  ASSUME ImportInv, NEW c \in Importers, Busy(c), NEW call \in ImportCallTypes, ImportGoes(c, call),
         imported' \in [Files -> Marks], UNCHANGED <<noteList, importsBegun>>, importPast' \in ImportPasts,
         importPast'.met = importPast.met, importPast'.again = importPast.again,
         importPast'.over = importPast.over, OnlyFailuresPart', DoneKept', NamedRight(call),
         call.step # "idle" => call.left \subseteq importCalls[c].left
  PROVE  ImportInv'
<1>1. importCalls'[c] = call /\ \A d \in Importers : d # c => importCalls'[d] = importCalls[d]
  BY DEF ImportGoes, ImportInv, ImportTyped
<1>2. ImportTyped'
  BY DEF ImportGoes, ImportInv, ImportTyped
<1>3. \A d \in Importers : Busy(d)' => Busy(d) /\ importCalls'[d].left \subseteq importCalls[d].left
  BY <1>1 DEF Busy
<1>4. ImportsApart'
  BY <1>3 DEF ImportInv, ImportsApart
<1>5. NotesOnce'
  BY <1>3 DEF ImportInv, NotesOnce, StoredAt
<1>6. CallsNamed'
  BY <1>1 DEF ImportInv, CallsNamed, NamedRight
<1> QED
  BY <1>2, <1>4, <1>5, <1>6 DEF ImportInv

LEMMA ImportFailsOn ==
  ASSUME ImportInv, NEW c \in Importers, Busy(c), ImportFails(c),
         UNCHANGED <<imported, noteList, importsBegun>>
  PROVE  ImportInv'
<1>1. /\ importPast' \in ImportPasts /\ importPast'.met = importPast.met
      /\ importPast'.again = importPast.again /\ importPast'.over = importPast.over
      /\ importPast'.done = importPast.done /\ importPast'.broke = TRUE
  BY DEF ImportFails, ImportInv, ImportTyped, ImportPasts
<1>2. /\ NoImport \in ImportCallTypes /\ NoImport.step = "idle" /\ NoImport.left = {}
      /\ ImportGoes(c, NoImport) /\ NamedRight(NoImport)
  BY DEF ImportFails, ImportCallTypes, NoImport, NamedRight
<1>3. OnlyFailuresPart'
  BY <1>1 DEF OnlyFailuresPart
<1>4. \A d \in Importers : importCalls'[d] = IF d = c THEN NoImport ELSE importCalls[d]
  BY <1>2 DEF ImportGoes, ImportInv, ImportTyped
<1>5. DoneKept'
  BY <1>1, <1>2, <1>4 DEF ImportInv, DoneKept
<1>6. imported' \in [Files -> Marks]
  BY DEF ImportInv, ImportTyped
<1> QED
  BY <1>1, <1>2, <1>3, <1>5, <1>6, ImportGoesOn

LEMMA LoadsServersKeeps == ASSUME ImportInv, NEW c \in Importers, LoadsServers(c) PROVE ImportInv'
<1> DEFINE mine == importCalls[c]
           here == {name \in Servers : imported[name] = "whole"}
           on == [mine EXCEPT !.step = "next"]
           loads == [mine EXCEPT !.step = "profile", !.profile = here]
<1>1. /\ Busy(c) /\ mine.step = "servers"
      /\ mine \in [step : ImportSteps, left : SUBSET Candidates, profile : SUBSET Servers,
                   name : Files \union {NoName}]
      /\ UNCHANGED <<imported, noteList, importsBegun>>
  BY ImportCallKinds DEF LoadsServers, Busy, ImportInv, ImportTyped
<1>2. /\ imported' \in [Files -> Marks] /\ importPast \in ImportPasts
      /\ importCalls \in [Importers -> ImportCallTypes]
  BY <1>1 DEF ImportInv, ImportTyped
<1>3. ASSUME NEW call \in ImportCallTypes, call \in {on, loads}, ImportGoes(c, call), UNCHANGED importPast
      PROVE  ImportInv'
  <2>1. /\ call.left = mine.left /\ call.name = mine.name
        /\ call.step = "profile" => call.profile = here
        /\ NamedRight(call)
    BY <1>1, <1>3 DEF ImportSteps, NamedRight, ImportInv, CallsNamed
  <2> HIDE DEF on, loads
  <2>2. \A d \in Importers : importCalls'[d] = IF d = c THEN call ELSE importCalls[d]
    BY <1>2, <1>3 DEF ImportGoes
  <2>3. OnlyFailuresPart'
    BY <1>1, <1>3, <2>1, <2>2 DEF ImportInv, OnlyFailuresPart
  <2>4. DoneKept'
    BY <1>1, <1>3, <2>1, <2>2 DEF ImportInv, DoneKept
  <2> QED
    BY <1>1, <1>2, <1>3, <2>1, <2>3, <2>4, ImportGoesOn
<1>4. on \in ImportCallTypes /\ loads \in ImportCallTypes
  BY <1>1 DEF ImportCallTypes, ImportSteps
<1>5. CASE ImportFails(c)
  BY <1>1, <1>5, ImportFailsOn
<1> QED
  BY <1>3, <1>4, <1>5 DEF LoadsServers, ImportTo

(* What is copied to its end.                                              *)
LEMMA ImportCopiedOn ==
  ASSUME ImportInv, NEW c \in Importers, Busy(c), NEW names \in SUBSET Files, Copied(c, names),
         UNCHANGED <<noteList, importsBegun>>, imported' \in [Files -> Marks],
         importCalls[c].name # NoName => importCalls[c].name \in names,
         \A name \in names : imported'[name] = "whole",
         \A name \in Files \ names :
           \/ imported'[name] = imported[name] \/ imported'[name] = "whole"
           \/ imported'[name] = "absent" /\ (importPast.met \/ imported[name] # "whole")
  PROVE  ImportInv'
<1> DEFINE mine == importCalls[c]
           call == [mine EXCEPT !.step = "next", !.left = @ \ names, !.profile = {}, !.name = NoName]
<1>1. mine \in [step : ImportSteps, left : SUBSET Candidates, profile : SUBSET Servers,
                name : Files \union {NoName}]
  BY ImportCallKinds DEF Busy, ImportInv, ImportTyped
<1>2. /\ call \in ImportCallTypes /\ call.left = mine.left \ names /\ call.step = "next"
      /\ call.name = NoName /\ NamedRight(call)
  BY <1>1 DEF ImportCallTypes, ImportSteps, NamedRight
<1>3. ImportGoes(c, call) /\ importPast' = [importPast EXCEPT !.done = @ \union names]
  BY DEF Copied
<1> HIDE DEF call
<1>4. /\ importPast' \in ImportPasts /\ importPast'.met = importPast.met
      /\ importPast'.again = importPast.again /\ importPast'.over = importPast.over
      /\ importPast'.done = importPast.done \union names /\ importPast'.broke = importPast.broke
  BY <1>3 DEF ImportInv, ImportTyped, ImportPasts
<1>5. \A d \in Importers : importCalls'[d] = IF d = c THEN call ELSE importCalls[d]
  BY <1>3 DEF ImportGoes, ImportInv, ImportTyped
<1>6. OnlyFailuresPart'
  <2> SUFFICES ASSUME ~importPast.broke, NEW name \in Files, imported'[name] \notin {"absent", "whole"}
               PROVE  \E d \in Importers : importCalls'[d].name = name
    BY <1>4 DEF OnlyFailuresPart
  <2>1. name \notin names /\ imported[name] = imported'[name]
    OBVIOUS
  <2>2. PICK d \in Importers : importCalls[d].name = name
    BY <2>1 DEF ImportInv, OnlyFailuresPart
  <2>3. d # c
    BY <2>1, <2>2, ImportsAssumption
  <2> QED
    BY <1>5, <2>2, <2>3
<1>7. DoneKept'
  <2> SUFFICES ASSUME ~importPast.met
               PROVE  /\ \A name \in importPast'.done : imported'[name] = "whole" \/ name \in importPast'.again
                      /\ \A d \in Importers :
                           /\ importCalls'[d].left \intersect importPast'.done \subseteq importPast'.again
                           /\ importCalls'[d].step = "profile" =>
                                \A name \in Servers : imported'[name] = "whole" => name \in importCalls'[d].profile
    BY <1>4 DEF DoneKept
  <2>1. \A d \in Importers : d # c => ~Busy(d)
    BY DEF ImportInv, ImportsApart
  <2>2. \A d \in Importers : d # c => importCalls'[d] = NoImport
    BY <1>5, <2>1 DEF Busy, ImportInv, ImportTyped, ImportCallTypes, ImportSteps
  <2>3. importPast.done \subseteq Files
    BY ImportPastParts DEF ImportInv, ImportTyped
  <2>4. ASSUME NEW name \in importPast'.done PROVE imported'[name] = "whole" \/ name \in importPast'.again
    BY <1>4, <2>3, <2>4 DEF ImportInv, DoneKept
  <2>5. ASSUME NEW d \in Importers
        PROVE  /\ importCalls'[d].left \intersect importPast'.done \subseteq importPast'.again
               /\ importCalls'[d].step # "profile"
    <3>1. CASE d = c
      BY <1>2, <1>4, <1>5, <3>1 DEF ImportInv, DoneKept
    <3>2. CASE d # c
      BY <2>2, <3>2 DEF NoImport
    <3> QED
      BY <3>1, <3>2
  <2> QED
    BY <2>4, <2>5
<1> QED
  BY <1>2, <1>3, <1>4, <1>6, <1>7, ImportGoesOn

LEMMA SavesServersKeeps == ASSUME ImportInv, NEW c \in Importers, SavesServers(c) PROVE ImportInv'
<1> DEFINE servers == importCalls[c].left \intersect Servers
           saved == importCalls[c].profile \union servers
<1>1. /\ Busy(c) /\ importCalls[c].step = "profile" /\ UNCHANGED <<noteList, importsBegun>>
      /\ importCalls[c].name = NoName
  BY DEF SavesServers, Busy, ImportInv, CallsNamed, NamedRight
<1>2. imported \in [Files -> Marks]
  BY DEF ImportInv, ImportTyped
<1>3. CASE /\ imported' = [name \in Files |->
                 IF name \notin Servers THEN imported[name]
                 ELSE IF name \in saved THEN "whole" ELSE "absent"]
           /\ Copied(c, servers)
  <2>1. servers \in SUBSET Files /\ imported' \in [Files -> Marks]
    BY <1>2, <1>3 DEF Files, Marks
  <2>2. ~importPast.met => \A name \in Servers : imported[name] = "whole" => name \in saved
    BY <1>1 DEF ImportInv, DoneKept
  <2>3. \A name \in servers : imported'[name] = "whole"
    BY <1>3, <2>1
  <2>4. \A name \in Files \ servers :
          \/ imported'[name] = imported[name] \/ imported'[name] = "whole"
          \/ imported'[name] = "absent" /\ (importPast.met \/ imported[name] # "whole")
    BY <1>3, <2>2
  <2> QED
    BY <1>1, <1>3, <2>1, <2>3, <2>4, ImportCopiedOn
<1>4. CASE ImportFails(c) /\ UNCHANGED imported
  BY <1>1, <1>4, ImportFailsOn
<1> QED
  BY <1>3, <1>4 DEF SavesServers

LEMMA CopyBeginsKeeps == ASSUME ImportInv, NEW c \in Importers, CopyBegins(c) PROVE ImportInv'
<1> DEFINE mine == importCalls[c]
<1>1. /\ Busy(c) /\ mine.step = "next" /\ UNCHANGED <<noteList, importsBegun, importPast>>
      /\ mine \in [step : ImportSteps, left : SUBSET Candidates, profile : SUBSET Servers,
                   name : Files \union {NoName}]
  BY ImportCallKinds DEF CopyBegins, Busy, ImportInv, ImportTyped
<1>0. PICK name \in Due(mine.left) \ Notes : \E mark \in BegunMarks(name) :
        /\ imported' = [imported EXCEPT ![name] = mark]
        /\ ImportGoes(c, [mine EXCEPT !.step = "copies", !.name = name])
  BY DEF CopyBegins
<1>2. PICK mark \in BegunMarks(name) :
        /\ imported' = [imported EXCEPT ![name] = mark]
        /\ ImportGoes(c, [mine EXCEPT !.step = "copies", !.name = name])
  BY <1>0
<1>3. name \in mine.left /\ name \in SkillTrees \union Prompts /\ name \in Files /\ name \notin Servers
  BY <1>1, <1>2, ImportsAssumption DEF Due, Candidates, Files
<1> DEFINE call == [mine EXCEPT !.step = "copies", !.name = name]
<1>4. /\ call \in ImportCallTypes /\ call.left = mine.left /\ call.name = name
      /\ call.step = "copies" /\ NamedRight(call)
  BY <1>1, <1>3 DEF ImportCallTypes, ImportSteps, NamedRight
<1>5. imported \in [Files -> Marks] /\ mark \in Marks /\ importPast' \in ImportPasts
  BY <1>1, <1>2 DEF ImportInv, ImportTyped, Marks, BegunMarks
<1>6. ImportGoes(c, call)
  BY <1>2
<1> HIDE DEF call
<1>7. /\ \A d \in Importers : importCalls'[d] = IF d = c THEN call ELSE importCalls[d]
      /\ \A n \in Files : imported'[n] = IF n = name THEN mark ELSE imported[n]
      /\ imported' \in [Files -> Marks]
  BY <1>2, <1>3, <1>5, <1>6 DEF ImportGoes, ImportInv, ImportTyped
<1>8. OnlyFailuresPart'
  <2>1. mine.name = NoName /\ NoName \notin Files
    BY <1>1, ImportsAssumption DEF ImportInv, CallsNamed, NamedRight
  <2> QED
    BY <1>1, <1>4, <1>7, <2>1 DEF ImportInv, OnlyFailuresPart
<1>9. DoneKept'
  <2> SUFFICES ASSUME ~importPast.met
               PROVE  /\ \A n \in importPast.done : imported'[n] = "whole" \/ n \in importPast.again
                      /\ \A d \in Importers :
                           /\ importCalls'[d].left \intersect importPast.done \subseteq importPast.again
                           /\ importCalls'[d].step = "profile" =>
                                \A n \in Servers : imported'[n] = "whole" => n \in importCalls'[d].profile
    BY <1>1 DEF DoneKept
  <2>1. importPast.done \subseteq Files /\ Servers \subseteq Files
    BY ImportPastParts DEF ImportInv, ImportTyped, Files
  <2>2. name \in importPast.done => name \in importPast.again
    BY <1>3 DEF ImportInv, DoneKept
  <2>3. \A n \in importPast.done : imported'[n] = "whole" \/ n \in importPast.again
    BY <1>7, <2>1, <2>2 DEF ImportInv, DoneKept
  <2>4. \A n \in Servers : imported'[n] = imported[n]
    BY <1>3, <1>7, <2>1
  <2>5. \A d \in Importers :
          /\ importCalls'[d].left \intersect importPast.done \subseteq importPast.again
          /\ importCalls'[d].step = "profile" =>
               \A n \in Servers : imported'[n] = "whole" => n \in importCalls'[d].profile
    BY <1>4, <1>7, <2>4 DEF ImportInv, DoneKept
  <2> QED
    BY <2>3, <2>5
<1> QED
  BY <1>1, <1>4, <1>5, <1>6, <1>7, <1>8, <1>9, ImportGoesOn

LEMMA CopyEndsKeeps == ASSUME ImportInv, NEW c \in Importers, CopyEnds(c) PROVE ImportInv'
<1> DEFINE name == importCalls[c].name
<1>1. /\ Busy(c) /\ UNCHANGED <<noteList, importsBegun>> /\ Copied(c, {name})
      /\ imported' = [imported EXCEPT ![name] = "whole"]
  BY DEF CopyEnds, Busy
<1>2. name \in Files /\ imported \in [Files -> Marks]
  BY DEF CopyEnds, ImportInv, ImportTyped, CallsNamed, NamedRight, Files
<1> HIDE DEF name
<1>3. /\ imported' \in [Files -> Marks] /\ {name} \in SUBSET Files
      /\ \A n \in {name} : imported'[n] = "whole"
      /\ \A n \in Files \ {name} : imported'[n] = imported[n]
  BY <1>1, <1>2 DEF Marks
<1>4. importCalls[c].name # NoName => importCalls[c].name \in {name}
  BY DEF name
<1> QED
  BY <1>1, <1>3, <1>4, ImportCopiedOn

LEMMA CopyFailsKeeps == ASSUME ImportInv, NEW c \in Importers, CopyFails(c) PROVE ImportInv'
BY ImportFailsOn DEF CopyFails, Busy

LEMMA ImportEndsKeeps == ASSUME ImportInv, NEW c \in Importers, ImportEnds(c) PROVE ImportInv'
<1>1. /\ Busy(c) /\ NoImport \in ImportCallTypes /\ NoImport.step = "idle" /\ NoImport.left = {}
      /\ UNCHANGED <<imported, noteList, importsBegun, importPast>> /\ ImportGoes(c, NoImport)
      /\ NamedRight(NoImport) /\ importCalls[c].name = NoName
  BY DEF ImportEnds, Busy, ImportCallTypes, NoImport, NamedRight, ImportInv, CallsNamed
<1>2. \A d \in Importers : importCalls'[d] = IF d = c THEN NoImport ELSE importCalls[d]
  BY <1>1 DEF ImportGoes, ImportInv, ImportTyped
<1>3. OnlyFailuresPart' /\ imported' \in [Files -> Marks] /\ importPast' \in ImportPasts
  BY <1>1, <1>2, ImportsAssumption DEF ImportInv, ImportTyped, OnlyFailuresPart
<1>4. DoneKept'
  BY <1>1, <1>2 DEF ImportInv, DoneKept
<1> QED
  BY <1>1, <1>3, <1>4, ImportGoesOn

LEMMA StoresNoteKeeps == ASSUME ImportInv, NEW c \in Importers, StoresNote(c) PROVE ImportInv'
<1>1. /\ Busy(c) /\ importCalls[c] \in [step : ImportSteps, left : SUBSET Candidates,
                                       profile : SUBSET Servers, name : Files \union {NoName}]
      /\ importCalls[c].step = "next" /\ UNCHANGED <<imported, importsBegun>>
  BY ImportCallKinds DEF StoresNote, Busy, ImportInv, ImportTyped
<1>2. PICK note \in importCalls[c].left \intersect Notes :
        \/ /\ noteList' = Append(noteList, note)
           /\ ImportGoes(c, [importCalls[c] EXCEPT !.left = @ \ {note}])
           /\ UNCHANGED importPast
        \/ ImportFails(c) /\ UNCHANGED noteList
  BY DEF StoresNote, Due
<1>3. CASE ImportFails(c) /\ UNCHANGED noteList
  BY <1>1, <1>3, ImportFailsOn DEF ImportInv, ImportTyped
<1>4. CASE /\ noteList' = Append(noteList, note)
           /\ ImportGoes(c, [importCalls[c] EXCEPT !.left = @ \ {note}])
           /\ UNCHANGED importPast
  <2> DEFINE call == [importCalls[c] EXCEPT !.left = @ \ {note}]
  <2>1. /\ call \in ImportCallTypes /\ call.step = "next" /\ call.left = importCalls[c].left \ {note}
        /\ call.name = importCalls[c].name /\ NamedRight(call)
    BY <1>1 DEF ImportCallTypes, ImportSteps, NamedRight, ImportInv, CallsNamed
  <2>2. ImportGoes(c, call)
    BY <1>4
  <2> HIDE DEF call
  <2>3. importCalls'[c] = call /\ \A d \in Importers : d # c => importCalls'[d] = importCalls[d]
    BY <2>2 DEF ImportGoes, ImportInv, ImportTyped
  <2>4. noteList \in Seq(Notes)
    BY DEF ImportInv, ImportTyped
  <2>5. noteList' \in Seq(Notes)
    BY <1>2, <1>4, <2>4
  <2>6. ImportTyped'
    <3>1. importCalls' \in [Importers -> ImportCallTypes]
      BY <2>1, <2>2 DEF ImportGoes, ImportInv, ImportTyped
    <3>2. /\ imported' \in [Files -> Marks] /\ importsBegun' \in 0 .. MaxImports
          /\ importPast' \in ImportPasts
      BY <1>1, <1>4 DEF ImportInv, ImportTyped
    <3> QED
      BY <2>5, <3>1, <3>2 DEF ImportTyped
  <2>7. \A d \in Importers : Busy(d)' => Busy(d) /\ importCalls'[d].left \subseteq importCalls[d].left
    BY <1>1, <2>1, <2>3 DEF Busy
  <2>8. ImportsApart'
    BY <1>4, <2>7 DEF ImportInv, ImportsApart
  <2>9. OnlyFailuresPart' /\ DoneKept' /\ CallsNamed'
    <3>1. OnlyFailuresPart'
      BY <1>1, <1>4, <2>1, <2>3 DEF ImportInv, OnlyFailuresPart
    <3>2. DoneKept'
      BY <1>1, <1>4, <2>1, <2>3 DEF ImportInv, DoneKept
    <3>3. CallsNamed'
      BY <2>1, <2>3 DEF ImportInv, CallsNamed, NamedRight
    <3> QED
      BY <3>1, <3>2, <3>3
  <2>10. /\ \A i \in DOMAIN noteList' : i \in DOMAIN noteList \/ i = Len(noteList) + 1
         /\ \A i \in DOMAIN noteList : noteList'[i] = noteList[i] /\ i # Len(noteList) + 1
         /\ noteList'[Len(noteList) + 1] = note
    BY <1>4, <2>4
  <2>11. ASSUME NEW m \in Notes, m \notin importPast.again, ~importPast.met, ~importPast.over
         PROVE  /\ \A i, j \in DOMAIN noteList' : noteList'[i] = m /\ noteList'[j] = m => i = j
                /\ \A d \in Importers : Busy(d)' /\ m \in importCalls'[d].left =>
                     \A i \in DOMAIN noteList' : noteList'[i] # m
    <3>1. /\ \A i, j \in DOMAIN noteList : noteList[i] = m /\ noteList[j] = m => i = j
          /\ \A d \in Importers : Busy(d) /\ m \in importCalls[d].left =>
               \A i \in DOMAIN noteList : noteList[i] # m
      BY <2>11 DEF ImportInv, NotesOnce, StoredAt
    <3>2. CASE m = note
      <4>1. \A i \in DOMAIN noteList : noteList[i] # m
        BY <1>1, <1>2, <3>1, <3>2
      <4>2. \A i, j \in DOMAIN noteList' : noteList'[i] = m /\ noteList'[j] = m => i = j
        BY <2>10, <4>1
      <4>3. \A d \in Importers : Busy(d)' => d = c /\ m \notin importCalls'[d].left
        BY <1>1, <2>1, <2>3, <2>7, <2>11, <3>2 DEF ImportInv, ImportsApart
      <4> QED
        BY <4>2, <4>3
    <3>3. CASE m # note
      BY <2>7, <2>10, <3>1, <3>3
    <3> QED
      BY <3>2, <3>3
  <2>12. NotesOnce'
    BY <1>4, <2>11 DEF NotesOnce, StoredAt
  <2> QED
    BY <2>6, <2>8, <2>9, <2>12 DEF ImportInv
<1> QED
  BY <1>2, <1>3, <1>4

LEMMA ImportDiscoversKeeps == ASSUME ImportInv, NEW c \in Importers, Discovers(c) PROVE ImportInv'
<1>1. PICK chosen \in ({Candidates \ Present} \union SUBSET Candidates) \ {{}} :
        /\ importCalls' = [importCalls EXCEPT ![c] = [step |-> "servers", left |-> chosen,
                                                     profile |-> {}, name |-> NoName]]
        /\ importPast' = [importPast EXCEPT
             !.met = @ \/ \E d \in Importers : importCalls[d].step # "idle",
             !.again = @ \union (chosen \intersect Present),
             !.over = @ \/ Len(noteList) > RecallLimit]
  BY DEF Discovers
<1> DEFINE busy == \E d \in Importers : importCalls[d].step # "idle"
           call == [step |-> "servers", left |-> chosen, profile |-> {}, name |-> NoName]
           long == Len(noteList) > RecallLimit
<1>2. /\ chosen \subseteq Candidates /\ noteList \in Seq(Notes) /\ importPast \in ImportPasts
      /\ UNCHANGED <<imported, noteList>> /\ importsBegun' = importsBegun + 1
      /\ importsBegun < MaxImports /\ importsBegun \in 0 .. MaxImports
  BY <1>1 DEF Discovers, ImportInv, ImportTyped
<1>3. /\ call \in ImportCallTypes /\ call.step = "servers" /\ call.left = chosen
      /\ call.name = NoName /\ NamedRight(call)
  BY <1>2 DEF ImportCallTypes, ImportSteps, NamedRight
<1>4. /\ importPast' \in ImportPasts /\ importPast'.broke = importPast.broke
      /\ importPast'.done = importPast.done
      /\ importPast'.again = importPast.again \union (chosen \intersect Present)
      /\ importPast'.met = (importPast.met \/ busy) /\ importPast'.over = (importPast.over \/ long)
  <2>1. importPast.again \union (chosen \intersect Present) \subseteq Candidates
    BY <1>2, ImportPastParts
  <2>2. (importPast.met \/ busy) \in BOOLEAN /\ (importPast.over \/ long) \in BOOLEAN
    OBVIOUS
  <2> HIDE DEF busy, long
  <2>3. importPast' = [importPast EXCEPT !.met = importPast.met \/ busy,
                         !.again = importPast.again \union (chosen \intersect Present),
                         !.over = importPast.over \/ long]
    BY <1>1 DEF busy, long
  <2> QED
    BY <1>2, <2>1, <2>2, <2>3 DEF ImportPasts
<1>5. importCalls'[c] = call /\ \A d \in Importers : d # c => importCalls'[d] = importCalls[d]
  BY <1>1 DEF ImportInv, ImportTyped
<1>6. ImportTyped'
  <2>1. importsBegun' \in 0 .. MaxImports
    BY <1>2, ImportsAssumption
  <2> QED
    BY <1>1, <1>2, <1>3, <1>4, <2>1 DEF ImportInv, ImportTyped
<1>7. ImportsApart'
  BY <1>4, <1>5 DEF ImportsApart, Busy
<1>8. OnlyFailuresPart' /\ DoneKept' /\ CallsNamed'
  <2>1. importCalls[c].name = NoName
    BY DEF Discovers, ImportInv, CallsNamed, NamedRight
  <2>2. OnlyFailuresPart'
    BY <1>2, <1>4, <1>5, <2>1, ImportsAssumption DEF ImportInv, OnlyFailuresPart
  <2>3. ASSUME ~importPast'.met, NEW name \in chosen \intersect importPast.done
        PROVE  name \in importPast'.again
    <3>1. name \in Files /\ (imported[name] = "whole" \/ name \in importPast.again)
      BY <1>2, <1>4, <2>3, ImportPastParts DEF ImportInv, DoneKept
    <3>2. imported[name] = "whole" => name \in Present
      BY <3>1 DEF Present, Files
    <3> QED
      BY <1>4, <2>3, <3>1, <3>2
  <2>4. DoneKept'
    BY <1>2, <1>3, <1>4, <1>5, <2>3 DEF ImportInv, DoneKept
  <2>5. CallsNamed'
    BY <1>3, <1>5 DEF ImportInv, CallsNamed, NamedRight
  <2> QED
    BY <2>2, <2>4, <2>5
<1>9. NotesOnce'
  <2>1. ASSUME NEW m \in Notes, m \notin importPast'.again, ~importPast'.met, ~importPast'.over
        PROVE  /\ \A i, j \in DOMAIN noteList : noteList[i] = m /\ noteList[j] = m => i = j
               /\ \A d \in Importers : Busy(d)' /\ m \in importCalls'[d].left =>
                    \A i \in DOMAIN noteList : noteList[i] # m
    <3>1. ~busy /\ ~long /\ m \notin chosen \intersect Present /\ m \notin importPast.again
          /\ ~importPast.met /\ ~importPast.over
      BY <1>2, <1>4, <2>1, ImportPastParts
    <3>2. \A i, j \in DOMAIN noteList : noteList[i] = m /\ noteList[j] = m => i = j
      BY <3>1 DEF ImportInv, NotesOnce, StoredAt
    <3>3. \A d \in Importers : Busy(d)' => d = c
      BY <1>5, <3>1 DEF Busy
    <3>4. ASSUME m \in chosen, NEW i \in DOMAIN noteList PROVE noteList[i] # m
      <4>1. m \notin Recalled
        BY <3>1, <3>4 DEF Present
      <4>2. i + RecallLimit > Len(noteList)
        BY <1>2, <3>1, <3>4, ImportsAssumption
      <4> QED
        BY <3>4, <4>1, <4>2 DEF Recalled
    <3> QED
      BY <1>3, <1>5, <3>2, <3>3, <3>4
  <2> QED
    BY <1>2, <2>1 DEF NotesOnce, StoredAt
<1> QED
  BY <1>6, <1>7, <1>8, <1>9 DEF ImportInv

LEMMA ImportStep == ImportInv /\ [ImportsNext]_importVars => ImportInv'
<1> SUFFICES ASSUME ImportInv, [ImportsNext]_importVars PROVE ImportInv'
  OBVIOUS
<1>1. CASE UNCHANGED importVars
  BY <1>1 DEF importVars, ImportInv, ImportTyped, ImportsApart, NotesOnce, StoredAt,
     OnlyFailuresPart, Busy, DoneKept, CallsNamed, NamedRight
<1>2. CASE ImportsNext
  BY <1>2, ImportDiscoversKeeps, LoadsServersKeeps, SavesServersKeeps, CopyBeginsKeeps,
     CopyEndsKeeps, CopyFailsKeeps, StoresNoteKeeps, ImportEndsKeeps DEF ImportsNext
<1> QED
  BY <1>1, <1>2

LEMMA ImportHolds == ImportInv => ImportsTypeOK /\ ImportOnce
<1> SUFFICES ASSUME ImportInv PROVE ImportsTypeOK /\ ImportOnce
  OBVIOUS
<1>1. ImportsTypeOK
  BY DEF ImportInv, ImportTyped, ImportsTypeOK
<1>2. ASSUME NEW note \in Notes, note \notin importPast.again, ~importPast.met, ~importPast.over
      PROVE  ~(Times(note) > 1)
  <2> DEFINE S == {i \in DOMAIN noteList : noteList[i] = note}
  <2>1. \A i, j \in S : i = j
    BY <1>2 DEF ImportInv, NotesOnce, StoredAt
  <2>2. CASE S = {}
    <3>1. Cardinality(S) = 0
      BY <2>2, FS_EmptySet
    <3> QED
      BY <3>1 DEF Times
  <2>3. CASE S # {}
    <3>1. PICK i \in S : TRUE
      BY <2>3
    <3>2. S = {i}
      BY <2>1, <3>1
    <3>3. Cardinality(S) = 1
      BY <3>2, FS_Singleton
    <3> QED
      BY <3>3 DEF Times
  <2> QED
    BY <2>2, <2>3
<1>3. ASSUME ~importPast.broke, NEW name \in Present \intersect Files
      PROVE  imported[name] = "whole" \/ \E c \in Importers : importCalls[c].name = name
  <2>1. name \notin Recalled
    BY <1>3, ImportsAssumption DEF ImportInv, ImportTyped, Recalled
  <2> QED
    BY <1>3, <2>1 DEF ImportInv, OnlyFailuresPart, Present
<1>4. ~importPast.met => \A name \in importPast.done :
        imported[name] = "whole" \/ name \in importPast.again
  BY DEF ImportInv, DoneKept
<1> QED
  BY <1>1, <1>2, <1>3, <1>4 DEF ImportOnce

-----------------------------------------------------------------------------
(* Skills.                                                                 *)
Backups == [second : 0 .. MaxSeconds, text : SkillTexts]
Directories == [there : BOOLEAN, text : SkillTexts, kept : SUBSET Backups]
SkillSteps == {"idle", "write", "text", "backup", "proposal", "rename", "create"}
SkillCallTypes ==
  [step : SkillSteps, place : Places \union {Gone}, text : 0 .. MaxSkillTexts, old : SkillTexts]
SkillPasts ==
  [approved : SUBSET SkillTexts, corrections : SUBSET SkillTexts, lost : SUBSET SkillTexts,
   met : BOOLEAN, tied : BOOLEAN, cut : BOOLEAN, last : SkillTexts]

SkillTyped ==
  /\ skillAt \in [Places -> Directories]
  /\ skillCalls \in [SkillCallers -> SkillCallTypes]
  /\ skillClock \in [second : 0 .. MaxSeconds, texts : 0 .. MaxSkillTexts]
  /\ skillLoaded \in SkillTexts
  /\ skillPast \in SkillPasts

(* A call that writes has a text, and while its text is under way the file *)
(* it opened is there, unless it was removed.                              *)
CallRight(call) ==
  /\ call.step \notin {"idle", "rename"} => call.text \in 1 .. MaxSkillTexts
  /\ call.place = Gone => call.step = "text"
  /\ call.step = "proposal" => call.place = "proposed"
  /\ call.step = "text" /\ call.place # Gone =>
       skillAt[call.place].there /\ skillAt[call.place].text # NoText

DirectoriesWhole ==
  /\ \A place \in Places : ~skillAt[place].there => skillAt[place] = NoDirectory
  /\ \A c \in SkillCallers : CallRight(skillCalls[c])

(* What is installed was approved or corrects what was, and so is what a   *)
(* call is about to write there.                                           *)
Gated(past) == past.approved \union past.corrections
MayWrite(call) ==
  call.step \in {"backup", "write", "text"} /\ call.place = "installed" => call.text \in Gated(skillPast)
InstalledGated ==
  /\ TextOf(skillAt["installed"].text) \in {NoText} \union Gated(skillPast)
  /\ TextOf(skillLoaded) \in {NoText} \union Gated(skillPast)
  /\ \A c \in SkillCallers : MayWrite(skillCalls[c])

(* While no two calls overlap, what a revision is about to replace is what *)
(* it read, and is kept once the backup is made; and a text that is under  *)
(* way is the part that is in its file.                                    *)
TextKept(dir) == dir.text = NoText \/ \E backup \in dir.kept : backup.text = dir.text
Keeping(call) ==
  /\ call.step = "backup" => skillAt[call.place].text \in {NoText, call.old}
  /\ call.step = "write" /\ call.old # NoText => TextKept(skillAt[call.place])
  /\ call.step = "text" /\ call.place # Gone => skillAt[call.place].text = PartOf(call.text)

(* And a part is only what is being written or was cut off.                *)
Whole(text) == text <= MaxSkillTexts
PartsExplained ==
  \A place \in Places : Whole(skillAt[place].text) \/ skillPast.cut \/ OpenIn(place) # {}

RevisionsKeep ==
  /\ ~skillPast.met =>
       /\ \A c, d \in SkillCallers :
            skillCalls[c].step # "idle" /\ skillCalls[d].step # "idle" => c = d
       /\ \A c \in SkillCallers : Keeping(skillCalls[c])
       /\ TextOf(skillAt["installed"].text) = skillPast.last
       /\ PartsExplained
  /\ ~skillPast.met /\ ~skillPast.tied => skillPast.lost = {}

SkillInv == SkillTyped /\ DirectoriesWhole /\ InstalledGated /\ RevisionsKeep

LEMMA TextFacts ==
  /\ NoText \in SkillTexts /\ TextOf(NoText) = NoText /\ NoText \in 0 .. MaxSkillTexts
  /\ \A n \in 0 .. MaxSkillTexts : n \in SkillTexts
  /\ \A n \in 0 .. MaxSkillTexts : n < MaxSkillTexts =>
       n + 1 \in 0 .. MaxSkillTexts /\ n + 1 \in 1 .. MaxSkillTexts /\ n + 1 \in SkillTexts
  /\ \A n \in 1 .. MaxSkillTexts : /\ PartOf(n) \in SkillTexts /\ PartOf(n) # NoText /\ n # NoText
                                   /\ TextOf(PartOf(n)) = n /\ TextOf(n) = n
  /\ \A n \in SkillTexts : TextOf(n) \in SkillTexts /\ (Whole(n) => TextOf(n) = n)
  /\ \A n \in 0 .. MaxSkillTexts : Whole(n)
  /\ 0 \in 0 .. MaxSeconds /\ 0 \in 0 .. MaxSkillTexts
BY SkillsAssumption DEF NoText, SkillTexts, TextOf, PartOf, Whole

LEMMA EmptyCalls ==
  /\ NoSkillCall \in SkillCallTypes /\ NoSkillCall.step = "idle" /\ NoSkillCall.place = "proposed"
  /\ NoSkillCall.old = NoText
  /\ NoDirectory \in Directories /\ ~NoDirectory.there /\ NoDirectory.text = NoText
  /\ "proposed" \in Places /\ "installed" \in Places /\ "proposed" # "installed" /\ Gone \notin Places
BY TextFacts DEF NoSkillCall, SkillCallTypes, SkillSteps, Places, NoDirectory, Directories, Gone

LEMMA IdleSkillCall ==
  /\ CallRight(NoSkillCall) /\ MayWrite(NoSkillCall) /\ Keeping(NoSkillCall)
  /\ CallRight(NoSkillCall)' /\ MayWrite(NoSkillCall)' /\ Keeping(NoSkillCall)'
BY DEF NoSkillCall, CallRight, MayWrite, Keeping, Gone

LEMMA SkillInitInv == SkillInit => SkillInv
<1> SUFFICES ASSUME SkillInit PROVE SkillInv
  OBVIOUS
<1>1. SkillTyped
  BY TextFacts, EmptyCalls DEF SkillInit, SkillTyped, SkillPasts
<1>2. \A c \in SkillCallers : skillCalls[c] = NoSkillCall
  BY DEF SkillInit
<1>3. \A place \in Places : skillAt[place] = NoDirectory /\ skillAt[place].text = NoText
  BY EmptyCalls DEF SkillInit
<1>4. DirectoriesWhole
  BY <1>2, <1>3, IdleSkillCall DEF DirectoriesWhole
<1>5. InstalledGated
  BY <1>2, <1>3, IdleSkillCall, EmptyCalls, TextFacts DEF SkillInit, InstalledGated
<1>6. PartsExplained
  BY <1>3, TextFacts DEF PartsExplained
<1>7. /\ skillPast.lost = {} /\ TextOf(skillAt["installed"].text) = skillPast.last
      /\ \A c \in SkillCallers : skillCalls[c].step = "idle"
  BY <1>2, <1>3, EmptyCalls, TextFacts DEF SkillInit
<1>8. RevisionsKeep
  BY <1>2, <1>6, <1>7, IdleSkillCall DEF RevisionsKeep
<1> QED
  BY <1>1, <1>4, <1>5, <1>8 DEF SkillInv

LEMMA SkillParts ==
  ASSUME SkillInv
  PROVE  /\ skillAt \in [Places -> Directories] /\ skillCalls \in [SkillCallers -> SkillCallTypes]
         /\ \A place \in Places : skillAt[place] \in Directories /\ skillAt[place].text \in SkillTexts
              /\ skillAt[place].kept \subseteq Backups
         /\ \A c \in SkillCallers : /\ skillCalls[c] \in SkillCallTypes
              /\ skillCalls[c].place \in Places \union {Gone}
              /\ skillCalls[c].text \in 0 .. MaxSkillTexts /\ skillCalls[c].old \in SkillTexts
         /\ skillClock \in [second : 0 .. MaxSeconds, texts : 0 .. MaxSkillTexts]
         /\ skillClock.second \in 0 .. MaxSeconds /\ skillClock.texts \in 0 .. MaxSkillTexts
         /\ skillLoaded \in SkillTexts /\ skillPast \in SkillPasts
         /\ DirectoriesWhole /\ InstalledGated /\ RevisionsKeep
         /\ "installed" \in Places /\ "proposed" \in Places
BY DEF SkillInv, SkillTyped, SkillCallTypes, Directories, Places

LEMMA SkillPastParts ==
  ASSUME NEW past \in SkillPasts
  PROVE  /\ past.approved \subseteq SkillTexts /\ past.corrections \subseteq SkillTexts
         /\ past.lost \subseteq SkillTexts /\ past.met \in BOOLEAN /\ past.tied \in BOOLEAN
         /\ past.cut \in BOOLEAN /\ past.last \in SkillTexts
BY DEF SkillPasts

(* A call that begins: it meets every other one that is under way.         *)
LEMMA SkillBeginKeeps ==
  ASSUME SkillInv, NEW c \in SkillCallers, NEW call \in SkillCallTypes, SkillBegins(c, call),
         skillClock' \in [second : 0 .. MaxSeconds, texts : 0 .. MaxSkillTexts],
         NEW corrections \in SUBSET SkillTexts,
         skillPast' = [skillPast EXCEPT !.met = @ \/ Meets, !.corrections = corrections],
         skillPast.corrections \subseteq corrections, CallRight(call), call.step # "text",
         call.step \in {"backup", "write"} /\ call.place = "installed" => call.text \in corrections,
         call.step = "backup" => call.old = skillAt[call.place].text,
         call.step = "write" => call.old = NoText
  PROVE  SkillInv'
<1>1. /\ skillPast' \in SkillPasts /\ skillPast'.met = (skillPast.met \/ Meets)
      /\ skillPast'.corrections = corrections /\ skillPast'.approved = skillPast.approved
      /\ skillPast'.lost = skillPast.lost /\ skillPast'.tied = skillPast.tied
      /\ skillPast'.cut = skillPast.cut /\ skillPast'.last = skillPast.last
  <2>1. skillPast \in SkillPasts /\ (skillPast.met \/ Meets) \in BOOLEAN
    BY SkillParts DEF Meets
  <2> DEFINE met == skillPast.met \/ Meets
  <2>2. met \in BOOLEAN /\ skillPast' = [skillPast EXCEPT !.met = met, !.corrections = corrections]
    BY <2>1
  <2> HIDE DEF met
  <2>3. /\ skillPast' \in SkillPasts /\ skillPast'.met = met
        /\ skillPast'.corrections = corrections /\ skillPast'.approved = skillPast.approved
        /\ skillPast'.lost = skillPast.lost /\ skillPast'.tied = skillPast.tied
        /\ skillPast'.cut = skillPast.cut /\ skillPast'.last = skillPast.last
    BY <2>1, <2>2 DEF SkillPasts
  <2> QED
    BY <2>3 DEF met
<1>2. /\ UNCHANGED <<skillAt, skillLoaded>> /\ skillCalls[c].step = "idle"
      /\ skillCalls' \in [SkillCallers -> SkillCallTypes] /\ skillCalls'[c] = call
      /\ \A d \in SkillCallers : d # c => skillCalls'[d] = skillCalls[d]
  BY SkillParts DEF SkillBegins, SkillGoes
<1>3. SkillTyped'
  BY <1>1, <1>2, SkillParts DEF SkillTyped
<1>4. DirectoriesWhole'
  BY <1>2, SkillParts DEF DirectoriesWhole, CallRight
<1>5. InstalledGated'
  <2>1. Gated(skillPast) \subseteq Gated(skillPast')
    BY <1>1 DEF Gated
  <2>2. MayWrite(call)'
    BY <1>1 DEF MayWrite, Gated
  <2>3. \A d \in SkillCallers : d # c => MayWrite(skillCalls[d])'
    BY <1>2, <2>1, SkillParts DEF InstalledGated, MayWrite
  <2>4. \A d \in SkillCallers : MayWrite(skillCalls[d])'
    BY <1>2, <2>2, <2>3 DEF MayWrite
  <2> QED
    BY <1>2, <2>1, <2>4, SkillParts DEF InstalledGated
<1>6. RevisionsKeep'
  <2>1. ASSUME ~skillPast'.met
        PROVE  /\ \A d, e \in SkillCallers :
                    skillCalls'[d].step # "idle" /\ skillCalls'[e].step # "idle" => d = e
               /\ \A d \in SkillCallers : Keeping(skillCalls[d])'
               /\ TextOf(skillAt'["installed"].text) = skillPast'.last
               /\ PartsExplained'
    <3>1. ~skillPast.met /\ ~Meets
      BY <1>1, <2>1
    <3>2. \A d \in SkillCallers : d # c => skillCalls'[d].step = "idle"
      BY <1>2, <3>1 DEF Meets
    <3>3. Keeping(skillCalls[c])'
      <4>1. call.step = "backup" => skillAt'[call.place].text = call.old
        BY <1>2
      <4> QED
        BY <1>2, <4>1 DEF Keeping
    <3>4. ASSUME NEW d \in SkillCallers, d # c PROVE Keeping(skillCalls[d])'
      BY <3>2, <3>4 DEF Keeping
    <3>5. \A place \in Places : OpenIn(place)' = OpenIn(place)
      BY <1>2 DEF OpenIn
    <3>6. TextOf(skillAt'["installed"].text) = skillPast'.last /\ PartsExplained'
      BY <1>1, <1>2, <3>1, <3>5, SkillParts DEF RevisionsKeep, PartsExplained
    <3> QED
      BY <3>2, <3>3, <3>4, <3>6
  <2>2. ~skillPast'.met /\ ~skillPast'.tied => skillPast'.lost = {}
    BY <1>1, SkillParts DEF RevisionsKeep
  <2> QED
    BY <2>1, <2>2 DEF RevisionsKeep
<1> QED
  BY <1>3, <1>4, <1>5, <1>6 DEF SkillInv

LEMMA TakesTextTyped ==
  ASSUME SkillInv, TakesText
  PROVE  /\ skillClock' \in [second : 0 .. MaxSeconds, texts : 0 .. MaxSkillTexts]
         /\ FreshText \in SkillTexts /\ FreshText \in 1 .. MaxSkillTexts /\ FreshText \in 0 .. MaxSkillTexts
BY SkillParts, TextFacts DEF TakesText, FreshText

(* An update of the history alone.                                         *)
LEMMA CorrectionsKept ==
  ASSUME SkillInv, skillPast' = [skillPast EXCEPT !.met = @ \/ Meets]
  PROVE  skillPast' = [skillPast EXCEPT !.met = @ \/ Meets, !.corrections = skillPast.corrections]
BY SkillParts DEF SkillPasts

LEMMA SkillTeachKeeps == ASSUME SkillInv, NEW c \in SkillCallers, SkillTeach(c) PROVE SkillInv'
<1> DEFINE call == [NoSkillCall EXCEPT !.step = "write", !.text = FreshText]
<1>1. /\ call \in SkillCallTypes /\ call.step = "write" /\ call.place = "proposed" /\ call.old = NoText
      /\ call.text \in 1 .. MaxSkillTexts
  BY TakesTextTyped, EmptyCalls DEF SkillTeach, SkillCallTypes, SkillSteps
<1>2. SkillBegins(c, call) /\ TakesText /\ skillPast' = [skillPast EXCEPT !.met = @ \/ Meets]
  BY DEF SkillTeach
<1> HIDE DEF call
<1>3. skillPast.corrections \in SUBSET SkillTexts /\ CallRight(call)
  BY <1>1, EmptyCalls, SkillParts, SkillPastParts DEF CallRight
<1> QED
  BY <1>1, <1>2, <1>3, EmptyCalls, TakesTextTyped, CorrectionsKept, SkillBeginKeeps

LEMMA SkillReviseKeeps == ASSUME SkillInv, NEW c \in SkillCallers, SkillRevise(c) PROVE SkillInv'
<1> DEFINE place == IF HasSkill("installed") THEN "installed" ELSE "proposed"
           call == [step |-> IF place = "installed" THEN "backup" ELSE "proposal",
                    place |-> place, text |-> FreshText, old |-> skillAt["installed"].text]
           corrections == IF place = "installed" THEN skillPast.corrections \union {FreshText}
                          ELSE skillPast.corrections
<1>1. /\ TakesText /\ SkillBegins(c, call)
      /\ skillPast' = [skillPast EXCEPT !.met = @ \/ Meets, !.corrections = corrections]
  BY DEF SkillRevise
<1>2. /\ FreshText \in SkillTexts /\ FreshText \in 1 .. MaxSkillTexts /\ FreshText \in 0 .. MaxSkillTexts
      /\ place \in Places /\ skillAt["installed"].text \in SkillTexts
  BY <1>1, TakesTextTyped, SkillParts
<1>3. /\ call \in SkillCallTypes /\ call.step \in {"backup", "proposal"} /\ call.text = FreshText
      /\ call.place = place
      /\ call.step = "proposal" => place = "proposed"
      /\ call.step = "backup" => place = "installed" /\ call.old = skillAt["installed"].text
  BY <1>2 DEF SkillCallTypes, SkillSteps
<1>4. /\ corrections \in SUBSET SkillTexts /\ skillPast.corrections \subseteq corrections
      /\ place = "installed" => FreshText \in corrections
  BY <1>2, SkillParts, SkillPastParts
<1> HIDE DEF call, place, corrections
<1>5. CallRight(call)
  BY <1>2, <1>3, EmptyCalls DEF CallRight
<1> QED
  BY <1>1, <1>3, <1>4, <1>5, TakesTextTyped, SkillBeginKeeps

LEMMA SkillApproveKeeps == ASSUME SkillInv, NEW c \in SkillCallers, SkillApprove(c) PROVE SkillInv'
<1> DEFINE call == [NoSkillCall EXCEPT !.step = "rename"]
<1>1. call \in SkillCallTypes /\ call.step = "rename" /\ call.place = "proposed"
  BY EmptyCalls DEF SkillCallTypes, SkillSteps
<1>2. /\ SkillBegins(c, call) /\ UNCHANGED skillClock
      /\ skillPast' = [skillPast EXCEPT !.met = @ \/ Meets]
  BY DEF SkillApprove
<1> HIDE DEF call
<1>3. skillPast.corrections \in SUBSET SkillTexts /\ CallRight(call)
  BY <1>1, EmptyCalls, SkillParts, SkillPastParts DEF CallRight
<1> QED
  BY <1>1, <1>2, <1>3, SkillParts, CorrectionsKept, SkillBeginKeeps

LEMMA SkillApproveFromKeeps ==
  ASSUME SkillInv, NEW c \in SkillCallers, SkillApproveFrom(c) PROVE SkillInv'
<1> DEFINE call == [NoSkillCall EXCEPT !.step = "create", !.text = FreshText]
<1>1. /\ call \in SkillCallTypes /\ call.step = "create" /\ call.place = "proposed"
      /\ call.text \in 1 .. MaxSkillTexts
  BY TakesTextTyped, EmptyCalls DEF SkillApproveFrom, SkillCallTypes, SkillSteps
<1>2. SkillBegins(c, call) /\ TakesText /\ skillPast' = [skillPast EXCEPT !.met = @ \/ Meets]
  BY DEF SkillApproveFrom
<1> HIDE DEF call
<1>3. skillPast.corrections \in SUBSET SkillTexts /\ CallRight(call)
  BY <1>1, EmptyCalls, SkillParts, SkillPastParts DEF CallRight
<1> QED
  BY <1>1, <1>2, <1>3, TakesTextTyped, CorrectionsKept, SkillBeginKeeps

(* A step of a call under way: what it changes, the others find as it was. *)
LEMMA SkillCallSteps ==
  ASSUME SkillInv, NEW c \in SkillCallers, skillCalls[c].step # "idle",
         NEW call \in SkillCallTypes, SkillGoes(c, call),
         skillAt' \in [Places -> Directories], UNCHANGED <<skillClock, skillLoaded>>,
         skillPast' \in SkillPasts, skillPast'.met = skillPast.met,
         Gated(skillPast) \subseteq Gated(skillPast'),
         ~skillPast'.met /\ ~skillPast'.tied => skillPast'.lost = {},
         \A place \in Places :
           /\ ~skillAt'[place].there => skillAt'[place] = NoDirectory
           /\ skillAt[place].there => skillAt'[place].there
           /\ skillAt[place].text # NoText => skillAt'[place].text # NoText,
         TextOf(skillAt'["installed"].text) \in {NoText} \union Gated(skillPast'),
         CallRight(call)', MayWrite(call)',
         ~skillPast.met =>
           /\ Keeping(call)' /\ TextOf(skillAt'["installed"].text) = skillPast'.last
           /\ \A place \in Places : Whole(skillAt'[place].text) \/ skillPast'.cut
                                      \/ (call.step = "text" /\ call.place = place)
  PROVE  SkillInv'
<1>1. /\ skillCalls' \in [SkillCallers -> SkillCallTypes] /\ skillCalls'[c] = call
      /\ \A d \in SkillCallers : d # c => skillCalls'[d] = skillCalls[d]
  BY SkillParts DEF SkillGoes
<1>2. SkillTyped'
  BY <1>1, SkillParts DEF SkillTyped
<1>3. DirectoriesWhole'
  <2>1. ASSUME NEW d \in SkillCallers, d # c PROVE CallRight(skillCalls[d])'
    BY <1>1, <2>1, SkillParts DEF DirectoriesWhole, CallRight
  <2>2. CallRight(skillCalls[c])'
    BY <1>1 DEF CallRight
  <2> QED
    BY <2>1, <2>2 DEF DirectoriesWhole
<1>4. InstalledGated'
  <2>1. TextOf(skillLoaded') \in {NoText} \union Gated(skillPast')
    BY SkillParts DEF InstalledGated
  <2>2. ASSUME NEW d \in SkillCallers, d # c PROVE MayWrite(skillCalls[d])'
    BY <1>1, <2>2, SkillParts DEF InstalledGated, MayWrite
  <2>3. MayWrite(skillCalls[c])'
    BY <1>1 DEF MayWrite
  <2> QED
    BY <2>1, <2>2, <2>3 DEF InstalledGated
<1>5. RevisionsKeep'
  <2>1. ASSUME ~skillPast'.met
        PROVE  /\ \A d, e \in SkillCallers :
                    skillCalls'[d].step # "idle" /\ skillCalls'[e].step # "idle" => d = e
               /\ \A d \in SkillCallers : Keeping(skillCalls[d])'
               /\ PartsExplained'
    <3>1. \A d \in SkillCallers : d # c => skillCalls'[d].step = "idle"
      BY <1>1, <2>1, SkillParts DEF RevisionsKeep
    <3>2. Keeping(skillCalls[c])'
      BY <1>1, <2>1 DEF Keeping
    <3>3. ASSUME NEW d \in SkillCallers, d # c PROVE Keeping(skillCalls[d])'
      BY <3>1, <3>3 DEF Keeping
    <3>4. \A place \in Places : call.step = "text" /\ call.place = place => c \in OpenIn(place)'
      BY <1>1 DEF OpenIn
    <3>5. PartsExplained'
      BY <2>1, <3>4 DEF PartsExplained
    <3> QED
      BY <3>1, <3>2, <3>3, <3>5
  <2> QED
    BY <2>1 DEF RevisionsKeep
<1> QED
  BY <1>2, <1>3, <1>4, <1>5 DEF SkillInv

(* What holds of a step that leaves both directories and the history.      *)
LEMMA SkillCallMoves ==
  ASSUME SkillInv, NEW c \in SkillCallers, skillCalls[c].step \notin {"idle", "text"},
         NEW call \in SkillCallTypes, SkillGoes(c, call),
         UNCHANGED <<skillAt, skillClock, skillLoaded, skillPast>>,
         CallRight(call), MayWrite(call), Keeping(call)
  PROVE  SkillInv'
<1>1. /\ skillPast \in SkillPasts /\ skillAt \in [Places -> Directories]
      /\ ~skillPast.met /\ ~skillPast.tied => skillPast.lost = {}
      /\ \A place \in Places : ~skillAt[place].there => skillAt[place] = NoDirectory
      /\ TextOf(skillAt["installed"].text) \in {NoText} \union Gated(skillPast)
      /\ ~skillPast.met => TextOf(skillAt["installed"].text) = skillPast.last
  BY SkillParts DEF RevisionsKeep, DirectoriesWhole, InstalledGated
<1>2. CallRight(call)' /\ MayWrite(call)' /\ Keeping(call)'
  BY DEF CallRight, MayWrite, Keeping
<1>3. ~skillPast.met => \A place \in Places : Whole(skillAt[place].text) \/ skillPast.cut
  BY SkillParts DEF RevisionsKeep, PartsExplained, OpenIn
<1> QED
  BY <1>1, <1>2, <1>3, SkillCallSteps

LEMMA SkillCallOver ==
  ASSUME SkillInv, NEW c \in SkillCallers, skillCalls[c].step \notin {"idle", "text"}, SkillCallEnds(c),
         UNCHANGED <<skillAt, skillClock, skillLoaded, skillPast>>
  PROVE  SkillInv'
BY EmptyCalls, IdleSkillCall, SkillCallMoves DEF SkillCallEnds

LEMMA SkillCallLostKeeps == ASSUME SkillInv, NEW c \in SkillCallers, SkillCallLost(c) PROVE SkillInv'
<1> DEFINE cut == skillPast.cut \/ skillCalls[c].step = "text"
<1>1. /\ skillCalls[c].step # "idle" /\ SkillGoes(c, NoSkillCall)
      /\ skillPast' = [skillPast EXCEPT !.cut = cut]
      /\ UNCHANGED <<skillAt, skillClock, skillLoaded>>
  BY DEF SkillCallLost, SkillCallEnds
<1>2. cut \in BOOLEAN /\ skillPast \in SkillPasts
  BY SkillParts, SkillPastParts
<1>3. ~skillPast.met => \A place \in Places : Whole(skillAt[place].text) \/ cut
  <2> SUFFICES ASSUME ~skillPast.met, NEW place \in Places, ~skillPast.cut, OpenIn(place) # {} PROVE cut
    BY SkillParts DEF RevisionsKeep, PartsExplained
  <2>1. PICK d \in SkillCallers : skillCalls[d].step = "text"
    BY DEF OpenIn
  <2>2. d = c
    BY <1>1, <2>1, SkillParts DEF RevisionsKeep
  <2> QED
    BY <2>1, <2>2
<1> HIDE DEF cut
<1>4. /\ skillPast' \in SkillPasts /\ skillPast'.met = skillPast.met
      /\ skillPast'.approved = skillPast.approved /\ skillPast'.corrections = skillPast.corrections
      /\ skillPast'.lost = skillPast.lost /\ skillPast'.tied = skillPast.tied
      /\ skillPast'.cut = cut /\ skillPast'.last = skillPast.last
  BY <1>1, <1>2 DEF SkillPasts
<1>5. /\ skillAt \in [Places -> Directories] /\ Gated(skillPast') = Gated(skillPast)
      /\ ~skillPast'.met /\ ~skillPast'.tied => skillPast'.lost = {}
      /\ \A place \in Places : ~skillAt[place].there => skillAt[place] = NoDirectory
      /\ TextOf(skillAt["installed"].text) \in {NoText} \union Gated(skillPast)
      /\ ~skillPast.met => TextOf(skillAt["installed"].text) = skillPast'.last
  BY <1>4, SkillParts DEF RevisionsKeep, DirectoriesWhole, InstalledGated, Gated
<1> QED
  BY <1>1, <1>3, <1>4, <1>5, IdleSkillCall, EmptyCalls, SkillCallSteps

LEMMA SkillReadProposalKeeps ==
  ASSUME SkillInv, NEW c \in SkillCallers, SkillReadProposal(c)
  PROVE  SkillInv'
<1> DEFINE call == [skillCalls[c] EXCEPT !.step = "backup", !.old = skillAt["proposed"].text]
<1>0. /\ skillCalls[c].place = "proposed" /\ skillCalls[c].text \in 1 .. MaxSkillTexts
      /\ skillCalls[c].step = "proposal"
  BY SkillParts DEF SkillReadProposal, DirectoriesWhole, CallRight
<1>1. CASE SkillCallEnds(c)
  BY <1>0, <1>1, SkillCallOver DEF SkillReadProposal
<1>2. CASE SkillGoes(c, call)
  <2>1. /\ call \in SkillCallTypes /\ call.step = "backup" /\ call.place = "proposed"
        /\ call.old = skillAt["proposed"].text /\ call.text = skillCalls[c].text
    <3>1. skillCalls[c] \in SkillCallTypes /\ skillAt["proposed"].text \in SkillTexts
      BY SkillParts
    <3> QED
      BY <1>0, <3>1 DEF SkillCallTypes, SkillSteps
  <2>2. UNCHANGED <<skillAt, skillClock, skillLoaded, skillPast>>
    BY DEF SkillReadProposal
  <2> HIDE DEF call
  <2>3. CallRight(call) /\ MayWrite(call) /\ Keeping(call)
    BY <1>0, <2>1, EmptyCalls DEF CallRight, MayWrite, Keeping
  <2> QED
    BY <1>0, <1>2, <2>1, <2>2, <2>3, SkillCallMoves
<1> QED
  BY <1>1, <1>2 DEF SkillReadProposal

LEMMA SkillBackupKeeps == ASSUME SkillInv, NEW c \in SkillCallers, SkillBackup(c) PROVE SkillInv'
<1> DEFINE call == skillCalls[c]
           p == call.place
           dir == skillAt[p]
           same == {kept \in dir.kept : kept.second = skillClock.second}
           backup == [second |-> skillClock.second, text |-> call.old]
           after == [dir EXCEPT !.kept = (@ \ same) \union {backup}]
           gone == {kept.text : kept \in same} \ {call.old}
<1>1. /\ call \in SkillCallTypes /\ call.step = "backup" /\ p \in Places /\ dir \in Directories
      /\ UNCHANGED <<skillClock, skillLoaded>> /\ call.old \in SkillTexts
      /\ call.text \in 1 .. MaxSkillTexts
  BY SkillParts DEF SkillBackup, DirectoriesWhole, CallRight
<1>2. CASE ~dir.there
  BY <1>1, <1>2, SkillCallOver DEF SkillBackup
<1>3. CASE dir.there
  <2>0. [call EXCEPT !.step = "write"] \in SkillCallTypes
    BY <1>1 DEF SkillCallTypes, SkillSteps
  <2>00. PICK next \in SkillCallTypes : next = [call EXCEPT !.step = "write"]
    BY <2>0
  <2>1. /\ skillAt' = [skillAt EXCEPT ![p] = after] /\ SkillGoes(c, next)
        /\ skillPast' = [skillPast EXCEPT !.tied = @ \/ same # {}, !.lost = @ \union gone]
    BY <1>3, <2>00 DEF SkillBackup
  <2>2. /\ next.step = "write" /\ next.place = p /\ next.old = call.old
        /\ next.text = call.text
    BY <1>1, <2>00 DEF SkillCallTypes, SkillSteps
  <2>3. backup \in Backups /\ backup.text = call.old
    BY <1>1, SkillParts DEF Backups
  <2>4. /\ after \in Directories /\ after.there /\ after.text = dir.text /\ backup \in after.kept
    <3>1. (dir.kept \ same) \union {backup} \subseteq Backups
      BY <1>1, <2>3, SkillParts
    <3> HIDE DEF backup, same, dir
    <3> QED
      BY <1>1, <1>3, <3>1 DEF Directories
  <2>5. gone \subseteq SkillTexts
    <3>1. \A kept \in same : kept \in Backups
      BY <1>1, SkillParts
    <3> QED
      BY <3>1 DEF Backups
  <2>6. same = {} => gone = {}
    OBVIOUS
  <2> DEFINE tied == skillPast.tied \/ same # {}
  <2>7. /\ skillPast' \in SkillPasts /\ skillPast'.met = skillPast.met
        /\ skillPast'.approved = skillPast.approved /\ skillPast'.corrections = skillPast.corrections
        /\ skillPast'.lost = skillPast.lost \union gone /\ skillPast'.tied = tied
        /\ skillPast'.cut = skillPast.cut /\ skillPast'.last = skillPast.last
    <3>1. /\ skillPast \in SkillPasts /\ tied \in BOOLEAN
          /\ skillPast.lost \union gone \subseteq SkillTexts
          /\ skillPast' = [skillPast EXCEPT !.tied = tied, !.lost = skillPast.lost \union gone]
      BY <2>1, <2>5, SkillParts, SkillPastParts
    <3> HIDE DEF tied, gone
    <3> QED
      BY <3>1 DEF SkillPasts
  <2>8. ~skillPast'.met /\ ~skillPast'.tied => skillPast'.lost = {}
    <3>2. ~tied => ~skillPast.tied /\ same = {}
      OBVIOUS
    <3> HIDE DEF tied, gone, same
    <3> QED
      BY <2>6, <2>7, <3>2, SkillParts DEF RevisionsKeep
  <2>9. Gated(skillPast') = Gated(skillPast)
    BY <2>7 DEF Gated
  <2>10. ~skillPast.met => dir.text \in {NoText, call.old}
    BY <1>1, SkillParts DEF RevisionsKeep, Keeping
  <2> HIDE DEF after, tied, gone, same
  <2>11. /\ skillAt' \in [Places -> Directories] /\ skillAt'[p] = after
         /\ \A place \in Places : place # p => skillAt'[place] = skillAt[place]
    BY <1>1, <2>1, <2>4, SkillParts
  <2>12. \A place \in Places :
           /\ ~skillAt'[place].there => skillAt'[place] = NoDirectory
           /\ skillAt[place].there => skillAt'[place].there
           /\ skillAt'[place].text = skillAt[place].text
    BY <1>1, <2>4, <2>11, SkillParts DEF DirectoriesWhole
  <2>13. /\ TextOf(skillAt'["installed"].text) \in {NoText} \union Gated(skillPast')
         /\ ~skillPast.met => TextOf(skillAt'["installed"].text) = skillPast'.last
    BY <2>7, <2>9, <2>12, SkillParts DEF InstalledGated, RevisionsKeep
  <2>14. ~skillPast.met => TextKept(skillAt'[p])
    <3> HIDE DEF backup, dir
    <3> QED
      BY <2>3, <2>4, <2>10, <2>11 DEF TextKept
  <2>15. CallRight(next)' /\ MayWrite(next)' /\ (~skillPast.met => Keeping(next)')
    <3>1. CallRight(next)'
      BY <1>1, <2>2, EmptyCalls DEF CallRight
    <3>2. MayWrite(next)'
      BY <1>1, <2>2, <2>9, SkillParts DEF InstalledGated, MayWrite
    <3>3. ~skillPast.met => Keeping(next)'
      BY <2>2, <2>14 DEF Keeping, TextKept
    <3> QED
      BY <3>1, <3>2, <3>3
  <2>16. ~skillPast.met => \A place \in Places : Whole(skillAt'[place].text) \/ skillPast'.cut
    <3>1. ~skillPast.met => \A place \in Places : OpenIn(place) = {}
      BY <1>1, SkillParts DEF RevisionsKeep, OpenIn
    <3> QED
      BY <2>7, <2>12, <3>1, SkillParts DEF RevisionsKeep, PartsExplained
  <2> QED
    BY <1>1, <2>1, <2>7, <2>8, <2>9, <2>11, <2>12, <2>13, <2>15, <2>16, SkillCallSteps
<1> QED
  BY <1>2, <1>3

LEMMA SkillOpensKeeps == ASSUME SkillInv, NEW c \in SkillCallers, SkillOpens(c) PROVE SkillInv'
<1> DEFINE call == skillCalls[c]
           p == call.place
           dir == skillAt[p]
           kept == {backup.text : backup \in dir.kept}
           lost == IF call.old # NoText /\ dir.text # NoText THEN skillPast.lost \union ({dir.text} \ kept)
                   ELSE skillPast.lost
           last == IF p = "installed" THEN call.text ELSE skillPast.last
           after == [dir EXCEPT !.there = TRUE, !.text = PartOf(call.text)]
<1>1. /\ call \in SkillCallTypes /\ call.step = "write" /\ p \in Places /\ dir \in Directories
      /\ UNCHANGED <<skillClock, skillLoaded>> /\ call.text \in 1 .. MaxSkillTexts
      /\ dir.text \in SkillTexts
  BY SkillParts DEF SkillOpens, DirectoriesWhole, CallRight
<1>0. [call EXCEPT !.step = "text"] \in SkillCallTypes
  BY <1>1 DEF SkillCallTypes, SkillSteps
<1>00. PICK next \in SkillCallTypes : next = [call EXCEPT !.step = "text"]
  BY <1>0
<1>2. /\ skillAt' = [skillAt EXCEPT ![p] = after] /\ SkillGoes(c, next)
      /\ skillPast' = [skillPast EXCEPT !.lost = lost, !.last = last]
  BY <1>00 DEF SkillOpens
<1>3. next.step = "text" /\ next.place = p /\ next.text = call.text
  BY <1>1, <1>00 DEF SkillCallTypes, SkillSteps
<1>4. /\ after \in Directories /\ after.there /\ after.text = PartOf(call.text)
      /\ PartOf(call.text) # NoText /\ TextOf(PartOf(call.text)) = call.text
  BY <1>1, TextFacts DEF Directories
<1>5. lost \in SUBSET SkillTexts /\ last \in SkillTexts
  BY <1>1, SkillParts, SkillPastParts, TextFacts
<1>6. /\ skillPast' \in SkillPasts /\ skillPast'.met = skillPast.met
      /\ skillPast'.approved = skillPast.approved /\ skillPast'.corrections = skillPast.corrections
      /\ skillPast'.lost = lost /\ skillPast'.tied = skillPast.tied
      /\ skillPast'.cut = skillPast.cut /\ skillPast'.last = last
  <2> HIDE DEF lost, last
  <2> QED
    BY <1>2, <1>5, SkillParts DEF SkillPasts
<1>7. ~skillPast.met => lost = skillPast.lost
  <2>1. ~skillPast.met /\ call.old # NoText => TextKept(dir)
    BY <1>1, SkillParts DEF RevisionsKeep, Keeping
  <2> QED
    BY <2>1 DEF TextKept
<1> HIDE DEF after, lost
<1>8. ~skillPast'.met /\ ~skillPast'.tied => skillPast'.lost = {}
  BY <1>6, <1>7, SkillParts DEF RevisionsKeep
<1>9. /\ skillAt' \in [Places -> Directories] /\ skillAt'[p] = after
      /\ \A place \in Places : place # p => skillAt'[place] = skillAt[place]
  BY <1>1, <1>2, <1>4, SkillParts
<1>10. \A place \in Places :
         /\ ~skillAt'[place].there => skillAt'[place] = NoDirectory
         /\ skillAt[place].there => skillAt'[place].there
         /\ skillAt[place].text # NoText => skillAt'[place].text # NoText
  BY <1>4, <1>9, SkillParts DEF DirectoriesWhole
<1>11. /\ Gated(skillPast') = Gated(skillPast)
       /\ p = "installed" => call.text \in Gated(skillPast)
  BY <1>1, <1>6, SkillParts DEF InstalledGated, MayWrite, Gated
<1>12. /\ TextOf(skillAt'["installed"].text) \in {NoText} \union Gated(skillPast')
       /\ ~skillPast.met => TextOf(skillAt'["installed"].text) = skillPast'.last
  <2>1. CASE p = "installed"
    BY <1>4, <1>6, <1>9, <1>11, <2>1
  <2>2. CASE p # "installed"
    BY <1>6, <1>9, <1>11, <2>2, SkillParts DEF InstalledGated, RevisionsKeep
  <2> QED
    BY <2>1, <2>2
<1>13. CallRight(next)' /\ MayWrite(next)' /\ Keeping(next)'
  <2>1. CallRight(next)'
    BY <1>1, <1>3, <1>4, <1>9, EmptyCalls DEF CallRight
  <2>2. MayWrite(next)'
    BY <1>3, <1>11 DEF MayWrite
  <2>3. Keeping(next)'
    BY <1>3, <1>4, <1>9 DEF Keeping
  <2> QED
    BY <2>1, <2>2, <2>3
<1>14. ~skillPast.met => \A place \in Places : Whole(skillAt'[place].text) \/ skillPast'.cut \/ place = p
  <2>1. ~skillPast.met => \A place \in Places : OpenIn(place) = {}
    BY <1>1, SkillParts DEF RevisionsKeep, OpenIn
  <2> QED
    BY <1>6, <1>9, <2>1, SkillParts DEF RevisionsKeep, PartsExplained
<1> QED
  BY <1>1, <1>2, <1>3, <1>6, <1>8, <1>9, <1>10, <1>11, <1>12, <1>13, <1>14, SkillCallSteps

LEMMA SkillWrittenKeeps == ASSUME SkillInv, NEW c \in SkillCallers, SkillWritten(c) PROVE SkillInv'
<1> DEFINE call == skillCalls[c]
           p == call.place
<1>1. /\ call.step = "text" /\ SkillGoes(c, NoSkillCall) /\ UNCHANGED <<skillClock, skillLoaded, skillPast>>
      /\ call.text \in 1 .. MaxSkillTexts /\ p \in Places \union {Gone}
      /\ p # Gone => skillAt[p].there /\ skillAt[p].text # NoText
      /\ p = "installed" => call.text \in Gated(skillPast)
  BY SkillParts DEF SkillWritten, SkillCallEnds, DirectoriesWhole, CallRight, InstalledGated, MayWrite
<1>2. ~skillPast.met => \A place \in Places : place # p => Whole(skillAt[place].text) \/ skillPast.cut
  <2> SUFFICES ASSUME ~skillPast.met, NEW place \in Places, ~skillPast.cut, OpenIn(place) # {}
               PROVE  place = p
    BY SkillParts DEF RevisionsKeep, PartsExplained
  <2>1. PICK d \in SkillCallers : skillCalls[d].step = "text" /\ skillCalls[d].place = place
    BY DEF OpenIn
  <2>2. d = c
    BY <1>1, <2>1, SkillParts DEF RevisionsKeep
  <2> QED
    BY <2>1, <2>2
<1>3. /\ skillPast' \in SkillPasts /\ Gated(skillPast') = Gated(skillPast)
      /\ ~skillPast'.met /\ ~skillPast'.tied => skillPast'.lost = {}
      /\ TextOf(skillAt["installed"].text) \in {NoText} \union Gated(skillPast)
      /\ ~skillPast.met => TextOf(skillAt["installed"].text) = skillPast.last
      /\ skillAt \in [Places -> Directories]
      /\ \A place \in Places : ~skillAt[place].there => skillAt[place] = NoDirectory
  BY <1>1, SkillParts DEF RevisionsKeep, DirectoriesWhole, InstalledGated, Gated
<1>4. CASE p = Gone
  <2>1. UNCHANGED skillAt
    BY <1>4 DEF SkillWritten
  <2>2. ~skillPast.met => \A place \in Places : Whole(skillAt'[place].text) \/ skillPast'.cut
    BY <1>1, <1>2, <1>4, <2>1, EmptyCalls
  <2> QED
    BY <1>1, <1>3, <2>1, <2>2, IdleSkillCall, EmptyCalls, SkillCallSteps
<1>5. CASE p # Gone
  <2>1. PICK text \in {call.text} \union (IF skillAt[p].text = PartOf(call.text) THEN {} ELSE {PartOf(call.text)}) :
          skillAt' = [skillAt EXCEPT ![p].text = text]
    BY <1>5 DEF SkillWritten
  <2> DEFINE after == [skillAt[p] EXCEPT !.text = text]
  <2>2. /\ p \in Places /\ text \in SkillTexts /\ text # NoText /\ TextOf(text) = call.text
        /\ ~skillPast.met => text = call.text /\ Whole(text)
    <3>1. p \in Places
      BY <1>1, <1>5
    <3>2. ~skillPast.met => skillAt[p].text = PartOf(call.text)
      BY <1>1, <1>5, SkillParts DEF RevisionsKeep, Keeping
    <3>3. Whole(call.text) /\ call.text \in SkillTexts
      BY <1>1, TextFacts
    <3> QED
      BY <1>1, <2>1, <3>1, <3>2, <3>3, TextFacts
  <2>3. skillAt' = [skillAt EXCEPT ![p] = after]
    BY <2>1, <2>2, SkillParts
  <2>4. after \in Directories /\ after.there /\ after.text = text
    BY <1>1, <1>5, <2>2, SkillParts DEF Directories
  <2> HIDE DEF after
  <2>5. /\ skillAt' \in [Places -> Directories] /\ skillAt'[p] = after
        /\ \A place \in Places : place # p => skillAt'[place] = skillAt[place]
    BY <2>2, <2>3, <2>4, SkillParts
  <2>6. \A place \in Places :
          /\ ~skillAt'[place].there => skillAt'[place] = NoDirectory
          /\ skillAt[place].there => skillAt'[place].there
          /\ skillAt[place].text # NoText => skillAt'[place].text # NoText
    BY <1>3, <2>2, <2>4, <2>5
  <2>7. /\ TextOf(skillAt'["installed"].text) \in {NoText} \union Gated(skillPast')
        /\ ~skillPast.met => TextOf(skillAt'["installed"].text) = skillPast'.last
    <3>1. CASE p = "installed"
      <4>1. ~skillPast.met => TextOf(skillAt["installed"].text) = call.text
        BY <1>1, <1>5, <3>1, SkillParts, TextFacts DEF RevisionsKeep, Keeping
      <4> QED
        BY <1>1, <1>3, <2>2, <2>4, <2>5, <3>1, <4>1
    <3>2. CASE p # "installed"
      BY <1>1, <1>3, <2>5, <3>2, EmptyCalls
    <3> QED
      BY <3>1, <3>2
  <2>8. ~skillPast.met => \A place \in Places : Whole(skillAt'[place].text) \/ skillPast'.cut
    BY <1>1, <1>2, <2>2, <2>4, <2>5
  <2> QED
    BY <1>1, <1>3, <2>5, <2>6, <2>7, <2>8, IdleSkillCall, EmptyCalls, SkillCallSteps
<1> QED
  BY <1>4, <1>5

LEMMA SkillCreateKeeps == ASSUME SkillInv, NEW c \in SkillCallers, SkillCreate(c) PROVE SkillInv'
<1> DEFINE call == skillCalls[c]
           after == [skillAt["installed"] EXCEPT !.there = TRUE]
           approved == skillPast.approved \union {call.text}
<1>1. /\ call.step = "create" /\ UNCHANGED <<skillClock, skillLoaded>> /\ call \in SkillCallTypes
      /\ call.text \in 1 .. MaxSkillTexts
  BY SkillParts DEF SkillCreate, DirectoriesWhole, CallRight
<1>2. CASE SkillCallEnds(c) /\ UNCHANGED <<skillAt, skillPast>>
  BY <1>1, <1>2, SkillCallOver
<1>3. CASE /\ skillAt' = [skillAt EXCEPT !["installed"].there = TRUE]
           /\ skillPast' = [skillPast EXCEPT !.approved = @ \union {skillCalls[c].text}]
           /\ SkillGoes(c, [skillCalls[c] EXCEPT !.step = "write", !.place = "installed"])
           /\ ~skillAt["installed"].there
  <2>0. /\ [call EXCEPT !.step = "write", !.place = "installed"] \in SkillCallTypes
    BY <1>1, EmptyCalls DEF SkillCallTypes, SkillSteps
  <2>00. PICK next \in SkillCallTypes : next = [call EXCEPT !.step = "write", !.place = "installed"]
    BY <2>0
  <2>1. /\ SkillGoes(c, next) /\ next.step = "write" /\ next.place = "installed"
        /\ next.text = call.text /\ next.old = call.old
    BY <1>1, <1>3, <2>00 DEF SkillCallTypes
  <2>2. /\ after \in Directories /\ after.there /\ after.text = NoText
        /\ skillAt["installed"].text = NoText
    <3>1. skillAt["installed"] = NoDirectory
      BY <1>3, SkillParts DEF DirectoriesWhole
    <3>2. skillAt["installed"].text = NoText
      BY <3>1, EmptyCalls
    <3>3. skillAt["installed"] \in Directories
      BY SkillParts
    <3> QED
      BY <3>2, <3>3 DEF Directories
  <2>3. approved \subseteq SkillTexts /\ skillPast' = [skillPast EXCEPT !.approved = approved]
    BY <1>1, <1>3, SkillParts, SkillPastParts, TextFacts
  <2>33. skillAt' = [skillAt EXCEPT !["installed"] = after]
    BY <1>3, SkillParts
  <2>4. call.text \in approved /\ skillPast.approved \subseteq approved
    OBVIOUS
  <2> HIDE DEF after, approved
  <2>5. /\ skillPast' \in SkillPasts /\ skillPast'.met = skillPast.met
        /\ skillPast'.approved = approved /\ skillPast'.corrections = skillPast.corrections
        /\ skillPast'.lost = skillPast.lost /\ skillPast'.tied = skillPast.tied
        /\ skillPast'.cut = skillPast.cut /\ skillPast'.last = skillPast.last
    BY <2>3, SkillParts DEF SkillPasts
  <2>6. /\ skillAt' \in [Places -> Directories] /\ skillAt'["installed"] = after
        /\ \A place \in Places : place # "installed" => skillAt'[place] = skillAt[place]
    BY <2>2, <2>33, SkillParts
  <2>7. \A place \in Places :
          /\ ~skillAt'[place].there => skillAt'[place] = NoDirectory
          /\ skillAt[place].there => skillAt'[place].there
          /\ skillAt'[place].text = skillAt[place].text
    BY <2>2, <2>6, SkillParts DEF DirectoriesWhole
  <2>8. Gated(skillPast) \subseteq Gated(skillPast') /\ call.text \in Gated(skillPast')
    BY <2>4, <2>5 DEF Gated
  <2>9. /\ TextOf(skillAt'["installed"].text) \in {NoText} \union Gated(skillPast')
        /\ ~skillPast.met => TextOf(skillAt'["installed"].text) = skillPast'.last
    BY <2>5, <2>7, <2>8, SkillParts DEF InstalledGated, RevisionsKeep
  <2>10. CallRight(next)' /\ MayWrite(next)' /\ Keeping(next)'
    <3>1. CallRight(next)'
      BY <1>1, <2>1, EmptyCalls DEF CallRight
    <3>2. MayWrite(next)'
      BY <2>1, <2>8 DEF MayWrite
    <3>3. Keeping(next)'
      BY <2>1, <2>2, <2>6 DEF Keeping, TextKept
    <3> QED
      BY <3>1, <3>2, <3>3
  <2>11. ~skillPast.met => \A place \in Places : Whole(skillAt'[place].text) \/ skillPast'.cut
    <3>1. ~skillPast.met => \A place \in Places : OpenIn(place) = {}
      BY <1>1, SkillParts DEF RevisionsKeep, OpenIn
    <3> QED
      BY <2>5, <2>7, <3>1, SkillParts DEF RevisionsKeep, PartsExplained
  <2>12. ~skillPast'.met /\ ~skillPast'.tied => skillPast'.lost = {}
    BY <2>5, SkillParts DEF RevisionsKeep
  <2> QED
    BY <1>1, <2>1, <2>5, <2>6, <2>7, <2>8, <2>9, <2>10, <2>11, <2>12, SkillCallSteps
<1> QED
  BY <1>2, <1>3 DEF SkillCreate

(* What moves the files that are being written moves nothing else.         *)
LEMMA FilesMoveFacts ==
  ASSUME SkillInv, NEW open, NEW place \in Places \union {Gone}
  PROVE  /\ FilesMove(open, place) \in [SkillCallers -> SkillCallTypes]
         /\ \A d \in SkillCallers :
              /\ d \notin open => FilesMove(open, place)[d] = skillCalls[d]
              /\ d \in open =>
                   /\ FilesMove(open, place)[d].place = place
                   /\ FilesMove(open, place)[d].step = skillCalls[d].step
                   /\ FilesMove(open, place)[d].text = skillCalls[d].text
                   /\ FilesMove(open, place)[d].old = skillCalls[d].old
BY SkillParts DEF FilesMove, SkillCallTypes

LEMMA SkillRenameKeeps == ASSUME SkillInv, NEW c \in SkillCallers, SkillRename(c) PROVE SkillInv'
<1> DEFINE open == OpenIn("proposed")
           text == TextOf(skillAt["proposed"].text)
<1>1. skillCalls[c].step = "rename" /\ UNCHANGED <<skillClock, skillLoaded>>
  BY DEF SkillRename
<1>2. CASE SkillCallEnds(c) /\ UNCHANGED <<skillAt, skillPast>>
  BY <1>1, <1>2, SkillCallOver
<1>3. CASE /\ skillAt["proposed"].there /\ EmptyOrGone(skillAt["installed"])
           /\ skillAt' = [proposed |-> NoDirectory, installed |-> skillAt["proposed"]]
           /\ skillPast' = [skillPast EXCEPT
                !.approved = @ \union {text} \union {skillCalls[d].text : d \in open}, !.last = text]
           /\ skillCalls' = [FilesMove(open, "installed") EXCEPT ![c] = NoSkillCall]
  <2> DEFINE approved == skillPast.approved \union {text} \union {skillCalls[d].text : d \in open}
  <2>1. text \in SkillTexts /\ approved \subseteq SkillTexts
    <3>1. \A d \in open : skillCalls[d].text \in SkillTexts
      BY SkillParts, TextFacts DEF OpenIn
    <3>2. {skillCalls[d].text : d \in open} \subseteq SkillTexts
      BY <3>1
    <3>3. skillPast.approved \subseteq SkillTexts
      BY SkillParts DEF SkillPasts
    <3>4. text \in SkillTexts
      BY SkillParts, TextFacts DEF Directories
    <3> HIDE DEF text, open
    <3> QED
      BY <3>2, <3>3, <3>4
  <2>2. /\ skillPast' \in SkillPasts /\ skillPast'.met = skillPast.met
        /\ skillPast'.approved = approved /\ skillPast'.corrections = skillPast.corrections
        /\ skillPast'.lost = skillPast.lost /\ skillPast'.tied = skillPast.tied
        /\ skillPast'.cut = skillPast.cut /\ skillPast'.last = text
    <3>1. skillPast' = [skillPast EXCEPT !.approved = approved, !.last = text]
      BY <1>3
    <3> HIDE DEF approved, text
    <3> QED
      BY <2>1, <3>1, SkillParts DEF SkillPasts
  <2>3. /\ skillAt' \in [Places -> Directories] /\ skillAt'["proposed"] = NoDirectory
        /\ skillAt'["installed"] = skillAt["proposed"]
    BY <1>3, EmptyCalls, SkillParts DEF Places
  <2>4. c \notin open
    BY <1>1 DEF OpenIn
  <2>5. /\ skillCalls' \in [SkillCallers -> SkillCallTypes] /\ skillCalls'[c] = NoSkillCall
        /\ \A d \in SkillCallers : d # c =>
             /\ d \notin open => skillCalls'[d] = skillCalls[d]
             /\ d \in open => /\ skillCalls'[d].place = "installed" /\ skillCalls'[d].step = "text"
                              /\ skillCalls'[d].text = skillCalls[d].text
    <3>1. \A d \in open : skillCalls[d].step = "text"
      BY DEF OpenIn
    <3> HIDE DEF open
    <3> QED
      BY <1>3, <3>1, FilesMoveFacts, EmptyCalls
  <2>6. SkillTyped'
    BY <1>1, <2>2, <2>3, <2>5, SkillParts DEF SkillTyped
  <2>7. /\ Gated(skillPast) \subseteq Gated(skillPast') /\ text \in Gated(skillPast')
        /\ \A d \in open : skillCalls[d].text \in Gated(skillPast')
    BY <2>2 DEF Gated
  (* Nothing is being written where nothing is installed.                  *)
  <2>8. skillAt["installed"].text = NoText
    BY <1>3 DEF EmptyOrGone
  <2>9. \A d \in SkillCallers : skillCalls[d].step = "text" => skillCalls[d].place # "installed"
    BY <2>8, SkillParts, EmptyCalls DEF DirectoriesWhole, CallRight
  <2>10. \A d \in SkillCallers : skillCalls[d].step = "text" /\ skillCalls[d].place # Gone => d \in open
    BY <2>9, SkillParts DEF OpenIn, Places
  <2>11. DirectoriesWhole'
    <3>1. \A place \in Places : ~skillAt'[place].there => skillAt'[place] = NoDirectory
      BY <1>3, <2>3, EmptyCalls DEF Places
    <3>2. ASSUME NEW d \in SkillCallers, d # c, d \in open PROVE CallRight(skillCalls[d])'
      <4>1. skillCalls[d].step = "text" /\ skillCalls[d].place = "proposed"
        BY <3>2 DEF OpenIn
      <4>2. skillAt["proposed"].text # NoText /\ skillCalls[d].text \in 1 .. MaxSkillTexts
        BY <4>1, SkillParts, EmptyCalls DEF DirectoriesWhole, CallRight
      <4> QED
        BY <1>3, <2>3, <2>5, <3>2, <4>2, EmptyCalls DEF CallRight
    <3>3. ASSUME NEW d \in SkillCallers, d # c, d \notin open PROVE CallRight(skillCalls[d])'
      <4>1. CallRight(skillCalls[d]) /\ skillCalls'[d] = skillCalls[d]
        BY <2>5, <3>3, SkillParts DEF DirectoriesWhole
      <4>2. skillCalls[d].step = "text" => skillCalls[d].place = Gone
        BY <2>10, <3>3
      <4> QED
        BY <4>1, <4>2 DEF CallRight
    <3>4. CallRight(skillCalls[c])'
      BY <2>5, IdleSkillCall DEF CallRight
    <3> QED
      BY <3>1, <3>2, <3>3, <3>4 DEF DirectoriesWhole
  <2>12. InstalledGated'
    <3>1. TextOf(skillAt'["installed"].text) \in {NoText} \union Gated(skillPast')
      BY <2>3, <2>7
    <3>2. TextOf(skillLoaded') \in {NoText} \union Gated(skillPast')
      BY <1>1, <2>7, SkillParts DEF InstalledGated
    <3>3. ASSUME NEW d \in SkillCallers PROVE MayWrite(skillCalls[d])'
      <4>1. CASE d = c
        BY <2>5, <4>1, IdleSkillCall DEF MayWrite
      <4>2. CASE d # c /\ d \in open
        BY <2>5, <2>7, <4>2 DEF MayWrite
      <4>3. CASE d # c /\ d \notin open
        BY <2>5, <2>7, <4>3, SkillParts DEF InstalledGated, MayWrite
      <4> QED
        BY <4>1, <4>2, <4>3
    <3> QED
      BY <3>1, <3>2, <3>3 DEF InstalledGated
  <2>13. RevisionsKeep'
    <3>1. ~skillPast'.met /\ ~skillPast'.tied => skillPast'.lost = {}
      BY <2>2, SkillParts DEF RevisionsKeep
    <3>2. ASSUME ~skillPast'.met
          PROVE  /\ \A d, e \in SkillCallers :
                      skillCalls'[d].step # "idle" /\ skillCalls'[e].step # "idle" => d = e
                 /\ \A d \in SkillCallers : Keeping(skillCalls[d])'
                 /\ TextOf(skillAt'["installed"].text) = skillPast'.last
                 /\ PartsExplained'
      <4>1. /\ \A d \in SkillCallers : d # c => skillCalls[d].step = "idle"
            /\ \A place \in Places : Whole(skillAt[place].text) \/ skillPast.cut
        BY <1>1, <2>2, <3>2, SkillParts DEF RevisionsKeep, PartsExplained, OpenIn
      <4>2. \A d \in SkillCallers : d \notin open
        BY <1>1, <4>1 DEF OpenIn
      <4>3. \A d \in SkillCallers : skillCalls'[d].step = "idle"
        BY <2>5, <4>1, <4>2, EmptyCalls
      <4>4. \A d \in SkillCallers : Keeping(skillCalls[d])'
        BY <4>3 DEF Keeping
      <4>5. PartsExplained'
        BY <2>2, <2>3, <4>1, EmptyCalls, TextFacts DEF PartsExplained, Places
      <4> QED
        BY <2>2, <2>3, <4>3, <4>4, <4>5
    <3> QED
      BY <3>1, <3>2 DEF RevisionsKeep
  <2> QED
    BY <2>6, <2>11, <2>12, <2>13 DEF SkillInv
<1> QED
  BY <1>2, <1>3 DEF SkillRename

LEMMA SkillRejectKeeps == ASSUME SkillInv, SkillReject PROVE SkillInv'
<1> DEFINE open == OpenIn("proposed")
<1>1. /\ skillAt["proposed"].there /\ skillAt' = [skillAt EXCEPT !["proposed"] = NoDirectory]
      /\ skillCalls' = FilesMove(open, Gone) /\ UNCHANGED <<skillClock, skillLoaded, skillPast>>
  BY DEF SkillReject
<1>2. /\ skillAt' \in [Places -> Directories] /\ skillAt'["proposed"] = NoDirectory
      /\ \A place \in Places : place # "proposed" => skillAt'[place] = skillAt[place]
      /\ skillAt'["installed"] = skillAt["installed"]
  BY <1>1, EmptyCalls, SkillParts
<1>3. \A d \in open : skillCalls[d].step = "text" /\ skillCalls[d].place = "proposed"
  BY DEF OpenIn
<1>4. /\ skillCalls' \in [SkillCallers -> SkillCallTypes]
      /\ \A d \in SkillCallers :
           /\ d \notin open => skillCalls'[d] = skillCalls[d]
           /\ d \in open => /\ skillCalls'[d].place = Gone /\ skillCalls'[d].step = "text"
                            /\ skillCalls'[d].text = skillCalls[d].text
  <2> HIDE DEF open
  <2> QED
    BY <1>1, <1>3, FilesMoveFacts
<1>5. SkillTyped'
  BY <1>1, <1>2, <1>4, SkillParts DEF SkillTyped
<1>6. \A d \in SkillCallers : skillCalls[d].step = "text" /\ skillCalls[d].place = "proposed" => d \in open
  BY DEF OpenIn
<1>7. DirectoriesWhole'
  <2>1. \A place \in Places : ~skillAt'[place].there => skillAt'[place] = NoDirectory
    BY <1>2, SkillParts DEF DirectoriesWhole
  <2>2. ASSUME NEW d \in SkillCallers, d \in open PROVE CallRight(skillCalls[d])'
    <3>1. skillCalls[d].text \in 1 .. MaxSkillTexts
      BY <1>3, <2>2, SkillParts DEF DirectoriesWhole, CallRight
    <3> QED
      BY <1>4, <2>2, <3>1 DEF CallRight
  <2>3. ASSUME NEW d \in SkillCallers, d \notin open PROVE CallRight(skillCalls[d])'
    <3>1. CallRight(skillCalls[d]) /\ skillCalls'[d] = skillCalls[d]
      BY <1>4, <2>3, SkillParts DEF DirectoriesWhole
    <3>2. skillCalls[d].step = "text" /\ skillCalls[d].place # Gone => skillCalls[d].place = "installed"
      BY <1>6, <2>3, SkillParts DEF Places
    <3> QED
      BY <1>2, <3>1, <3>2 DEF CallRight
  <2> QED
    BY <2>1, <2>2, <2>3 DEF DirectoriesWhole
<1>8. InstalledGated'
  <2>1. ASSUME NEW d \in SkillCallers PROVE MayWrite(skillCalls[d])'
    <3>1. CASE d \in open
      BY <1>4, <3>1 DEF MayWrite, Gone
    <3>2. CASE d \notin open
      BY <1>1, <1>4, <3>2, SkillParts DEF InstalledGated, MayWrite
    <3> QED
      BY <3>1, <3>2
  <2> QED
    BY <1>1, <1>2, <2>1, SkillParts DEF InstalledGated
<1>9. RevisionsKeep'
  <2>1. ASSUME ~skillPast.met, NEW d \in SkillCallers PROVE Keeping(skillCalls[d])'
    <3>0. Keeping(skillCalls[d])
      BY <2>1, SkillParts DEF RevisionsKeep
    <3>1. CASE d \in open
      BY <1>4, <3>1 DEF Keeping
    <3>2. CASE d \notin open /\ skillCalls[d].place = "proposed"
      BY <1>2, <1>4, <1>6, <3>2, EmptyCalls DEF Keeping, TextKept
    <3>3. CASE d \notin open /\ skillCalls[d].place # "proposed"
      <4>1. CASE skillCalls[d].place = Gone
        <5>1. skillCalls[d].step = "text"
          BY <4>1, SkillParts DEF DirectoriesWhole, CallRight
        <5> QED
          BY <1>4, <3>3, <4>1, <5>1 DEF Keeping
      <4>2. CASE skillCalls[d].place # Gone
        <5>1. skillAt'[skillCalls[d].place] = skillAt[skillCalls[d].place]
          BY <1>2, <3>3, <4>2, SkillParts
        <5> QED
          BY <1>4, <3>0, <3>3, <5>1 DEF Keeping
      <4> QED
        BY <4>1, <4>2
    <3> QED
      BY <3>1, <3>2, <3>3
  <2>2. OpenIn("installed") \subseteq OpenIn("installed")'
    <3> SUFFICES ASSUME NEW d \in SkillCallers, skillCalls[d].step = "text", skillCalls[d].place = "installed"
                 PROVE  skillCalls'[d] = skillCalls[d]
      BY DEF OpenIn
    <3> QED
      BY <1>3, <1>4, EmptyCalls
  <2>3. ~skillPast.met => PartsExplained'
    <3> SUFFICES ASSUME ~skillPast.met, NEW place \in Places
                 PROVE  Whole(skillAt'[place].text) \/ skillPast'.cut \/ OpenIn(place)' # {}
      BY DEF PartsExplained
    <3>1. CASE place = "proposed"
      BY <1>2, <3>1, EmptyCalls, TextFacts
    <3>2. CASE place = "installed"
      BY <1>1, <1>2, <2>2, <3>2, SkillParts DEF RevisionsKeep, PartsExplained
    <3> QED
      BY <3>1, <3>2 DEF Places
  <2>4. ~skillPast.met => \A d, e \in SkillCallers :
          skillCalls'[d].step # "idle" /\ skillCalls'[e].step # "idle" => d = e
    BY <1>3, <1>4, SkillParts DEF RevisionsKeep
  <2> QED
    BY <1>1, <1>2, <2>1, <2>3, <2>4, SkillParts DEF RevisionsKeep
<1> QED
  BY <1>5, <1>7, <1>8, <1>9 DEF SkillInv

LEMMA SkillStep == SkillInv /\ [SkillNext]_skillVars => SkillInv'
<1> SUFFICES ASSUME SkillInv, [SkillNext]_skillVars PROVE SkillInv'
  OBVIOUS
<1>0. ASSUME UNCHANGED <<skillAt, skillCalls, skillPast>>,
             skillClock' \in [second : 0 .. MaxSeconds, texts : 0 .. MaxSkillTexts],
             skillLoaded' \in SkillTexts, TextOf(skillLoaded') \in {NoText} \union Gated(skillPast)
      PROVE  SkillInv'
  <2>1. SkillTyped' /\ DirectoriesWhole'
    BY <1>0, SkillParts DEF SkillTyped, DirectoriesWhole, CallRight
  <2>2. InstalledGated'
    BY <1>0, SkillParts DEF InstalledGated, MayWrite
  <2>3. RevisionsKeep'
    BY <1>0, SkillParts DEF RevisionsKeep, Keeping, PartsExplained, OpenIn
  <2> QED
    BY <2>1, <2>2, <2>3 DEF SkillInv
<1>1. CASE UNCHANGED skillVars
  BY <1>0, <1>1, SkillParts DEF skillVars, InstalledGated
<1>2. CASE SkillLoads
  BY <1>0, <1>2, SkillParts DEF SkillLoads, InstalledGated
<1>3. CASE SkillSecondPasses
  <2>1. skillClock' \in [second : 0 .. MaxSeconds, texts : 0 .. MaxSkillTexts]
    BY <1>3, SkillParts, SkillsAssumption DEF SkillSecondPasses
  <2> QED
    BY <1>0, <1>3, <2>1, SkillParts DEF SkillSecondPasses, InstalledGated
<1>4. CASE \E c \in SkillCallers :
             \/ SkillTeach(c) \/ SkillRevise(c) \/ SkillReadProposal(c) \/ SkillBackup(c)
             \/ SkillOpens(c) \/ SkillWritten(c) \/ SkillApprove(c) \/ SkillRename(c)
             \/ SkillApproveFrom(c) \/ SkillCreate(c) \/ SkillCallLost(c)
  BY <1>4, SkillTeachKeeps, SkillReviseKeeps, SkillReadProposalKeeps, SkillBackupKeeps,
     SkillOpensKeeps, SkillWrittenKeeps, SkillApproveKeeps, SkillRenameKeeps, SkillApproveFromKeeps,
     SkillCreateKeeps, SkillCallLostKeeps
<1> QED
  BY <1>1, <1>2, <1>3, <1>4, SkillRejectKeeps DEF SkillNext

LEMMA SkillHolds == SkillInv => SkillTypeOK /\ SkillsGated
<1> SUFFICES ASSUME SkillInv PROVE SkillTypeOK /\ SkillsGated
  OBVIOUS
<1>1. \A place \in Places : skillAt[place].there \in BOOLEAN
  BY SkillParts DEF Directories
<1>2. SkillTypeOK
  BY <1>1, SkillParts DEF SkillTypeOK, DirectoriesWhole, CallRight, Backups
<1>3. ~skillPast.met => skillAt["installed"].text = skillPast.last \/ skillPast.cut \/ OpenIn("installed") # {}
  BY SkillParts, TextFacts DEF RevisionsKeep, PartsExplained
<1>4. SkillsGated
  BY <1>3, SkillParts DEF SkillsGated, InstalledGated, RevisionsKeep, Gated
<1> QED
  BY <1>2, <1>4

-----------------------------------------------------------------------------
(* The configuration.  What every copy and every file of it has, used or   *)
(* not: profiles that validate, and fallbacks that are configured.         *)
Sane(config) ==
  /\ config \in Configs
  /\ \A name \in Configured(config) : ProfileIsValid(config.profiles[name])
  /\ config.fallback \subseteq Configured(config)

(* And what it needs to be run with.                                       *)
Runs(config) ==
  config.model # None /\ (config.provider = None \/ config.provider \in Configured(config))

(* A change leaves what was usable usable.                                 *)
Improves(config, next) == Sane(next) /\ (Runs(config) => Runs(next))

LEMMA RunsIsValid ==
  ASSUME NEW config, Sane(config)
  PROVE  ConfigIsValid(config) <=> Runs(config)
BY DEF ConfigIsValid, Runs, Sane

LEMMA ProfileFacts ==
  ASSUME NEW profile \in Profiles
  PROVE  /\ profile # NoProfile
         /\ profile.kind \in {"http", "process"} /\ profile.wire \in {"chat", "responses", "messages"}
         /\ profile.tuned \in Tunings /\ profile.models \subseteq ModelNames
<1>1. profile.kind # "none" /\ NoProfile.kind = "none"
  BY DEF Profiles, NoProfile
<1> QED
  BY <1>1 DEF Profiles

LEMMA ConfiguredAre ==
  ASSUME NEW config \in Configs
  PROVE  /\ Configured(config) \subseteq Providers
         /\ \A name \in Configured(config) : config.profiles[name] \in Profiles
         /\ config.profiles \in [Providers -> Profiles \union {NoProfile}]
         /\ config.model \in ModelNames \union {None} /\ config.provider \in Providers \union {None}
         /\ config.fallback \in SUBSET Providers
BY DEF Configs, Configured

LEMMA WithProfile ==
  ASSUME NEW config, Sane(config), NEW name \in Providers, NEW profile \in Profiles,
         ProfileIsValid(profile)
  PROVE  /\ Sane(With(config, name, profile))
         /\ Configured(With(config, name, profile)) = Configured(config) \union {name}
         /\ With(config, name, profile).provider = config.provider
         /\ With(config, name, profile).model = config.model
<1> DEFINE next == With(config, name, profile)
<1>1. config \in Configs /\ config.profiles \in [Providers -> Profiles \union {NoProfile}]
  BY ConfiguredAre DEF Sane
<1> DEFINE profiles == [config.profiles EXCEPT ![name] = profile]
<1>2. /\ profiles \in [Providers -> Profiles \union {NoProfile}] /\ profiles[name] = profile
      /\ \A n \in Providers \ {name} : profiles[n] = config.profiles[n]
  BY <1>1
<1>3. next = [config EXCEPT !.profiles = profiles]
  BY <1>1 DEF With
<1> HIDE DEF next, profiles
<1>4. /\ next \in Configs /\ next.profiles = profiles /\ next.fallback = config.fallback
      /\ next.provider = config.provider /\ next.model = config.model
  BY <1>1, <1>2, <1>3 DEF Configs
<1>5. profile # NoProfile
  BY ProfileFacts
<1>6. Configured(next) = Configured(config) \union {name}
  BY <1>2, <1>4, <1>5 DEF Configured
<1>7. \A n \in Configured(next) : ProfileIsValid(next.profiles[n])
  <2> TAKE n \in Configured(next)
  <2>1. CASE n = name
    BY <1>2, <1>4, <2>1
  <2>2. CASE n # name
    <3>1. n \in Configured(config) /\ n \in Providers
      BY <1>1, <1>6, <2>2, ConfiguredAre
    <3>2. next.profiles[n] = config.profiles[n]
      BY <1>2, <1>4, <2>2, <3>1
    <3> QED
      BY <3>1, <3>2 DEF Sane
  <2> QED
    BY <2>1, <2>2
<1>8. next.fallback \subseteq Configured(next)
  BY <1>4, <1>6 DEF Sane
<1> QED
  BY <1>4, <1>6, <1>7, <1>8 DEF Sane, next

LEMMA WithKeepsUse ==
  ASSUME NEW config, Sane(config), NEW name \in Providers, NEW profile \in Profiles,
         ProfileIsValid(profile)
  PROVE  Improves(config, With(config, name, profile))
BY WithProfile DEF Improves, Runs

(* Another provider and model are put in use.                              *)
LEMMA PutsInUse ==
  ASSUME NEW config, Sane(config), NEW name \in Configured(config), NEW model \in ModelNames
  PROVE  /\ Sane([config EXCEPT !.provider = name, !.model = model])
         /\ Runs([config EXCEPT !.provider = name, !.model = model])
<1> DEFINE next == [config EXCEPT !.provider = name, !.model = model]
<1>1. config \in Configs /\ name \in Providers /\ model # None
  BY ConfiguredAre, SettingsAssumption DEF Sane
<1>2. /\ next \in Configs /\ next.profiles = config.profiles /\ next.fallback = config.fallback
      /\ next.provider = name /\ next.model = model
  BY <1>1 DEF Configs
<1> HIDE DEF next
<1>3. Configured(next) = Configured(config)
  BY <1>2 DEF Configured
<1>4. Sane(next) /\ Runs(next)
  BY <1>1, <1>2, <1>3 DEF Sane, Runs
<1> QED
  BY <1>4 DEF next

LEMMA ServesKeeps ==
  ASSUME NEW profile \in Profiles, NEW model \in ModelNames, ProfileIsValid(profile)
  PROVE  Serves(profile, model) \in Profiles /\ ProfileIsValid(Serves(profile, model))
<1> DEFINE models == profile.models \union {model}
<1>1. models \in SUBSET ModelNames /\ Serves(profile, model) = [profile EXCEPT !.models = models]
  BY ProfileFacts DEF Serves
<1> HIDE DEF models
<1> QED
  BY <1>1 DEF Profiles, ProfileIsValid

LEMMA OtherModels ==
  ASSUME NEW profile \in Profiles, NEW models \in SUBSET ModelNames, ProfileIsValid(profile)
  PROVE  /\ [profile EXCEPT !.models = models] \in Profiles
         /\ ProfileIsValid([profile EXCEPT !.models = models])
BY DEF Profiles, ProfileIsValid

CopyRecords ==
  [step : {"closed", "open", "changed", "writing"}, config : Configs, sound : BOOLEAN,
   partly : BOOLEAN]

SettingsTyped ==
  /\ configFile = NoFile \/ configFile = Cut \/ \E config \in Configs : configFile = Holds(config)
  /\ copies \in [Programs -> CopyRecords]
  /\ configPast \in [changes : 0 .. MaxChanges, unsound : BOOLEAN, emptied : BOOLEAN, cut : BOOLEAN]
CopiesAreSane ==
  \A c \in Programs :
    Sane(copies[c].config) /\ (copies[c].sound => Runs(copies[c].config))
FileIsSane ==
  configFile.file = "whole" =>
    Sane(configFile.config) /\ (configPast.unsound \/ Runs(configFile.config))
CutHasCause == configFile = Cut => configPast.cut \/ \E c \in Programs : copies[c].step = "writing"

SettingsInv == SettingsTyped /\ CopiesAreSane /\ FileIsSane /\ CutHasCause

LEMMA FileFacts ==
  /\ NoFile # Cut /\ NoFile.file # "whole" /\ Cut.file # "whole"
  /\ \A config : Holds(config) # Cut /\ Holds(config) # NoFile
                 /\ Holds(config).file = "whole" /\ Holds(config).config = config
<1>1. NoFile.file = "none" /\ Cut.file = "cut"
  BY DEF NoFile, Cut
<1>2. \A config : Holds(config).file = "whole" /\ Holds(config).config = config
  BY DEF Holds
<1> QED
  BY <1>1, <1>2

LEMMA DefaultIsSane == Sane(DefaultConfig) /\ DefaultConfig.provider = None /\ DefaultConfig.model = None
<1>1. /\ DefaultConfig \in Configs /\ DefaultConfig.fallback = {}
      /\ \A name \in Providers : DefaultConfig.profiles[name] = NoProfile
      /\ DefaultConfig.provider = None /\ DefaultConfig.model = None
  BY DEF DefaultConfig, Configs
<1>2. Configured(DefaultConfig) = {}
  BY <1>1 DEF Configured
<1> QED
  BY <1>1, <1>2 DEF Sane

LEMMA EarlierIsSane == Sane(EarlierConfig) /\ Runs(EarlierConfig)
<1>1. /\ PlainProfile \in Profiles /\ ProfileIsValid(PlainProfile)
  BY DEF PlainProfile, Profiles, ProfileIsValid, Tunings
<1>2. PlainProfile # NoProfile
  BY <1>1, ProfileFacts
<1>3. /\ (CHOOSE name \in Providers : TRUE) \in Providers
      /\ (CHOOSE model \in ModelNames : TRUE) \in ModelNames
  BY SettingsAssumption
<1>4. /\ EarlierConfig \in Configs /\ EarlierConfig.fallback = {}
      /\ EarlierConfig.provider \in Providers /\ EarlierConfig.model \in ModelNames
      /\ \A name \in Providers : EarlierConfig.profiles[name] = PlainProfile
  BY <1>1, <1>3 DEF EarlierConfig, Configs
<1>5. Configured(EarlierConfig) = Providers
  BY <1>2, <1>4 DEF Configured
<1>6. EarlierConfig.model # None
  BY <1>4, SettingsAssumption
<1> QED
  BY <1>1, <1>4, <1>5, <1>6 DEF Sane, Runs

LEMMA OverriddenIsSane ==
  ASSUME NEW config, Sane(config), NEW given \in Overrides
  PROVE  Sane(Overridden(config, given))
<1> DEFINE next == Overridden(config, given)
           model == IF given.model = None THEN config.model ELSE given.model
           provider == CASE given.provider = None -> config.provider
                         [] given.provider = "endpoint" -> None
                         [] OTHER -> given.provider
<1>1. /\ config \in Configs /\ config.model \in ModelNames \union {None}
      /\ config.provider \in Providers \union {None}
  BY ConfiguredAre DEF Sane
<1>2. /\ given.model \in ModelNames \union {None}
      /\ given.provider \in Providers \union {None, "endpoint"}
  BY DEF Overrides
<1>3. model \in ModelNames \union {None}
  BY <1>1, <1>2
<1>4. provider \in Providers \union {None}
  BY <1>1, <1>2
<1>5. next = [config EXCEPT !.model = model, !.provider = provider]
  BY <1>1 DEF Overridden, Configs
<1> HIDE DEF next, model, provider
<1>6. next \in Configs /\ next.profiles = config.profiles /\ next.fallback = config.fallback
  BY <1>1, <1>3, <1>4, <1>5 DEF Configs
<1>7. Configured(next) = Configured(config)
  BY <1>6 DEF Configured
<1>8. Sane(next)
  BY <1>6, <1>7 DEF Sane
<1> QED
  BY <1>8 DEF next

LEMMA SettingsInitInv == SettingsInit => SettingsInv
<1> SUFFICES ASSUME SettingsInit
             PROVE  SettingsInv
  OBVIOUS
<1>1. /\ configFile = NoFile \/ configFile = Holds(EarlierConfig)
      /\ copies = [c \in Programs |-> NoCopy]
      /\ configPast = [changes |-> 0, unsound |-> FALSE, emptied |-> FALSE,
                        cut |-> FALSE]
  BY DEF SettingsInit
<1>2. Sane(DefaultConfig) /\ DefaultConfig \in Configs
  BY DefaultIsSane DEF Sane
<1>3. NoCopy \in CopyRecords /\ NoCopy.config = DefaultConfig /\ ~NoCopy.sound
  BY <1>2 DEF NoCopy, CopyRecords
<1>4. configPast \in [changes : 0 .. MaxChanges, unsound : BOOLEAN, emptied : BOOLEAN, cut : BOOLEAN]
  BY <1>1, SettingsAssumption
<1>5. EarlierConfig \in Configs /\ Sane(EarlierConfig) /\ Runs(EarlierConfig)
  BY EarlierIsSane DEF Sane
<1>6. SettingsTyped
  BY <1>1, <1>3, <1>4, <1>5 DEF SettingsTyped
<1>7. CopiesAreSane
  BY <1>1, <1>2, <1>3 DEF CopiesAreSane
<1>8. FileIsSane
  BY <1>1, <1>5, FileFacts DEF FileIsSane
<1>9. CutHasCause
  BY <1>1, FileFacts DEF CutHasCause
<1> QED
  BY <1>6, <1>7, <1>8, <1>9 DEF SettingsInv

LEMMA SettingsParts ==
  ASSUME SettingsInv, NEW c \in Programs
  PROVE  /\ configFile = NoFile \/ configFile = Cut \/ \E config \in Configs : configFile = Holds(config)
         /\ copies \in [Programs -> CopyRecords] /\ copies[c] \in CopyRecords
         /\ copies[c].config \in Configs /\ copies[c].sound \in BOOLEAN
         /\ copies[c].partly \in BOOLEAN
         /\ copies[c].step \in {"closed", "open", "changed", "writing"}
         /\ Sane(copies[c].config) /\ (copies[c].sound => Runs(copies[c].config))
         /\ configPast \in [changes : 0 .. MaxChanges, unsound : BOOLEAN, emptied : BOOLEAN, cut : BOOLEAN]
         /\ configPast.changes \in 0 .. MaxChanges /\ configPast.unsound \in BOOLEAN
         /\ configPast.cut \in BOOLEAN /\ configPast.emptied \in BOOLEAN
         /\ CopiesAreSane /\ FileIsSane /\ CutHasCause
<1>1. /\ copies \in [Programs -> CopyRecords]
      /\ configPast \in [changes : 0 .. MaxChanges, unsound : BOOLEAN, emptied : BOOLEAN, cut : BOOLEAN]
  BY DEF SettingsInv, SettingsTyped
<1>2. copies[c] \in CopyRecords
  BY <1>1
<1> QED
  BY <1>1, <1>2 DEF SettingsInv, SettingsTyped, CopyRecords, CopiesAreSane

(* One copy becomes another that is sane, while the others stay.           *)
LEMMA OtherCopy ==
  ASSUME SettingsInv, NEW c \in Programs, NEW copy \in CopyRecords,
         Sane(copy.config), copy.sound => Runs(copy.config),
         copies' = [copies EXCEPT ![c] = copy]
  PROVE  /\ copies' \in [Programs -> CopyRecords] /\ CopiesAreSane'
         /\ copies'[c] = copy /\ \A d \in Programs \ {c} : copies'[d] = copies[d]
<1>1. /\ copies' \in [Programs -> CopyRecords] /\ copies'[c] = copy
      /\ \A d \in Programs \ {c} : copies'[d] = copies[d]
  BY SettingsParts
<1>2. CopiesAreSane'
  <2> SUFFICES ASSUME NEW d \in Programs
               PROVE  Sane(copies'[d].config) /\ (copies'[d].sound => Runs(copies'[d].config))
    BY DEF CopiesAreSane, Sane, Runs, Configs, Configured, Profiles
  <2>1. CASE d = c
    BY <1>1, <2>1
  <2>2. CASE d # c
    BY <1>1, <2>2, SettingsParts
  <2> QED
    BY <2>1, <2>2
<1> QED
  BY <1>1, <1>2

(* Every change leaves a copy that is at least as usable as it was.        *)
LEMMA ChangesKeep ==
  ASSUME SettingsInv, NEW c \in Programs, NEW next,
         Improves(copies[c].config, next), Changes(c, next)
  PROVE  SettingsInv'
<1> DEFINE copy == [step |-> "changed", config |-> next,
                    sound |-> (copies[c].sound \/ ConfigIsValid(next)), partly |-> copies[c].partly]
<1>1. /\ Sane(next) /\ next \in Configs /\ (Runs(copies[c].config) => Runs(next))
      /\ copies[c].step = "open"
  BY DEF Improves, Sane, Changes
<1>2. (copies[c].sound \/ ConfigIsValid(next)) \in BOOLEAN
  BY SettingsParts DEF ConfigIsValid
<1>3. copies[c].sound \/ ConfigIsValid(next) => Runs(next)
  BY <1>1, RunsIsValid, SettingsParts
<1>4. copy \in CopyRecords /\ copy.config = next /\ copy.step = "changed"
      /\ (copy.sound => Runs(next))
  <2> DEFINE sound == copies[c].sound \/ ConfigIsValid(next)
  <2>1. sound \in BOOLEAN /\ (sound => Runs(next))
    BY <1>2, <1>3
  <2> HIDE DEF sound
  <2>2. [step |-> "changed", config |-> next, sound |-> sound, partly |-> copies[c].partly]
          \in CopyRecords
    BY <1>1, <2>1, SettingsParts DEF CopyRecords
  <2> QED
    BY <2>1, <2>2 DEF sound
<1>5. copies' = [copies EXCEPT ![c] = copy] /\ configFile' = configFile
  BY SettingsParts DEF Changes
<1> HIDE DEF copy
<1>6. /\ copies' \in [Programs -> CopyRecords] /\ CopiesAreSane'
      /\ copies'[c] = copy /\ \A d \in Programs \ {c} : copies'[d] = copies[d]
  BY <1>1, <1>4, <1>5, OtherCopy
<1>7. /\ configPast' \in [changes : 0 .. MaxChanges, unsound : BOOLEAN, emptied : BOOLEAN, cut : BOOLEAN]
      /\ configPast'.unsound = configPast.unsound /\ configPast'.cut = configPast.cut
  <2>1. configPast' = [configPast EXCEPT !.changes = configPast.changes + 1]
    BY SettingsParts DEF Changes
  <2>2. configPast.changes + 1 \in 0 .. MaxChanges
    BY SettingsParts, SettingsAssumption DEF Changes
  <2> QED
    BY <2>1, <2>2, SettingsParts
<1>8. SettingsTyped'
  BY <1>5, <1>6, <1>7, SettingsParts DEF SettingsTyped, Configs, Holds, NoFile, Cut, Profiles,
     CopyRecords, NoProfile, Tunings
<1>9. FileIsSane'
  BY <1>5, <1>7, SettingsParts DEF FileIsSane, Sane, Runs, Configs, Configured, Profiles
<1>10. CutHasCause'
  <2>1. \A d \in Programs : copies[d].step = "writing" => copies'[d].step = "writing"
    BY <1>1, <1>6
  <2> QED
    BY <1>5, <1>7, <2>1, SettingsParts DEF CutHasCause, Cut
<1> QED
  BY <1>6, <1>8, <1>9, <1>10 DEF SettingsInv

LEMMA SetupKeeps ==
  ASSUME SettingsInv, NEW c \in Programs, Setup(c)
  PROVE  SettingsInv'
<1> DEFINE config == copies[c].config
<1>0. PICK name \in Providers, model \in ModelNames :
        \E profile \in {p \in Profiles : p.tuned = "none"} \union ({config.profiles[name]} \ {NoProfile}) :
          /\ ProfileIsValid(profile)
          /\ Changes(c, [With(config, name, Serves(profile, model))
                           EXCEPT !.provider = name, !.model = model])
  BY DEF Setup
<1>1. PICK profile \in {p \in Profiles : p.tuned = "none"} \union ({config.profiles[name]} \ {NoProfile}) :
        /\ ProfileIsValid(profile)
        /\ Changes(c, [With(config, name, Serves(profile, model))
                         EXCEPT !.provider = name, !.model = model])
  BY <1>0
<1>2. Sane(config) /\ config \in Configs
  BY SettingsParts DEF Sane
<1> HIDE DEF config
<1>3. profile \in Profiles
  BY <1>1, <1>2, ConfiguredAre
<1> DEFINE served == Serves(profile, model)
           given == With(config, name, served)
           next == [given EXCEPT !.provider = name, !.model = model]
<1>4. served \in Profiles /\ ProfileIsValid(served)
  BY <1>1, <1>3, ServesKeeps
<1> HIDE DEF served
<1>5. Sane(given) /\ name \in Configured(given)
  BY <1>2, <1>4, WithProfile
<1> HIDE DEF given
<1>6. Sane(next) /\ Runs(next)
  BY <1>5, PutsInUse
<1> HIDE DEF next
<1>7. Improves(config, next)
  BY <1>6 DEF Improves
<1>8. Changes(c, next)
  BY <1>1 DEF next, given, served
<1> QED
  BY <1>7, <1>8, ChangesKeep DEF config

LEMMA SetFallbackKeeps ==
  ASSUME SettingsInv, NEW c \in Programs, SetFallback(c)
  PROVE  SettingsInv'
<1> DEFINE config == copies[c].config
<1>1. PICK names \in SUBSET Configured(config) : Changes(c, [config EXCEPT !.fallback = names])
  BY DEF SetFallback
<1>2. Sane(config) /\ config \in Configs
  BY SettingsParts DEF Sane
<1> HIDE DEF config
<1> DEFINE next == [config EXCEPT !.fallback = names]
<1>3. names \in SUBSET Providers
  BY <1>1, <1>2, ConfiguredAre
<1>4. /\ next \in Configs /\ next.profiles = config.profiles /\ next.fallback = names
      /\ next.provider = config.provider /\ next.model = config.model
  BY <1>2, <1>3 DEF Configs
<1> HIDE DEF next
<1>5. Configured(next) = Configured(config)
  BY <1>4 DEF Configured
<1>6. Improves(config, next)
  BY <1>1, <1>2, <1>4, <1>5 DEF Improves, Sane, Runs
<1> QED
  BY <1>1, <1>6, ChangesKeep DEF config, next

LEMMA AddProviderKeeps ==
  ASSUME SettingsInv, NEW c \in Programs, AddProvider(c)
  PROVE  SettingsInv'
<1> DEFINE config == copies[c].config
<1>1. PICK name \in Providers \ Configured(config), profile \in Profiles :
        ProfileIsValid(profile) /\ Changes(c, With(config, name, profile))
  BY DEF AddProvider
<1>2. Sane(config)
  BY SettingsParts
<1> HIDE DEF config
<1>3. Improves(config, With(config, name, profile))
  BY <1>1, <1>2, WithKeepsUse
<1> QED
  BY <1>1, <1>3, ChangesKeep DEF config

(* What goes is neither in use nor, from then on, a fallback.              *)
LEMMA WithoutProfile ==
  ASSUME NEW config, Sane(config), NEW name \in Configured(config) \ {config.provider}
  PROVE  Improves(config, [With(config, name, NoProfile) EXCEPT !.fallback = @ \ {name}])
<1> DEFINE given == With(config, name, NoProfile)
           next == [given EXCEPT !.fallback = @ \ {name}]
           profiles == [config.profiles EXCEPT ![name] = NoProfile]
           fallback == config.fallback \ {name}
<1>1. /\ config \in Configs /\ config.profiles \in [Providers -> Profiles \union {NoProfile}]
      /\ name \in Providers /\ config.fallback \in SUBSET Providers
  BY ConfiguredAre DEF Sane
<1>2. /\ profiles \in [Providers -> Profiles \union {NoProfile}] /\ profiles[name] = NoProfile
      /\ \A n \in Providers \ {name} : profiles[n] = config.profiles[n]
  BY <1>1
<1>3. given = [config EXCEPT !.profiles = profiles]
  BY <1>1 DEF With
<1>4. fallback \in SUBSET Providers
  BY <1>1
<1> HIDE DEF profiles
<1>5. given \in Configs /\ given.profiles = profiles /\ given.fallback = config.fallback
      /\ given.provider = config.provider /\ given.model = config.model
  BY <1>1, <1>2, <1>3 DEF Configs
<1>6. next = [given EXCEPT !.fallback = fallback]
  BY <1>5 DEF Configs
<1> HIDE DEF given, fallback, next
<1>7. /\ next \in Configs /\ next.profiles = profiles /\ next.fallback = fallback
      /\ next.provider = config.provider /\ next.model = config.model
  BY <1>4, <1>5, <1>6 DEF Configs
<1>8. Configured(next) = Configured(config) \ {name}
  BY <1>2, <1>7 DEF Configured
<1>9. \A n \in Configured(next) : ProfileIsValid(next.profiles[n])
  <2> TAKE n \in Configured(next)
  <2>1. n \in Configured(config) /\ n # name /\ n \in Providers
    BY <1>1, <1>8, ConfiguredAre
  <2>2. next.profiles[n] = config.profiles[n]
    BY <1>2, <1>7, <2>1
  <2> QED
    BY <2>1, <2>2 DEF Sane
<1>10. next.fallback \subseteq Configured(next)
  BY <1>7, <1>8 DEF Sane, fallback
<1>11. Improves(config, next)
  BY <1>7, <1>8, <1>9, <1>10 DEF Improves, Sane, Runs
<1> QED
  BY <1>11 DEF next, given

LEMMA RemoveProviderKeeps ==
  ASSUME SettingsInv, NEW c \in Programs, RemoveProvider(c)
  PROVE  SettingsInv'
<1> DEFINE config == copies[c].config
<1>1. PICK name \in Configured(config) \ {config.provider} :
        Changes(c, [With(config, name, NoProfile) EXCEPT !.fallback = @ \ {name}])
  BY DEF RemoveProvider
<1>2. Sane(config)
  BY SettingsParts
<1> HIDE DEF config
<1>3. Improves(config, [With(config, name, NoProfile) EXCEPT !.fallback = @ \ {name}])
  BY <1>2, WithoutProfile
<1> QED
  BY <1>1, <1>3, ChangesKeep DEF config

LEMMA UseProviderKeeps ==
  ASSUME SettingsInv, NEW c \in Programs, UseProvider(c)
  PROVE  SettingsInv'
<1> DEFINE config == copies[c].config
<1>1. PICK name \in Configured(config) :
        \/ \E model \in ModelNames :
             \E profile \in {config.profiles[name], Serves(config.profiles[name], model)} :
               Changes(c, [With(config, name, profile) EXCEPT !.provider = name, !.model = model])
        \/ \E model \in UsableModels(config, config.profiles[name]) :
             Changes(c, [config EXCEPT !.provider = name, !.model = model])
  BY DEF UseProvider
<1>2. Sane(config) /\ config \in Configs
  BY SettingsParts DEF Sane
<1> HIDE DEF config
<1>3. /\ name \in Providers /\ config.profiles[name] \in Profiles
      /\ config.model \in ModelNames \union {None}
      /\ ProfileIsValid(config.profiles[name])
  BY <1>1, <1>2, ConfiguredAre DEF Sane
<1>4. ASSUME NEW model \in ModelNames,
             NEW profile \in {config.profiles[name], Serves(config.profiles[name], model)},
             Changes(c, [With(config, name, profile) EXCEPT !.provider = name, !.model = model])
      PROVE  SettingsInv'
  <2> DEFINE given == With(config, name, profile)
             next == [given EXCEPT !.provider = name, !.model = model]
  <2>1. profile \in Profiles /\ ProfileIsValid(profile)
    BY <1>3, ServesKeeps
  <2>2. Sane(given) /\ name \in Configured(given)
    BY <1>2, <1>3, <2>1, WithProfile
  <2> HIDE DEF given
  <2>3. Sane(next) /\ Runs(next)
    BY <2>2, PutsInUse
  <2> HIDE DEF next
  <2>4. Improves(config, next) /\ Changes(c, next)
    BY <1>4, <2>3 DEF Improves, next, given
  <2> QED
    BY <2>4, ChangesKeep DEF config
<1>5. ASSUME NEW model \in UsableModels(config, config.profiles[name]),
             Changes(c, [config EXCEPT !.provider = name, !.model = model])
      PROVE  SettingsInv'
  <2> DEFINE next == [config EXCEPT !.provider = name, !.model = model]
  <2>1. model \in ModelNames
    BY <1>3, ProfileFacts DEF UsableModels
  <2>2. Sane(next) /\ Runs(next)
    BY <1>1, <1>2, <2>1, PutsInUse
  <2> HIDE DEF next
  <2>3. Improves(config, next) /\ Changes(c, next)
    BY <1>5, <2>2 DEF Improves, next
  <2> QED
    BY <2>3, ChangesKeep DEF config
<1> QED
  BY <1>1, <1>4, <1>5

(* A configured profile becomes another that validates.                    *)
LEMMA ProfileIsChanged ==
  ASSUME SettingsInv, NEW c \in Programs, NEW name \in Configured(copies[c].config),
         NEW profile, profile \in Profiles /\ ProfileIsValid(profile),
         Changes(c, With(copies[c].config, name, profile))
  PROVE  SettingsInv'
<1>1. Sane(copies[c].config) /\ copies[c].config \in Configs
  BY SettingsParts DEF Sane
<1>2. name \in Providers
  BY <1>1, ConfiguredAre
<1>3. Improves(copies[c].config, With(copies[c].config, name, profile))
  BY <1>1, <1>2, WithKeepsUse
<1> QED
  BY <1>3, ChangesKeep

LEMMA ProfileInUse ==
  ASSUME SettingsInv, NEW c \in Programs, NEW name \in Configured(copies[c].config)
  PROVE  /\ copies[c].config.profiles[name] \in Profiles
         /\ ProfileIsValid(copies[c].config.profiles[name])
<1>1. Sane(copies[c].config) /\ copies[c].config \in Configs
  BY SettingsParts DEF Sane
<1> QED
  BY <1>1, ConfiguredAre DEF Sane

LEMMA ModelsKeep ==
  ASSUME SettingsInv, NEW c \in Programs, RefreshModels(c) \/ AddModel(c) \/ RemoveModel(c)
  PROVE  SettingsInv'
<1> DEFINE config == copies[c].config
<1>1. CASE RefreshModels(c)
  <2>1. PICK name \in Configured(config), models \in SUBSET ModelNames :
          Changes(c, With(config, name, [config.profiles[name] EXCEPT !.models = models]))
    BY <1>1 DEF RefreshModels
  <2>2. /\ [config.profiles[name] EXCEPT !.models = models] \in Profiles
        /\ ProfileIsValid([config.profiles[name] EXCEPT !.models = models])
    BY ProfileInUse, OtherModels
  <2> QED
    BY <2>1, <2>2, ProfileIsChanged
<1>2. CASE AddModel(c)
  <2>1. PICK name \in Configured(config), model \in ModelNames :
          Changes(c, With(config, name, Serves(config.profiles[name], model)))
    BY <1>2 DEF AddModel
  <2>2. /\ Serves(config.profiles[name], model) \in Profiles
        /\ ProfileIsValid(Serves(config.profiles[name], model))
    BY ProfileInUse, ServesKeeps
  <2> QED
    BY <2>1, <2>2, ProfileIsChanged
<1>3. CASE RemoveModel(c)
  <2>0. PICK name \in Configured(config) :
          \E model \in config.profiles[name].models :
            Changes(c, With(config, name, [config.profiles[name] EXCEPT !.models = @ \ {model}]))
    BY <1>3 DEF RemoveModel
  <2>1. PICK model \in config.profiles[name].models :
          Changes(c, With(config, name, [config.profiles[name] EXCEPT !.models = @ \ {model}]))
    BY <2>0
  <2> DEFINE profile == config.profiles[name]
             models == profile.models \ {model}
  <2>2. profile \in Profiles /\ ProfileIsValid(profile)
    BY ProfileInUse
  <2> HIDE DEF profile
  <2>3. models \in SUBSET ModelNames
    BY <2>2, ProfileFacts
  <2>4. [profile EXCEPT !.models = @ \ {model}] = [profile EXCEPT !.models = models]
    BY <2>2 DEF Profiles
  <2> HIDE DEF models
  <2>5. /\ [profile EXCEPT !.models = @ \ {model}] \in Profiles
        /\ ProfileIsValid([profile EXCEPT !.models = @ \ {model}])
    BY <2>2, <2>3, <2>4, OtherModels
  <2>6. Changes(c, With(config, name, [profile EXCEPT !.models = @ \ {model}]))
    BY <2>1 DEF profile
  <2> QED
    BY <2>5, <2>6, ProfileIsChanged
<1> QED
  BY <1>1, <1>2, <1>3

LEMMA TuneProviderKeeps ==
  ASSUME SettingsInv, NEW c \in Programs, TuneProvider(c)
  PROVE  SettingsInv'
<1> DEFINE config == copies[c].config
           profile == config.profiles[config.provider]
<1>1. /\ config.provider \in Configured(config)
      /\ \E tuned \in {Retuned(profile, wire) : wire \in {"chat", "responses", "messages"}}
                      \union {[profile EXCEPT !.tuned = "effort"]}
                      \union (IF profile.tuned = "effort" THEN {[profile EXCEPT !.tuned = "none"]} ELSE {}) :
           ProfileIsValid(tuned) /\ Changes(c, With(config, config.provider, tuned))
  BY DEF TuneProvider
<1>2. profile \in Profiles /\ ProfileIsValid(profile)
  BY <1>1, ProfileInUse
<1>3. ASSUME NEW wire \in {"chat", "responses", "messages"}
      PROVE  Retuned(profile, wire) \in Profiles
  <2> HIDE DEF profile
  <2> DEFINE tuned == IF <<profile.tuned, wire>> \in {<<"effort", "responses">>, <<"thinking", "messages">>}
                      THEN profile.tuned ELSE "none"
  <2>1. tuned \in Tunings
    BY <1>2, ProfileFacts DEF Tunings
  <2>2. Retuned(profile, wire) = [profile EXCEPT !.wire = wire, !.tuned = tuned]
    BY <1>2 DEF Retuned, Profiles
  <2> HIDE DEF tuned
  <2> QED
    BY <1>2, <2>1, <2>2 DEF Profiles
<1>4. /\ [profile EXCEPT !.tuned = "effort"] \in Profiles
      /\ [profile EXCEPT !.tuned = "none"] \in Profiles
  <2> HIDE DEF profile
  <2> QED
    BY <1>2 DEF Profiles, Tunings
<1>5. PICK tuned \in Profiles : ProfileIsValid(tuned) /\ Changes(c, With(config, config.provider, tuned))
  <2> HIDE DEF config, profile
  <2> QED
    BY <1>1, <1>3, <1>4
<1> QED
  BY <1>1, <1>5, ProfileIsChanged

LEMMA ConfigLoadsKeeps ==
  ASSUME SettingsInv, NEW c \in Programs, ConfigLoads(c)
  PROVE  SettingsInv'
<1>1. PICK given \in Overrides :
        copies' = [copies EXCEPT ![c] =
          [step |-> "open", config |-> Overridden(Loadable, given),
           sound |-> ConfigIsValid(Overridden(Loadable, given)), partly |-> configFile = Cut]]
  BY DEF ConfigLoads
<1>2. /\ configFile' = configFile /\ configPast' = configPast
      /\ copies[c].step = "closed"
  BY DEF ConfigLoads
<1>3. Sane(Loadable)
  BY <1>2, SettingsParts, FileFacts, DefaultIsSane DEF FileIsSane, Loadable
<1> DEFINE config == Overridden(Loadable, given)
<1>4. Sane(config)
  BY <1>3, OverriddenIsSane
<1> HIDE DEF config
<1>5. ConfigIsValid(config) \in BOOLEAN /\ (ConfigIsValid(config) => Runs(config)) /\ config \in Configs
  BY <1>4, RunsIsValid DEF ConfigIsValid, Sane
<1> DEFINE copy == [step |-> "open", config |-> config, sound |-> ConfigIsValid(config),
                    partly |-> configFile = Cut]
<1>6. /\ copy \in CopyRecords /\ copy.config = config /\ (copy.sound => Runs(copy.config))
  <2> DEFINE sound == ConfigIsValid(config)
  <2>1. sound \in BOOLEAN /\ (sound => Runs(config))
    BY <1>5
  <2> HIDE DEF sound
  <2>2. [step |-> "open", config |-> config, sound |-> sound, partly |-> configFile = Cut]
          \in CopyRecords
    BY <1>5, <2>1 DEF CopyRecords
  <2> QED
    BY <2>1, <2>2 DEF sound
<1>7. copies' = [copies EXCEPT ![c] = copy]
  BY <1>1 DEF config
<1> HIDE DEF copy
<1>8. /\ copies' \in [Programs -> CopyRecords] /\ CopiesAreSane'
      /\ copies'[c] = copy /\ \A d \in Programs \ {c} : copies'[d] = copies[d]
  BY <1>4, <1>6, <1>7, OtherCopy
<1>9. SettingsTyped'
  BY <1>2, <1>8, SettingsParts DEF SettingsTyped, Configs, Holds, NoFile, Cut, Profiles,
     CopyRecords, NoProfile, Tunings
<1>10. FileIsSane'
  BY <1>2, SettingsParts DEF FileIsSane, Sane, Runs, Configs, Configured, Profiles
<1>11. CutHasCause'
  <2>1. copies[c].step # "writing" /\ CutHasCause
    BY <1>2, SettingsParts
  <2> QED
    BY <1>2, <1>8, <2>1 DEF CutHasCause, Cut
<1> QED
  BY <1>8, <1>9, <1>10, <1>11 DEF SettingsInv

(* A copy as it is, in another step.                                       *)
LEMMA StepsOn ==
  ASSUME SettingsInv, NEW c \in Programs, NEW step \in {"closed", "open", "changed", "writing"},
         copies' = [copies EXCEPT ![c].step = step]
  PROVE  /\ copies' \in [Programs -> CopyRecords] /\ CopiesAreSane'
         /\ copies'[c].step = step /\ \A d \in Programs \ {c} : copies'[d] = copies[d]
<1> DEFINE copy == [copies[c] EXCEPT !.step = step]
<1>1. /\ copy \in CopyRecords /\ copy.config = copies[c].config /\ copy.sound = copies[c].sound
      /\ copy.step = step
  BY SettingsParts DEF CopyRecords
<1>2. copies' = [copies EXCEPT ![c] = copy]
  BY SettingsParts
<1> HIDE DEF copy
<1> QED
  BY <1>1, <1>2, OtherCopy, SettingsParts

LEMMA ConfigSaveKeeps ==
  ASSUME SettingsInv, NEW c \in Programs, SaveBegins(c) \/ SaveFails(c)
  PROVE  SettingsInv'
<1>1. CASE SaveBegins(c)
  <2>1. /\ configFile' = Cut /\ configPast' = configPast
        /\ copies' = [copies EXCEPT ![c].step = "writing"]
    BY <1>1 DEF SaveBegins
  <2>2. /\ copies' \in [Programs -> CopyRecords] /\ CopiesAreSane' /\ copies'[c].step = "writing"
    BY <2>1, StepsOn
  <2>3. SettingsTyped'
    BY <2>1, <2>2, SettingsParts DEF SettingsTyped, Configs, Holds, NoFile, Cut, Profiles,
       CopyRecords, NoProfile, Tunings
  <2>4. FileIsSane' /\ CutHasCause'
    BY <2>1, <2>2, FileFacts DEF FileIsSane, CutHasCause
  <2> QED
    BY <2>2, <2>3, <2>4 DEF SettingsInv
<1>2. CASE SaveFails(c)
  <2>1. /\ configFile' = configFile /\ configPast' = configPast
        /\ copies' = [copies EXCEPT ![c].step = "open"] /\ copies[c].step = "changed"
    BY <1>2 DEF SaveFails
  <2>2. /\ copies' \in [Programs -> CopyRecords] /\ CopiesAreSane'
        /\ \A d \in Programs \ {c} : copies'[d] = copies[d]
    BY <2>1, StepsOn
  <2>3. SettingsTyped'
    BY <2>1, <2>2, SettingsParts DEF SettingsTyped, Configs, Holds, NoFile, Cut, Profiles,
       CopyRecords, NoProfile, Tunings
  <2>4. FileIsSane'
    BY <2>1, SettingsParts DEF FileIsSane, Sane, Runs, Configs, Configured, Profiles
  <2>5. CutHasCause'
    BY <2>1, <2>2, SettingsParts DEF CutHasCause, Cut
  <2> QED
    BY <2>2, <2>3, <2>4, <2>5 DEF SettingsInv
<1> QED
  BY <1>1, <1>2

LEMMA SaveEndsKeeps ==
  ASSUME SettingsInv, NEW c \in Programs, SaveEnds(c)
  PROVE  SettingsInv'
<1> DEFINE config == copies[c].config
<1>1. /\ configFile' \in {Holds(config)} \union (IF configFile = Cut THEN {} ELSE {Cut})
      /\ copies' = [copies EXCEPT ![c].step = "open"]
      /\ configPast' = [configPast EXCEPT
           !.unsound = @ \/ ~copies[c].sound,
           !.emptied = @ \/ copies[c].partly,
           !.cut = @ \/ configFile' = Cut]
  BY DEF SaveEnds
<1>2. config \in Configs /\ Sane(config) /\ (copies[c].sound => Runs(config))
  BY SettingsParts
<1>3. /\ copies' \in [Programs -> CopyRecords] /\ CopiesAreSane'
  BY <1>1, StepsOn
<1> HIDE DEF config
<1> DEFINE unsound == configPast.unsound \/ ~copies[c].sound
           emptied == configPast.emptied \/ copies[c].partly
           cut == configPast.cut \/ configFile' = Cut
<1>4. unsound \in BOOLEAN /\ cut \in BOOLEAN /\ emptied \in BOOLEAN
  BY SettingsParts
<1>5. configPast' = [configPast EXCEPT !.unsound = unsound, !.emptied = emptied, !.cut = cut]
  BY <1>1, SettingsParts
<1> HIDE DEF unsound, emptied, cut
<1>6. /\ configPast' \in [changes : 0 .. MaxChanges, unsound : BOOLEAN, emptied : BOOLEAN, cut : BOOLEAN]
      /\ configPast'.unsound = unsound /\ configPast'.cut = cut
  BY <1>4, <1>5, SettingsParts
<1>7. configFile' = Holds(config) \/ configFile' = Cut
  BY <1>1
<1>8. SettingsTyped'
  BY <1>2, <1>3, <1>6, <1>7 DEF SettingsTyped, Configs, Holds, NoFile, Cut, Profiles,
     CopyRecords, NoProfile, Tunings
<1>9. FileIsSane'
  <2>1. CASE configFile' = Cut
    BY <2>1, FileFacts DEF FileIsSane
  <2>2. CASE configFile' = Holds(config)
    <3>1. configFile'.config = config /\ (unsound \/ Runs(config))
      BY <1>2, <2>2, FileFacts DEF unsound
    <3>2. Sane(configFile'.config) /\ (configPast'.unsound \/ Runs(configFile'.config))
      BY <1>2, <1>6, <3>1
    <3> QED
      BY <3>2 DEF FileIsSane, Sane, Runs, Configs, Configured, Profiles
  <2> QED
    BY <1>7, <2>1, <2>2
<1>10. CutHasCause'
  BY <1>6 DEF CutHasCause, cut
<1> QED
  BY <1>3, <1>8, <1>9, <1>10 DEF SettingsInv

LEMMA ConfigClosesKeeps ==
  ASSUME SettingsInv, NEW c \in Programs, ConfigCloses(c)
  PROVE  SettingsInv'
<1>1. /\ copies' = [copies EXCEPT ![c] = NoCopy] /\ configFile' = configFile
      /\ configPast' = [configPast EXCEPT !.cut = @ \/ copies[c].step = "writing"]
  BY DEF ConfigCloses
<1>2. Sane(DefaultConfig) /\ DefaultConfig \in Configs
  BY DefaultIsSane DEF Sane
<1>3. NoCopy \in CopyRecords /\ Sane(NoCopy.config) /\ ~NoCopy.sound
  BY <1>2 DEF NoCopy, CopyRecords
<1>4. /\ copies' \in [Programs -> CopyRecords] /\ CopiesAreSane'
      /\ \A d \in Programs \ {c} : copies'[d] = copies[d]
  BY <1>1, <1>3, OtherCopy
<1> DEFINE cut == configPast.cut \/ copies[c].step = "writing"
<1>5. cut \in BOOLEAN /\ configPast' = [configPast EXCEPT !.cut = cut]
  BY <1>1, SettingsParts
<1> HIDE DEF cut
<1>6. /\ configPast' \in [changes : 0 .. MaxChanges, unsound : BOOLEAN, emptied : BOOLEAN, cut : BOOLEAN]
      /\ configPast'.unsound = configPast.unsound /\ configPast'.cut = cut
  BY <1>5, SettingsParts
<1>7. SettingsTyped'
  BY <1>1, <1>4, <1>6, SettingsParts DEF SettingsTyped, Configs, Holds, NoFile, Cut, Profiles,
     CopyRecords, NoProfile, Tunings
<1>8. FileIsSane'
  BY <1>1, <1>6, SettingsParts DEF FileIsSane, Sane, Runs, Configs, Configured, Profiles
<1>9. CutHasCause'
  BY <1>1, <1>4, <1>6, SettingsParts DEF CutHasCause, Cut, cut
<1> QED
  BY <1>4, <1>7, <1>8, <1>9 DEF SettingsInv

LEMMA SettingsStep == SettingsInv /\ [SettingsNext]_settingsVars => SettingsInv'
<1> SUFFICES ASSUME SettingsInv, [SettingsNext]_settingsVars
             PROVE  SettingsInv'
  OBVIOUS
<1>1. CASE UNCHANGED settingsVars
  BY <1>1 DEF settingsVars, SettingsInv, SettingsTyped, CopiesAreSane, FileIsSane, CutHasCause,
              Sane, Runs, Configs, Configured, Profiles, Holds, NoFile, Cut, CopyRecords, NoProfile, Tunings
<1>2. CASE SettingsNext
  <2>1. PICK c \in Programs :
          \/ ConfigLoads(c) \/ Setup(c) \/ SetFallback(c) \/ AddProvider(c) \/ RemoveProvider(c)
          \/ UseProvider(c) \/ RefreshModels(c) \/ AddModel(c) \/ RemoveModel(c) \/ TuneProvider(c)
          \/ SaveBegins(c) \/ SaveFails(c) \/ SaveEnds(c) \/ ConfigCloses(c)
    BY <1>2 DEF SettingsNext
  <2> QED
    BY <2>1, ConfigLoadsKeeps, SetupKeeps, SetFallbackKeeps, AddProviderKeeps,
       RemoveProviderKeeps,
       UseProviderKeeps, ModelsKeep, TuneProviderKeeps, ConfigSaveKeeps, SaveEndsKeeps, ConfigClosesKeeps
<1> QED
  BY <1>1, <1>2

LEMMA SettingsHolds == SettingsInv => SettingsTypeOK /\ SavedIsUsable
<1> SUFFICES ASSUME SettingsInv
             PROVE  SettingsTypeOK /\ SavedIsUsable
  OBVIOUS
<1>1. configPast.changes \in 0 .. MaxChanges
  BY DEF SettingsInv, SettingsTyped
<1>2. \A c \in Programs : copies[c].config \in Configs
  BY SettingsParts
<1>3. configFile \in {NoFile, Cut} \/ configFile.config \in Configs
  BY FileFacts DEF SettingsInv, SettingsTyped
<1>4. configFile.file = "whole" => ConfigIsValid(configFile.config) \/ configPast.unsound
  BY RunsIsValid DEF SettingsInv, FileIsSane
<1> QED
  BY <1>1, <1>2, <1>3, <1>4 DEF SettingsTypeOK, SavedIsUsable, SettingsInv, CutHasCause

-----------------------------------------------------------------------------
SignTasks == DOMAIN SignInTasks
SignSteps == {"idle", "renews", "browser", "trades", "granted", "changes", "connected"}
Records ==
  [url : Urls \union {0}, refresh : 0 .. MaxTokens, stale : BOOLEAN]
Signings == [step : SignSteps, record : Records, copy : [SignInServers -> Records],
             unread : BOOLEAN]

SignInTyped ==
  /\ records \in [SignInServers -> Records] /\ lastRecord \in [SignInServers -> Records]
  /\ signing \in [SignTasks -> Signings]
  /\ locked \in [Processes -> SignTasks \union {NoTask}]
  /\ urls \in [SignInServers -> Urls]
  /\ accepted \in [SignInServers -> SUBSET (1 .. MaxTokens)]
  /\ issuedTokens \in 1 .. MaxTokens /\ astray \in SUBSET SignInServers /\ crossed \in BOOLEAN
  /\ wiped \in SUBSET SignInServers

ChangesAreLocked == \A t \in SignTasks : At(t, "changes") => locked[ProcessOf(t)] = t
UrlsAgree ==
  \A t \in SignTasks :
    SignInTasks[t].does = "connect" /\ ~At(t, "idle") => signing[t].record.url = urls[ServerOf(t)]

(* As long as no two processes have changed the file at once: one task has *)
(* the file, and what it has read of it is what it holds.                  *)
OneChanges == \A p, q \in Processes : locked[p] # NoTask /\ locked[q] # NoTask => p = q
CopyIsFile ==
  \A t \in SignTasks :
    At(t, "changes") => signing[t].copy = IF signing[t].unread THEN NoRecords ELSE records
FileIsKept ==
  \A s \in SignInServers : records[s] = IF s \in wiped THEN NoRecord ELSE lastRecord[s]

(* No token is in use that was not issued.                                 *)
TokensWereIssued ==
  /\ \A s \in SignInServers : records[s].refresh <= issuedTokens
  /\ \A t \in SignTasks : signing[t].record.refresh <= issuedTokens

(* A task that is about to store a token: the server takes it, and where a *)
(* renewal replaces it, nobody else has it to renew.                       *)
Carries(t) == signing[t].step \in {"granted", "changes"} /\ signing[t].record.refresh # 0
TokenIsTaken ==
  \A t \in SignTasks : Carries(t) => signing[t].record.refresh \in accepted[ServerOf(t)]
TokenIsAlone ==
  \A t \in SignTasks :
    Carries(t) /\ ServerOf(t) \in Rotating =>
      /\ records[ServerOf(t)].refresh # signing[t].record.refresh
      /\ \A u \in SignTasks \ {t} :
           ServerOf(u) = ServerOf(t) /\ signing[u].step \in {"renews", "granted", "changes"} =>
             signing[u].record.refresh # signing[t].record.refresh
FileIsTaken ==
  \A s \in SignInServers :
    \/ records[s].refresh = 0 \/ records[s].refresh \in accepted[s] \/ s \in astray
    \/ \E t \in SignTasks : ServerOf(t) = s /\ Carries(t)

Uncrossed ==
  /\ OneChanges /\ CopyIsFile /\ FileIsKept
  /\ TokensWereIssued /\ TokenIsTaken /\ TokenIsAlone /\ FileIsTaken

SignInInv == SignInTyped /\ ChangesAreLocked /\ UrlsAgree /\ (~crossed => Uncrossed)

LEMMA TaskFacts ==
  ASSUME NEW t \in SignTasks
  PROVE  /\ ServerOf(t) \in SignInServers /\ ProcessOf(t) \in Processes /\ t # NoTask
         /\ SignInTasks[t].does \in {"connect", "command"}
BY SignInAssumption DEF SignTasks, SignInServers, Processes, ServerOf, ProcessOf

LEMMA RecordFacts ==
  ASSUME NEW record \in Records
  PROVE  /\ record.url \in Urls \union {0} /\ record.refresh \in 0 .. MaxTokens
         /\ record.stale \in BOOLEAN /\ record.refresh \in Nat
BY SignInAssumption DEF Records

LEMMA NoRecordFacts ==
  /\ NoRecord \in Records /\ NoRecord.refresh = 0
  /\ NoRecords \in [SignInServers -> Records]
  /\ NoSigning \in Signings /\ NoSigning.step = "idle" /\ NoSigning.record = NoRecord
<1>1. NoRecord \in Records /\ NoRecord.refresh = 0
  BY SignInAssumption DEF NoRecord, Records
<1>2. NoRecords \in [SignInServers -> Records]
  BY <1>1 DEF NoRecords
<1>3. NoSigning \in Signings /\ NoSigning.step = "idle" /\ NoSigning.record = NoRecord
  BY <1>1, <1>2 DEF NoSigning, Signings, SignSteps
<1> QED
  BY <1>1, <1>2, <1>3

LEMMA SigningParts ==
  ASSUME SignInInv, NEW t \in SignTasks
  PROVE  /\ signing[t] \in Signings /\ signing[t].step \in SignSteps
         /\ signing[t].record \in Records /\ signing[t].copy \in [SignInServers -> Records]
         /\ signing[t].unread \in BOOLEAN
         /\ records[ServerOf(t)] \in Records /\ urls[ServerOf(t)] \in Urls
         /\ accepted[ServerOf(t)] \in SUBSET (1 .. MaxTokens)
<1>1. /\ signing \in [SignTasks -> Signings] /\ records \in [SignInServers -> Records]
      /\ urls \in [SignInServers -> Urls]
      /\ accepted \in [SignInServers -> SUBSET (1 .. MaxTokens)]
  BY DEF SignInInv, SignInTyped
<1>2. signing[t] \in Signings /\ ServerOf(t) \in SignInServers
  BY <1>1, TaskFacts
<1>3. /\ records[ServerOf(t)] \in Records /\ urls[ServerOf(t)] \in Urls
      /\ accepted[ServerOf(t)] \in SUBSET (1 .. MaxTokens)
  BY <1>1, <1>2
<1> QED
  BY <1>2, <1>3 DEF Signings

LEMMA SignInInitInv == SignInInit => SignInInv
<1> SUFFICES ASSUME SignInInit
             PROVE  SignInInv
  OBVIOUS
<1>1. PICK already \in SUBSET SignInServers :
        /\ records = [s \in SignInServers |-> IF s \in already THEN Given(urls[s]) ELSE NoRecord]
        /\ accepted = [s \in SignInServers |-> IF s \in already THEN {1} ELSE {}]
  BY DEF SignInInit
<1>2. /\ urls = [s \in SignInServers |-> 1]
      /\ signing = [t \in SignTasks |-> NoSigning]
      /\ locked = [p \in Processes |-> NoTask]
      /\ issuedTokens = 1 /\ lastRecord = records /\ astray = {} /\ crossed = FALSE /\ wiped = {}
  BY DEF SignInInit, SignTasks
<1>3. MaxTokens \in Nat \ {0} /\ 1 \in 0 .. MaxTokens /\ 1 \in 1 .. MaxTokens /\ 1 \in Urls
  BY SignInAssumption
<1>4. Given(1) \in Records /\ Given(1).refresh = 1
  BY <1>3 DEF Given, Records
<1>5. /\ \A s \in SignInServers : records[s] \in Records
      /\ \A s \in SignInServers : records[s].refresh = 0 \/ (records[s].refresh = 1 /\ accepted[s] = {1})
      /\ records \in [SignInServers -> Records]
  BY <1>1, <1>2, <1>4, NoRecordFacts
<1>6. accepted \in [SignInServers -> SUBSET (1 .. MaxTokens)]
  BY <1>1, <1>3
<1>7. /\ \A t \in SignTasks : signing[t] = NoSigning
      /\ signing \in [SignTasks -> Signings]
  BY <1>2, NoRecordFacts
<1>8. SignInTyped
  BY <1>2, <1>3, <1>5, <1>6, <1>7 DEF SignInTyped
<1>9. \A t \in SignTasks : signing[t].step = "idle" /\ signing[t].record.refresh = 0
  BY <1>7, NoRecordFacts
<1>10. ChangesAreLocked /\ UrlsAgree
  BY <1>9 DEF ChangesAreLocked, UrlsAgree, At
<1>11. OneChanges /\ CopyIsFile /\ FileIsKept
  BY <1>2, <1>9 DEF OneChanges, CopyIsFile, FileIsKept, At
<1>12. TokensWereIssued /\ TokenIsTaken /\ TokenIsAlone
  BY <1>2, <1>5, <1>9 DEF TokensWereIssued, TokenIsTaken, TokenIsAlone, Carries
<1>13. FileIsTaken
  BY <1>5 DEF FileIsTaken
<1> QED
  BY <1>2, <1>8, <1>10, <1>11, <1>12, <1>13 DEF SignInInv, Uncrossed

(* The types of what a task's own step leaves.                             *)
LEMMA TaskTyped ==
  ASSUME SignInInv, NEW t \in SignTasks, NEW now \in Signings,
         signing' = [signing EXCEPT ![t] = now]
  PROVE  /\ signing' \in [SignTasks -> Signings] /\ signing'[t] = now
         /\ \A u \in SignTasks \ {t} : signing'[u] = signing[u]
BY DEF SignInInv, SignInTyped

(* A step of one task that takes nothing from and gives nothing to the     *)
(* file and the authorization server.                                      *)
LEMMA OwnStep ==
  ASSUME SignInInv, NEW t \in SignTasks, NEW now \in Signings,
         signing' = [signing EXCEPT ![t] = now],
         UNCHANGED <<records, locked, urls, accepted, issuedTokens, lastRecord, crossed, wiped>>,
         astray' \in SUBSET SignInServers, astray \subseteq astray',
         ~At(t, "changes"), now.step # "changes",
         SignInTasks[t].does = "connect" =>
           now.step = "idle" \/ now.record.url = urls[ServerOf(t)],
         now.record.refresh \in {0, records[ServerOf(t)].refresh, signing[t].record.refresh},
         now.step = "granted" => now.record.refresh = 0,
         now.step = "renews" => now.record.refresh = records[ServerOf(t)].refresh,
         Carries(t) => ServerOf(t) \in astray'
  PROVE  SignInInv'
<1>1. /\ signing' \in [SignTasks -> Signings] /\ signing'[t] = now
      /\ \A u \in SignTasks \ {t} : signing'[u] = signing[u]
  BY TaskTyped
<1>2. SignInTyped'
  BY <1>1 DEF SignInInv, SignInTyped, SignTasks, Signings, Records, SignInServers, Processes
<1>3. ChangesAreLocked'
  <2> SUFFICES ASSUME NEW u \in SignTasks, signing'[u].step = "changes"
               PROVE  locked'[ProcessOf(u)] = u
    BY DEF ChangesAreLocked, At, SignTasks
  <2>1. u # t /\ signing[u].step = "changes"
    BY <1>1
  <2> QED
    BY <2>1 DEF SignInInv, ChangesAreLocked, At
<1>4. UrlsAgree'
  <2> SUFFICES ASSUME NEW u \in SignTasks, SignInTasks[u].does = "connect", signing'[u].step # "idle"
               PROVE  signing'[u].record.url = urls'[ServerOf(u)]
    BY DEF UrlsAgree, At, SignTasks, ServerOf
  <2>1. CASE u = t
    BY <1>1, <2>1
  <2>2. CASE u # t
    BY <1>1, <2>2 DEF SignInInv, UrlsAgree, At
  <2> QED
    BY <2>1, <2>2
<1>5. ASSUME ~crossed
      PROVE  Uncrossed'
  <2>1. Uncrossed
    BY <1>5 DEF SignInInv
  <2>2. ServerOf(t) \in SignInServers /\ signing[t].record \in Records /\ records[ServerOf(t)] \in Records
    BY TaskFacts, SigningParts
  <2>3. ~(now.step \in {"granted", "changes"} /\ now.record.refresh # 0)
    OBVIOUS
  <2>4. \A u \in SignTasks : (Carries(u))' => u # t /\ Carries(u)
    BY <1>1, <2>3 DEF Carries
  <2>5. OneChanges' /\ FileIsKept'
    BY <2>1 DEF Uncrossed, OneChanges, FileIsKept, Processes, SignInServers
  <2>6. CopyIsFile'
    BY <1>1, <2>1 DEF Uncrossed, CopyIsFile, At, SignTasks
  <2>7. TokensWereIssued'
    <3>1. now.record.refresh <= issuedTokens
      <4>1. records[ServerOf(t)].refresh <= issuedTokens /\ signing[t].record.refresh <= issuedTokens
        BY <2>1, <2>2 DEF Uncrossed, TokensWereIssued
      <4>2. 0 <= issuedTokens
        BY SignInAssumption DEF SignInInv, SignInTyped
      <4> QED
        BY <4>1, <4>2
    <3>2. ASSUME NEW u \in SignTasks PROVE signing'[u].record.refresh <= issuedTokens'
      BY <1>1, <2>1, <3>1 DEF Uncrossed, TokensWereIssued
    <3> QED
      BY <2>1, <3>2 DEF Uncrossed, TokensWereIssued, SignTasks, SignInServers
  <2>8. TokenIsTaken'
    BY <1>1, <2>1, <2>4 DEF Uncrossed, TokenIsTaken, ServerOf, SignTasks
  <2>9. TokenIsAlone'
    <3> SUFFICES ASSUME NEW v \in SignTasks, (Carries(v))', ServerOf(v) \in Rotating
                 PROVE  /\ records[ServerOf(v)].refresh # signing'[v].record.refresh
                        /\ \A u \in SignTasks \ {v} :
                             ServerOf(u) = ServerOf(v) /\ signing'[u].step \in {"renews", "granted", "changes"} =>
                               signing'[u].record.refresh # signing'[v].record.refresh
      BY DEF TokenIsAlone, ServerOf, SignTasks
    <3>1. v # t /\ Carries(v) /\ signing'[v] = signing[v] /\ signing[v].record.refresh # 0
      BY <1>1, <2>4 DEF Carries
    <3>2. /\ records[ServerOf(v)].refresh # signing[v].record.refresh
          /\ \A u \in SignTasks \ {v} :
               ServerOf(u) = ServerOf(v) /\ signing[u].step \in {"renews", "granted", "changes"} =>
                 signing[u].record.refresh # signing[v].record.refresh
      BY <2>1, <3>1 DEF Uncrossed, TokenIsAlone
    <3>3. ASSUME NEW u \in SignTasks \ {v}, ServerOf(u) = ServerOf(v),
                 signing'[u].step \in {"renews", "granted", "changes"}
          PROVE  signing'[u].record.refresh # signing'[v].record.refresh
      <4>1. CASE u = t
        <5>1. now.step \in {"renews", "granted"}
          BY <1>1, <3>3, <4>1
        <5>2. now.record.refresh \in {0, records[ServerOf(v)].refresh}
          BY <3>3, <4>1, <5>1
        <5> QED
          BY <1>1, <3>1, <3>2, <4>1, <5>2
      <4>2. CASE u # t
        BY <1>1, <3>1, <3>2, <3>3, <4>2
      <4> QED
        BY <4>1, <4>2
    <3> QED
      BY <3>1, <3>2, <3>3
  <2>10. FileIsTaken'
    <3> SUFFICES ASSUME NEW s \in SignInServers
                 PROVE  \/ records[s].refresh = 0 \/ records[s].refresh \in accepted[s] \/ s \in astray'
                        \/ \E u \in SignTasks : ServerOf(u) = s /\ (Carries(u))'
      BY DEF FileIsTaken, SignInServers, SignTasks, ServerOf
    <3>1. \/ records[s].refresh = 0 \/ records[s].refresh \in accepted[s] \/ s \in astray
          \/ \E u \in SignTasks : ServerOf(u) = s /\ Carries(u)
      BY <2>1 DEF Uncrossed, FileIsTaken
    <3>2. ASSUME NEW u \in SignTasks, ServerOf(u) = s, Carries(u)
          PROVE  s \in astray' \/ \E v \in SignTasks : ServerOf(v) = s /\ (Carries(v))'
      <4>1. CASE u = t
        BY <3>2, <4>1
      <4>2. CASE u # t
        <5>1. (Carries(u))'
          BY <1>1, <3>2, <4>2 DEF Carries
        <5> QED
          BY <3>2, <5>1
      <4> QED
        BY <4>1, <4>2
    <3> QED
      BY <3>1, <3>2
  <2> QED
    BY <2>5, <2>6, <2>7, <2>8, <2>9, <2>10 DEF Uncrossed
<1> QED
  BY <1>2, <1>3, <1>4, <1>5 DEF SignInInv

LEMMA EndsKeeps ==
  ASSUME SignInInv, NEW t \in SignTasks, Ends(t), ~At(t, "changes"),
         UNCHANGED <<records, locked, urls, accepted, issuedTokens, lastRecord, crossed, wiped>>,
         astray' \in SUBSET SignInServers, astray \subseteq astray',
         Carries(t) => ServerOf(t) \in astray'
  PROVE  SignInInv'
<1>1. signing' = [signing EXCEPT ![t] = NoSigning]
  BY DEF Ends
<1>2. /\ NoSigning \in Signings /\ NoSigning.step = "idle" /\ NoSigning.record.refresh = 0
  BY NoRecordFacts
<1> QED
  BY <1>1, <1>2, OwnStep

(* A task that goes on with a record, or with the one it has.              *)
LEMMA StepsWithIs ==
  ASSUME SignInInv, NEW t \in SignTasks, NEW step \in SignSteps, NEW record \in Records,
         StepsWith(t, step, record)
  PROVE  \E now \in Signings : /\ now.step = step /\ now.record = record
                               /\ signing' = [signing EXCEPT ![t] = now]
<1> DEFINE now == [signing[t] EXCEPT !.step = step, !.record = record]
<1>1. signing[t] \in Signings /\ signing \in [SignTasks -> Signings]
  BY SigningParts DEF SignInInv, SignInTyped
<1>2. now \in Signings /\ now.step = step /\ now.record = record
  BY <1>1 DEF Signings
<1>3. signing' = [signing EXCEPT ![t] = now]
  BY <1>1 DEF StepsWith
<1> HIDE DEF now
<1> QED
  BY <1>2, <1>3

LEMMA StepsIs ==
  ASSUME SignInInv, NEW t \in SignTasks, NEW step \in SignSteps, Steps(t, step)
  PROVE  \E now \in Signings : /\ now.step = step /\ now.record = signing[t].record
                               /\ signing' = [signing EXCEPT ![t] = now]
<1> DEFINE now == [signing[t] EXCEPT !.step = step]
<1>1. signing[t] \in Signings /\ signing \in [SignTasks -> Signings]
  BY SigningParts DEF SignInInv, SignInTyped
<1>2. now \in Signings /\ now.step = step /\ now.record = signing[t].record
  BY <1>1 DEF Signings
<1>3. signing' = [signing EXCEPT ![t] = now]
  BY <1>1 DEF Steps
<1> HIDE DEF now
<1> QED
  BY <1>2, <1>3

LEMMA AstrayStays ==
  ASSUME SignInInv, NEW t \in SignTasks, UNCHANGED astray
  PROVE  astray' \in SUBSET SignInServers /\ astray \subseteq astray'
BY DEF SignInInv, SignInTyped, SignInServers

LEMMA SignInConnectsKeeps ==
  ASSUME SignInInv, NEW t \in SignTasks, SignInConnects(t)
  PROVE  SignInInv'
<1>1. /\ AtRest(t) /\ bearer(t)
      /\ UNCHANGED <<records, locked, urls, accepted, issuedTokens, lastRecord, astray, crossed, wiped>>
  BY DEF SignInConnects
<1>2. /\ ~At(t, "changes") /\ ~Carries(t) /\ records[ServerOf(t)] \in Records
      /\ astray' \in SUBSET SignInServers /\ astray \subseteq astray'
  BY <1>1, SigningParts, AstrayStays DEF AtRest, At, Carries
<1> DEFINE record == records[ServerOf(t)]
<1>3. \/ Ends(t)
      \/ record.url = urls[ServerOf(t)] /\ StepsWith(t, "connected", record)
      \/ record.url = urls[ServerOf(t)] /\ StepsWith(t, "renews", record)
  BY <1>1 DEF bearer, Loaded
<1> HIDE DEF record
<1>4. CASE Ends(t)
  BY <1>1, <1>2, <1>4, EndsKeeps
<1>5. ASSUME NEW step \in {"connected", "renews"}, record.url = urls[ServerOf(t)], StepsWith(t, step, record)
      PROVE  SignInInv'
  <2>1. PICK now \in Signings : /\ now.step = step /\ now.record = record
                                /\ signing' = [signing EXCEPT ![t] = now]
    BY <1>2, <1>5, StepsWithIs DEF SignSteps, record
  <2>2. now.step # "changes" /\ now.step # "granted"
    BY <2>1
  <2>3. now.record.refresh = records[ServerOf(t)].refresh /\ now.record.url = urls[ServerOf(t)]
    BY <1>5, <2>1 DEF record
  <2> QED
    BY <1>1, <1>2, <2>1, <2>2, <2>3, OwnStep
<1> QED
  BY <1>3, <1>4, <1>5

LEMMA SignInBeginsKeeps ==
  ASSUME SignInInv, NEW t \in SignTasks, SignInBegins(t)
  PROVE  SignInInv'
<1>1. /\ AtRest(t) /\ SignInTasks[t].does # "connect"
      /\ UNCHANGED <<records, locked, urls, accepted, issuedTokens, lastRecord, astray, crossed, wiped>>
  BY DEF SignInBegins
<1>2. /\ ~At(t, "changes") /\ ~Carries(t) /\ records[ServerOf(t)] \in Records
      /\ astray' \in SUBSET SignInServers /\ astray \subseteq astray' /\ urls[ServerOf(t)] \in Urls
  BY <1>1, SigningParts, AstrayStays DEF AtRest, At, Carries
<1>3. \/ Ends(t)
      \/ StepsWith(t, "browser", [NoRecord EXCEPT !.url = urls[ServerOf(t)]])
  BY DEF SignInBegins
<1>4. CASE Ends(t)
  BY <1>1, <1>2, <1>4, EndsKeeps
<1>5. CASE StepsWith(t, "browser", [NoRecord EXCEPT !.url = urls[ServerOf(t)]])
  <2> DEFINE record == [NoRecord EXCEPT !.url = urls[ServerOf(t)]]
  <2>1. record \in Records /\ record.refresh = 0
    BY <1>2, NoRecordFacts DEF Records
  <2>2. PICK now \in Signings : /\ now.step = "browser" /\ now.record = record
                                /\ signing' = [signing EXCEPT ![t] = now]
    <3> HIDE DEF record
    <3>1. StepsWith(t, "browser", record)
      BY <1>5 DEF record
    <3> QED
      BY <2>1, <3>1, StepsWithIs DEF SignSteps
  <2> HIDE DEF record
  <2> QED
    BY <1>1, <1>2, <2>1, <2>2, OwnStep
<1> QED
  BY <1>3, <1>4, <1>5

LEMMA BrowserReturnsKeeps ==
  ASSUME SignInInv, NEW t \in SignTasks, BrowserReturns(t)
  PROVE  SignInInv'
<1>1. /\ signing[t].step = "browser" /\ (Steps(t, "trades") \/ Ends(t))
      /\ UNCHANGED <<records, locked, urls, accepted, issuedTokens, lastRecord, astray, crossed, wiped>>
  BY DEF BrowserReturns, At
<1>2. /\ ~At(t, "changes") /\ ~Carries(t) /\ astray' \in SUBSET SignInServers /\ astray \subseteq astray'
  BY <1>1, AstrayStays DEF At, Carries
<1>3. CASE Ends(t)
  BY <1>1, <1>2, <1>3, EndsKeeps
<1>4. CASE Steps(t, "trades")
  <2>1. PICK now \in Signings : /\ now.step = "trades" /\ now.record = signing[t].record
                                /\ signing' = [signing EXCEPT ![t] = now]
    BY <1>4, StepsIs DEF SignSteps
  <2>2. SignInTasks[t].does = "connect" => now.record.url = urls[ServerOf(t)]
    BY <1>1, <2>1 DEF SignInInv, UrlsAgree, At
  <2> QED
    BY <1>1, <1>2, <2>1, <2>2, OwnStep
<1> QED
  BY <1>1, <1>3, <1>4

LEMMA SignInUnansweredKeeps ==
  ASSUME SignInInv, NEW t \in SignTasks, SignInUnanswered(t)
  PROVE  SignInInv'
<1>1. /\ signing[t].step \in {"trades", "renews", "granted"} /\ Ends(t)
      /\ astray' = IF At(t, "granted") THEN astray \union {ServerOf(t)} ELSE astray
      /\ UNCHANGED <<records, locked, urls, accepted, issuedTokens, lastRecord, crossed, wiped>>
  BY DEF SignInUnanswered
<1>2. /\ ~At(t, "changes") /\ (Carries(t) => ServerOf(t) \in astray')
  BY <1>1 DEF At, Carries
<1>3. astray' \in SUBSET SignInServers /\ astray \subseteq astray'
  BY <1>1, TaskFacts DEF SignInInv, SignInTyped
<1> QED
  BY <1>1, <1>2, <1>3, EndsKeeps

LEMMA SignsOutKeeps ==
  ASSUME SignInInv, NEW t \in SignTasks, SignsOut(t)
  PROVE  SignInInv'
<1>1. /\ AtRest(t) /\ SignInTasks[t].does # "connect" /\ StepsWith(t, "granted", NoRecord)
      /\ UNCHANGED <<records, locked, urls, accepted, issuedTokens, lastRecord, astray, crossed, wiped>>
  BY DEF SignsOut
<1>2. /\ ~At(t, "changes") /\ ~Carries(t) /\ astray' \in SUBSET SignInServers /\ astray \subseteq astray'
  BY <1>1, AstrayStays DEF AtRest, At, Carries
<1>3. PICK now \in Signings : /\ now.step = "granted" /\ now.record = NoRecord
                              /\ signing' = [signing EXCEPT ![t] = now]
  BY <1>1, NoRecordFacts, StepsWithIs DEF SignSteps
<1>4. now.record.refresh = 0
  BY <1>3, NoRecordFacts
<1> QED
  BY <1>1, <1>2, <1>3, <1>4, OwnStep

(* The authorization server grants a task a token: a new one, none, or -   *)
(* where a renewal replaces nothing - the one that was renewed.            *)
LEMMA GrantKeeps ==
  ASSUME SignInInv, NEW t \in SignTasks, NEW now \in Signings, NEW taken,
         taken \in SUBSET (1 .. MaxTokens),
         signing[t].step \in {"trades", "renews"}, issuedTokens < MaxTokens,
         signing' = [signing EXCEPT ![t] = now], now.step = "granted",
         now.record.url = signing[t].record.url,
         \/ now.record.refresh \in {0, issuedTokens + 1}
         \/ ServerOf(t) \notin Rotating /\ now.record.refresh = signing[t].record.refresh,
         accepted' = [accepted EXCEPT ![ServerOf(t)] = taken],
         now.record.refresh # 0 => now.record.refresh \in taken,
         \A token \in accepted[ServerOf(t)] :
           \/ token \in taken
           \/ /\ token = signing[t].record.refresh /\ ServerOf(t) \in Rotating
              /\ signing[t].step = "renews" /\ now.record.refresh # 0,
         issuedTokens' = issuedTokens + 1,
         UNCHANGED <<records, locked, urls, lastRecord, astray, crossed, wiped>>
  PROVE  SignInInv'
<1> DEFINE s == ServerOf(t)
           r == now.record.refresh
<1>1. /\ signing' \in [SignTasks -> Signings] /\ signing'[t] = now
      /\ \A u \in SignTasks \ {t} : signing'[u] = signing[u]
  BY TaskTyped
<1>2. /\ s \in SignInServers /\ accepted[s] \in SUBSET (1 .. MaxTokens)
      /\ signing[t].record \in Records /\ r \in Nat /\ signing[t].record.refresh \in Nat
  <2>1. now.record \in Records
    BY DEF Signings
  <2> QED
    BY <2>1, TaskFacts, SigningParts, RecordFacts
<1>3. /\ accepted' \in [SignInServers -> SUBSET (1 .. MaxTokens)] /\ accepted'[s] = taken
      /\ \A o \in SignInServers \ {s} : accepted'[o] = accepted[o]
  BY <1>2 DEF SignInInv, SignInTyped
<1>4. issuedTokens \in Nat /\ issuedTokens + 1 \in 1 .. MaxTokens /\ 1 <= issuedTokens
  BY SignInAssumption DEF SignInInv, SignInTyped
<1>5. SignInTyped'
  BY <1>1, <1>3, <1>4 DEF SignInInv, SignInTyped, SignTasks, Signings, Records, SignInServers,
     Processes
<1>6. ChangesAreLocked'
  <2> SUFFICES ASSUME NEW u \in SignTasks, signing'[u].step = "changes"
               PROVE  locked'[ProcessOf(u)] = u
    BY DEF ChangesAreLocked, At, SignTasks
  <2>1. u # t /\ signing[u].step = "changes"
    BY <1>1
  <2> QED
    BY <2>1 DEF SignInInv, ChangesAreLocked, At
<1>7. UrlsAgree'
  <2> SUFFICES ASSUME NEW u \in SignTasks, SignInTasks[u].does = "connect", signing'[u].step # "idle"
               PROVE  signing'[u].record.url = urls'[ServerOf(u)]
    BY DEF UrlsAgree, At, SignTasks, ServerOf
  <2>1. CASE u = t
    <3>1. signing[t].step # "idle"
      OBVIOUS
    <3> QED
      BY <1>1, <2>1, <3>1 DEF SignInInv, UrlsAgree, At
  <2>2. CASE u # t
    BY <1>1, <2>2 DEF SignInInv, UrlsAgree, At
  <2> QED
    BY <2>1, <2>2
<1>8. ASSUME ~crossed
      PROVE  Uncrossed'
  <2>1. /\ OneChanges /\ CopyIsFile /\ FileIsKept
        /\ TokensWereIssued /\ TokenIsTaken /\ TokenIsAlone /\ FileIsTaken
    BY <1>8 DEF SignInInv, Uncrossed
  <2>2. \A u \in SignTasks \ {t} : (Carries(u))' <=> Carries(u)
    BY <1>1 DEF Carries
  <2>3. ~Carries(t) /\ ((Carries(t))' <=> r # 0)
    BY <1>1 DEF Carries
  <2>4. OneChanges' /\ FileIsKept'
    BY <2>1 DEF OneChanges, FileIsKept, Processes, SignInServers
  <2>5. CopyIsFile'
    BY <1>1, <2>1 DEF CopyIsFile, At, SignTasks
  <2>6. /\ \A u \in SignTasks : signing[u].record.refresh <= issuedTokens /\ signing[u].record.refresh \in Nat
        /\ \A o \in SignInServers : records[o].refresh <= issuedTokens /\ records[o].refresh \in Nat
    <3>1. \A u \in SignTasks : signing[u].record.refresh \in Nat
      BY SigningParts, RecordFacts
    <3>2. \A o \in SignInServers : records[o].refresh \in Nat
      BY RecordFacts DEF SignInInv, SignInTyped
    <3> QED
      BY <2>1, <3>1, <3>2 DEF TokensWereIssued
  <2>7. r <= issuedTokens + 1
    <3>1. CASE r \in {0, issuedTokens + 1}
      BY <1>4, <3>1
    <3>2. CASE s \notin Rotating /\ r = signing[t].record.refresh
      BY <1>2, <1>4, <3>2, <2>6
    <3> QED
      BY <3>1, <3>2
  <2>8. TokensWereIssued'
    <3>1. ASSUME NEW u \in SignTasks PROVE signing'[u].record.refresh <= issuedTokens + 1
      BY <1>1, <1>4, <2>6, <2>7
    <3>2. ASSUME NEW o \in SignInServers PROVE records[o].refresh <= issuedTokens + 1
      BY <1>4, <2>6
    <3> QED
      BY <3>1, <3>2 DEF TokensWereIssued, SignTasks, SignInServers
  <2>9. TokenIsTaken'
    <3> SUFFICES ASSUME NEW u \in SignTasks, (Carries(u))'
                 PROVE  signing'[u].record.refresh \in accepted'[ServerOf(u)]
      BY DEF TokenIsTaken, SignTasks, ServerOf
    <3>1. CASE u = t
      BY <1>1, <1>3, <2>3, <3>1
    <3>2. CASE u # t
      <4>1. Carries(u) /\ signing'[u] = signing[u] /\ ServerOf(u) \in SignInServers
            /\ signing[u].record.refresh \in accepted[ServerOf(u)]
        BY <1>1, <2>1, <2>2, <3>2, TaskFacts DEF TokenIsTaken
      <4>2. CASE ServerOf(u) # s
        BY <1>3, <4>1, <4>2
      <4>3. CASE ServerOf(u) = s
        <5>1. CASE signing[u].record.refresh \in taken
          BY <1>3, <4>1, <4>3, <5>1
        <5>2. CASE signing[u].record.refresh \notin taken
          <6>1. /\ signing[u].record.refresh = signing[t].record.refresh
                /\ s \in Rotating /\ signing[t].step = "renews"
            BY <4>1, <4>3, <5>2
          <6>2. signing[t].record.refresh # signing[u].record.refresh
            BY <2>1, <3>2, <4>1, <4>3, <6>1 DEF TokenIsAlone
          <6> QED
            BY <6>1, <6>2
        <5> QED
          BY <5>1, <5>2
      <4> QED
        BY <4>2, <4>3
    <3> QED
      BY <3>1, <3>2
  <2>10. TokenIsAlone'
    <3> SUFFICES ASSUME NEW v \in SignTasks, (Carries(v))', ServerOf(v) \in Rotating
                 PROVE  /\ records[ServerOf(v)].refresh # signing'[v].record.refresh
                        /\ \A u \in SignTasks \ {v} :
                             ServerOf(u) = ServerOf(v) /\ signing'[u].step \in {"renews", "granted", "changes"} =>
                               signing'[u].record.refresh # signing'[v].record.refresh
      BY DEF TokenIsAlone, ServerOf, SignTasks
    <3>1. CASE v = t
      <4>1. r = issuedTokens + 1
        BY <2>3, <3>1
      <4>2. ASSUME NEW n \in Nat, n <= issuedTokens PROVE n # r
        BY <1>4, <4>1, <4>2
      <4>3. records[s].refresh # r
        BY <1>2, <2>6, <4>2
      <4>4. \A u \in SignTasks \ {t} : signing'[u].record.refresh # r
        BY <1>1, <2>6, <4>2
      <4> QED
        BY <1>1, <3>1, <4>3, <4>4
    <3>2. CASE v # t
      <4>1. Carries(v) /\ signing'[v] = signing[v] /\ signing[v].record.refresh # 0
        BY <1>1, <2>2, <3>2 DEF Carries
      <4>2. /\ records[ServerOf(v)].refresh # signing[v].record.refresh
            /\ \A u \in SignTasks \ {v} :
                 ServerOf(u) = ServerOf(v) /\ signing[u].step \in {"renews", "granted", "changes"} =>
                   signing[u].record.refresh # signing[v].record.refresh
        BY <2>1, <4>1 DEF TokenIsAlone
      <4>3. ServerOf(t) = ServerOf(v) => r # signing[v].record.refresh
        <5>1. ServerOf(t) = ServerOf(v) => r \in {0, issuedTokens + 1}
          OBVIOUS
        <5>2. signing[v].record.refresh # issuedTokens + 1
          BY <1>4, <2>6
        <5> QED
          BY <4>1, <5>1, <5>2
      <4> QED
        BY <1>1, <4>1, <4>2, <4>3
    <3> QED
      BY <3>1, <3>2
  <2>11. FileIsTaken'
    <3> SUFFICES ASSUME NEW o \in SignInServers
                 PROVE  \/ records[o].refresh = 0 \/ records[o].refresh \in accepted'[o] \/ o \in astray
                        \/ \E u \in SignTasks : ServerOf(u) = o /\ (Carries(u))'
      BY DEF FileIsTaken, SignInServers, SignTasks, ServerOf
    <3>1. \/ records[o].refresh = 0 \/ records[o].refresh \in accepted[o] \/ o \in astray
          \/ \E u \in SignTasks : ServerOf(u) = o /\ Carries(u)
      BY <2>1 DEF FileIsTaken
    <3>2. ASSUME NEW u \in SignTasks, ServerOf(u) = o, Carries(u)
          PROVE  \E v \in SignTasks : ServerOf(v) = o /\ (Carries(v))'
      BY <2>2, <2>3, <3>2
    <3>3. ASSUME records[o].refresh \in accepted[o]
          PROVE  \/ records[o].refresh \in accepted'[o]
                 \/ \E u \in SignTasks : ServerOf(u) = o /\ (Carries(u))'
      <4>1. CASE o # s
        BY <1>3, <3>3, <4>1
      <4>2. CASE o = s
        BY <1>3, <2>3, <3>3, <4>2
      <4> QED
        BY <4>1, <4>2
    <3> QED
      BY <3>1, <3>2, <3>3
  <2> QED
    BY <2>4, <2>5, <2>8, <2>9, <2>10, <2>11 DEF Uncrossed
<1> QED
  BY <1>5, <1>6, <1>7, <1>8 DEF SignInInv

LEMMA TradesKeeps ==
  ASSUME SignInInv, NEW t \in SignTasks, Trades(t)
  PROVE  SignInInv'
<1>1. /\ signing[t].step = "trades" /\ issuedTokens < MaxTokens /\ issuedTokens' = issuedTokens + 1
      /\ UNCHANGED <<records, locked, urls, lastRecord, astray, crossed, wiped>>
  BY DEF Trades, At
<1>2. PICK refresh \in {0, issuedTokens + 1} :
        /\ StepsWith(t, "granted", [signing[t].record EXCEPT !.refresh = refresh])
        /\ accepted' = [accepted EXCEPT ![ServerOf(t)] = @ \union ({refresh} \ {0})]
  BY DEF Trades
<1>3. issuedTokens \in Nat /\ issuedTokens + 1 \in 1 .. MaxTokens /\ 0 \in 0 .. MaxTokens
  BY <1>1, SignInAssumption DEF SignInInv, SignInTyped
<1> DEFINE record == [signing[t].record EXCEPT !.refresh = refresh]
           taken == accepted[ServerOf(t)] \union ({refresh} \ {0})
<1>4. record \in Records /\ record.refresh = refresh /\ record.url = signing[t].record.url
  <2>1. signing[t].record \in Records /\ refresh \in 0 .. MaxTokens
    BY <1>2, <1>3, SigningParts
  <2> QED
    BY <2>1 DEF Records
<1>5. taken \in SUBSET (1 .. MaxTokens)
  BY <1>2, <1>3, SigningParts
<1>6. accepted' = [accepted EXCEPT ![ServerOf(t)] = taken]
  BY <1>2, TaskFacts DEF SignInInv, SignInTyped
<1>7. StepsWith(t, "granted", record)
  BY <1>2
<1>8. (refresh # 0 => refresh \in taken) /\ \A token \in accepted[ServerOf(t)] : token \in taken
  OBVIOUS
<1> HIDE DEF record, taken
<1>9. PICK now \in Signings : /\ now.step = "granted" /\ now.record = record
                              /\ signing' = [signing EXCEPT ![t] = now]
  BY <1>4, <1>7, StepsWithIs DEF SignSteps
<1>10. now.record.refresh = refresh /\ now.record.url = signing[t].record.url
  BY <1>4, <1>9
<1> QED
  BY <1>1, <1>2, <1>5, <1>6, <1>8, <1>9, <1>10, GrantKeeps

LEMMA RenewsKeeps ==
  ASSUME SignInInv, NEW t \in SignTasks, Renews(t)
  PROVE  SignInInv'
<1> DEFINE s == ServerOf(t)
           old == signing[t].record.refresh
           new == IF s \in Rotating THEN issuedTokens + 1 ELSE 0
<1>1. /\ signing[t].step = "renews" /\ issuedTokens < MaxTokens
      /\ UNCHANGED <<records, locked, urls, lastRecord, astray, crossed, wiped>>
  BY DEF Renews, At
<1>2. CASE old \notin accepted[s]
  <2>1. Ends(t) /\ UNCHANGED <<accepted, issuedTokens>>
    BY <1>2 DEF Renews
  <2>2. ~At(t, "changes") /\ ~Carries(t) /\ astray' \in SUBSET SignInServers /\ astray \subseteq astray'
    BY <1>1, AstrayStays DEF At, Carries
  <2> QED
    BY <1>1, <2>1, <2>2, EndsKeeps
<1>3. CASE old \in accepted[s]
  <2>1. /\ StepsWith(t, "granted", issued(t, new))
        /\ accepted' = IF s \in Rotating THEN [accepted EXCEPT ![s] = (@ \ {old}) \union {new}]
                       ELSE accepted
        /\ issuedTokens' = issuedTokens + 1
    BY <1>3 DEF Renews
  <2>2. issuedTokens \in Nat /\ issuedTokens + 1 \in 1 .. MaxTokens /\ issuedTokens + 1 # 0
    BY <1>1, SignInAssumption DEF SignInInv, SignInTyped
  <2>3. /\ accepted[s] \in SUBSET (1 .. MaxTokens) /\ old # 0 /\ signing[t].record \in Records
        /\ old \in 1 .. MaxTokens
        /\ accepted \in [SignInServers -> SUBSET (1 .. MaxTokens)] /\ s \in SignInServers
    <3>1. accepted[s] \in SUBSET (1 .. MaxTokens) /\ signing[t].record \in Records
      BY SigningParts
    <3>2. old \in 1 .. MaxTokens
      BY <1>3, <3>1
    <3>3. old # 0
      BY <3>2, SignInAssumption
    <3>4. accepted \in [SignInServers -> SUBSET (1 .. MaxTokens)] /\ s \in SignInServers
      BY TaskFacts DEF SignInInv, SignInTyped
    <3> QED
      BY <3>1, <3>2, <3>3, <3>4
  <2> DEFINE refresh == IF new = 0 THEN old ELSE new
             record == issued(t, new)
  <2>4. refresh = IF s \in Rotating THEN issuedTokens + 1 ELSE old
    BY <2>2
  <2>5. refresh \in 1 .. MaxTokens
    BY <2>2, <2>3, <2>4
  <2>6. /\ record = [signing[t].record EXCEPT !.refresh = refresh, !.stale = FALSE]
    BY <2>3 DEF issued, Records
  <2> HIDE DEF new, refresh, record, old
  <2>7. record \in Records /\ record.refresh = refresh /\ record.url = signing[t].record.url
    <3>1. refresh \in 0 .. MaxTokens
      BY <2>5
    <3> QED
      BY <2>3, <2>6, <3>1 DEF Records
  <2>8. PICK now \in Signings : /\ now.step = "granted" /\ now.record = record
                                /\ signing' = [signing EXCEPT ![t] = now]
    BY <2>1, <2>7, StepsWithIs DEF SignSteps, record
  <2>9. now.record.refresh = refresh /\ now.record.url = signing[t].record.url
    BY <2>7, <2>8
  <2>10. CASE s \in Rotating
    <3> DEFINE taken == (accepted[s] \ {old}) \union {refresh}
    <3>1. refresh = issuedTokens + 1 /\ new = refresh /\ refresh # 0
      BY <2>2, <2>4, <2>10 DEF new
    <3>2. accepted' = [accepted EXCEPT ![s] = taken]
      BY <2>1, <2>3, <2>10, <3>1
    <3>3. /\ taken \in SUBSET (1 .. MaxTokens) /\ refresh \in taken
          /\ \A token \in accepted[s] : token \in taken \/ token = old
      BY <2>3, <2>5
    <3> HIDE DEF taken
    <3>4. now.record.refresh \in taken /\ now.record.refresh # 0
          /\ now.record.refresh \in {0, issuedTokens + 1}
      BY <2>9, <3>1, <3>3
    <3>5. \A token \in accepted[s] :
            \/ token \in taken
            \/ /\ token = signing[t].record.refresh /\ s \in Rotating
               /\ signing[t].step = "renews" /\ now.record.refresh # 0
      BY <1>1, <2>10, <3>3, <3>4 DEF old
    <3> QED
      BY <1>1, <2>1, <2>8, <2>9, <3>2, <3>3, <3>4, <3>5, GrantKeeps
  <2>11. CASE s \notin Rotating
    <3>1. refresh = old
      BY <2>4, <2>11
    <3>2. accepted' = [accepted EXCEPT ![s] = accepted[s]]
      BY <2>1, <2>3, <2>11
    <3>3. now.record.refresh = signing[t].record.refresh /\ now.record.refresh \in accepted[s]
      BY <1>3, <2>9, <3>1 DEF old
    <3> QED
      BY <1>1, <2>1, <2>3, <2>8, <2>9, <2>11, <3>2, <3>3, GrantKeeps
  <2> QED
    BY <2>3, <2>10, <2>11
<1> QED
  BY <1>2, <1>3

LEMMA SignInReadsKeeps ==
  ASSUME SignInInv, NEW t \in SignTasks, SignInReads(t)
  PROVE  SignInInv'
<1>1. /\ signing[t].step = "granted" /\ locked[ProcessOf(t)] = NoTask
      /\ locked' = [locked EXCEPT ![ProcessOf(t)] = t]
      /\ crossed' = (crossed \/ \E p \in Processes \ {ProcessOf(t)} : locked[p] # NoTask)
      /\ UNCHANGED <<records, urls, accepted, issuedTokens, lastRecord, astray, wiped>>
  BY DEF SignInReads, ChangeReads, At
<1>0. PICK unread \in BOOLEAN :
        signing' = [signing EXCEPT ![t].step = "changes", ![t].unread = unread,
                                   ![t].copy = IF unread THEN NoRecords ELSE records]
  BY DEF SignInReads, ChangeReads, Takes
<1> DEFINE copy == IF unread THEN NoRecords ELSE records
           now == [signing[t] EXCEPT !.step = "changes", !.unread = unread, !.copy = copy]
<1>2. /\ records \in [SignInServers -> Records] /\ locked \in [Processes -> SignTasks \union {NoTask}]
      /\ crossed \in BOOLEAN /\ signing[t] \in Signings /\ signing \in [SignTasks -> Signings]
  BY SigningParts DEF SignInInv, SignInTyped
<1>3. /\ now \in Signings /\ now.step = "changes" /\ now.record = signing[t].record
      /\ now.copy = copy /\ now.unread = unread
  <2>1. copy \in [SignInServers -> Records]
    BY <1>2, NoRecordFacts
  <2> QED
    BY <1>2, <2>1 DEF Signings, SignSteps
<1>4. signing' = [signing EXCEPT ![t] = now]
  BY <1>0, <1>2
<1> HIDE DEF now
<1>5. /\ signing' \in [SignTasks -> Signings] /\ signing'[t] = now
      /\ \A u \in SignTasks \ {t} : signing'[u] = signing[u]
  BY <1>3, <1>4, TaskTyped
<1>6. /\ locked' \in [Processes -> SignTasks \union {NoTask}] /\ locked'[ProcessOf(t)] = t
      /\ \A p \in Processes \ {ProcessOf(t)} : locked'[p] = locked[p]
  BY <1>1, <1>2, TaskFacts
<1>7. crossed' \in BOOLEAN
  BY <1>1, <1>2
<1>8. SignInTyped'
  BY <1>1, <1>5, <1>6, <1>7 DEF SignInInv, SignInTyped, SignTasks, Signings, Records,
     SignInServers, Processes
<1>9. ChangesAreLocked'
  <2> SUFFICES ASSUME NEW u \in SignTasks, signing'[u].step = "changes"
               PROVE  locked'[ProcessOf(u)] = u
    BY DEF ChangesAreLocked, At, SignTasks, ProcessOf
  <2>1. CASE u = t
    BY <1>6, <2>1
  <2>2. CASE u # t
    <3>1. locked[ProcessOf(u)] = u
      BY <1>5, <2>2 DEF SignInInv, ChangesAreLocked, At
    <3>2. ProcessOf(u) # ProcessOf(t) /\ ProcessOf(u) \in Processes
      BY <1>1, <3>1, TaskFacts
    <3> QED
      BY <1>6, <3>1, <3>2
  <2> QED
    BY <2>1, <2>2
<1>10. UrlsAgree'
  <2> SUFFICES ASSUME NEW u \in SignTasks, SignInTasks[u].does = "connect", signing'[u].step # "idle"
               PROVE  signing'[u].record.url = urls'[ServerOf(u)]
    BY DEF UrlsAgree, At, SignTasks, ServerOf
  <2>1. CASE u = t
    BY <1>1, <1>3, <1>5, <2>1 DEF SignInInv, UrlsAgree, At
  <2>2. CASE u # t
    BY <1>1, <1>5, <2>2 DEF SignInInv, UrlsAgree, At
  <2> QED
    BY <2>1, <2>2
<1>11. ASSUME ~crossed'
       PROVE  Uncrossed'
  <2>1. /\ ~crossed /\ \A p \in Processes \ {ProcessOf(t)} : locked[p] = NoTask
        /\ OneChanges /\ CopyIsFile /\ FileIsKept
        /\ TokensWereIssued /\ TokenIsTaken /\ TokenIsAlone /\ FileIsTaken
    BY <1>1, <1>11 DEF SignInInv, Uncrossed
  <2>2. OneChanges' /\ FileIsKept'
    BY <1>1, <1>6, <2>1 DEF OneChanges, FileIsKept, Processes, SignInServers
  <2>3. CopyIsFile'
    <3> SUFFICES ASSUME NEW u \in SignTasks, signing'[u].step = "changes"
                 PROVE  signing'[u].copy = IF signing'[u].unread THEN NoRecords ELSE records'
      BY DEF CopyIsFile, At, SignTasks, NoRecords, SignInServers
    <3>1. CASE u = t
      BY <1>1, <1>3, <1>5, <3>1
    <3>2. CASE u # t
      BY <1>1, <1>5, <2>1, <3>2 DEF CopyIsFile, At
    <3> QED
      BY <3>1, <3>2
  <2>4. \A u \in SignTasks : signing'[u].record = signing[u].record /\ ((Carries(u))' <=> Carries(u))
    BY <1>1, <1>3, <1>5 DEF Carries
  <2>5. \A u \in SignTasks : signing'[u].step \in {"renews", "granted", "changes"} =>
                               signing[u].step \in {"renews", "granted", "changes"}
    BY <1>1, <1>5
  <2>6. TokensWereIssued'
    BY <1>1, <2>1, <2>4 DEF TokensWereIssued, SignTasks, SignInServers
  <2>7. TokenIsTaken' /\ FileIsTaken'
    BY <1>1, <2>1, <2>4 DEF TokenIsTaken, FileIsTaken, SignTasks, SignInServers, ServerOf
  <2>8. TokenIsAlone'
    <3> SUFFICES ASSUME NEW v \in SignTasks, (Carries(v))', ServerOf(v) \in Rotating
                 PROVE  /\ records'[ServerOf(v)].refresh # signing'[v].record.refresh
                        /\ \A u \in SignTasks \ {v} :
                             ServerOf(u) = ServerOf(v) /\ signing'[u].step \in {"renews", "granted", "changes"} =>
                               signing'[u].record.refresh # signing'[v].record.refresh
      BY <1>1 DEF TokenIsAlone, ServerOf, SignTasks
    <3>1. /\ signing'[v].record = signing[v].record
          /\ records[ServerOf(v)].refresh # signing[v].record.refresh
          /\ \A u \in SignTasks \ {v} :
               ServerOf(u) = ServerOf(v) /\ signing[u].step \in {"renews", "granted", "changes"} =>
                 signing[u].record.refresh # signing[v].record.refresh
      BY <2>1, <2>4, <2>5 DEF TokenIsAlone
    <3>2. records'[ServerOf(v)].refresh = records[ServerOf(v)].refresh
      BY <1>1
    <3> QED
      BY <2>1, <2>4, <2>5, <3>1, <3>2
  <2> QED
    BY <2>2, <2>3, <2>6, <2>7, <2>8 DEF Uncrossed
<1> QED
  BY <1>8, <1>9, <1>10, <1>11 DEF SignInInv

(* The lock is given back, and the task rests or carries the new header.   *)
LEMMA ChangeWritesKeeps ==
  ASSUME SignInInv, NEW t \in SignTasks, ChangeWrites(t)
  PROVE  SignInInv'
<1> DEFINE s == ServerOf(t)
           new == signing[t].record
           copy == signing[t].copy
           unread == signing[t].unread
           over == IF SignInTasks[t].does = "connect"
                   THEN [NoSigning EXCEPT !.step = "connected", !.record = new] ELSE NoSigning
<1>1. /\ signing[t].step = "changes"
      /\ locked' = [p \in Processes |-> IF locked[p] = t THEN NoTask ELSE locked[p]]
      /\ UNCHANGED <<urls, accepted, issuedTokens, crossed>>
  BY DEF ChangeWrites, At
<1>2. \/ /\ records' = [copy EXCEPT ![s] = new]
         /\ lastRecord' = [lastRecord EXCEPT ![s] = new]
         /\ signing' = [signing EXCEPT ![t] = over]
         /\ astray' = astray \ {s}
         /\ wiped' = (IF unread THEN SignInServers ELSE wiped) \ {s}
      \/ /\ signing' = [signing EXCEPT ![t] = NoSigning]
         /\ astray' = IF new = NoRecord THEN astray ELSE astray \union {s}
         /\ UNCHANGED <<records, lastRecord, wiped>>
  BY DEF ChangeWrites, WritesRecords, Ends
<1>3. /\ records \in [SignInServers -> Records] /\ lastRecord \in [SignInServers -> Records]
      /\ locked \in [Processes -> SignTasks \union {NoTask}] /\ s \in SignInServers
      /\ new \in Records /\ copy \in [SignInServers -> Records] /\ astray \in SUBSET SignInServers
      /\ new.refresh \in Nat /\ wiped \in SUBSET SignInServers /\ unread \in BOOLEAN
  BY SigningParts, TaskFacts, RecordFacts DEF SignInInv, SignInTyped
<1>4. /\ over \in Signings /\ over.step \in {"idle", "connected"}
      /\ (SignInTasks[t].does = "connect" => over.record = new)
  <2>1. NoSigning \in Signings /\ NoSigning.step = "idle"
    BY NoRecordFacts
  <2>2. [NoSigning EXCEPT !.step = "connected", !.record = new] \in Signings
    BY <1>3, <2>1 DEF Signings, SignSteps
  <2> QED
    BY <2>1, <2>2 DEF Signings
<1> HIDE DEF over, new, copy, s, unread
<1>5. PICK now \in Signings :
        /\ signing' = [signing EXCEPT ![t] = now] /\ now.step \in {"idle", "connected"}
        /\ (SignInTasks[t].does = "connect" => now.step = "idle" \/ now.record = new)
  BY <1>2, <1>4, NoRecordFacts
<1>6. /\ signing' \in [SignTasks -> Signings] /\ signing'[t] = now
      /\ \A u \in SignTasks \ {t} : signing'[u] = signing[u]
  BY <1>5, TaskTyped
<1>7. /\ records' \in [SignInServers -> Records] /\ lastRecord' \in [SignInServers -> Records]
      /\ astray' \in SUBSET SignInServers /\ wiped' \in SUBSET SignInServers
  BY <1>2, <1>3
<1>8. /\ locked' \in [Processes -> SignTasks \union {NoTask}]
      /\ \A p \in Processes : locked'[p] = NoTask \/ (locked'[p] = locked[p] /\ locked[p] # t)
      /\ \A p \in Processes : locked[p] # t => locked'[p] = locked[p]
  BY <1>1, <1>3
<1>9. SignInTyped'
  BY <1>1, <1>6, <1>7, <1>8 DEF SignInInv, SignInTyped, SignTasks, Signings, Records,
     SignInServers, Processes
<1>10. ChangesAreLocked'
  <2> SUFFICES ASSUME NEW u \in SignTasks, signing'[u].step = "changes"
               PROVE  locked'[ProcessOf(u)] = u
    BY DEF ChangesAreLocked, At, SignTasks, ProcessOf
  <2>1. u # t /\ signing[u].step = "changes"
    BY <1>5, <1>6
  <2>2. locked[ProcessOf(u)] = u /\ ProcessOf(u) \in Processes
    BY <2>1, TaskFacts DEF SignInInv, ChangesAreLocked, At
  <2> QED
    BY <1>8, <2>1, <2>2
<1>11. UrlsAgree'
  <2> SUFFICES ASSUME NEW u \in SignTasks, SignInTasks[u].does = "connect", signing'[u].step # "idle"
               PROVE  signing'[u].record.url = urls'[ServerOf(u)]
    BY DEF UrlsAgree, At, SignTasks, ServerOf
  <2>1. CASE u = t
    <3>1. signing[t].record.url = urls[ServerOf(t)]
      BY <1>1, <2>1 DEF SignInInv, UrlsAgree, At
    <3> QED
      BY <1>1, <1>5, <1>6, <2>1, <3>1 DEF new
  <2>2. CASE u # t
    BY <1>1, <1>6, <2>2 DEF SignInInv, UrlsAgree, At
  <2> QED
    BY <2>1, <2>2
<1>12. ASSUME ~crossed
       PROVE  Uncrossed'
  <2>1. /\ OneChanges /\ CopyIsFile /\ FileIsKept
        /\ TokensWereIssued /\ TokenIsTaken /\ TokenIsAlone /\ FileIsTaken
    BY <1>12 DEF SignInInv, Uncrossed
  <2>2. copy = IF unread THEN NoRecords ELSE records
    BY <1>1, <2>1 DEF CopyIsFile, At, copy, unread
  <2>12. FileIsKept'
    <3>1. CASE records' = [copy EXCEPT ![s] = new] /\ lastRecord' = [lastRecord EXCEPT ![s] = new]
               /\ wiped' = (IF unread THEN SignInServers ELSE wiped) \ {s}
      <4>1. records'[s] = new /\ lastRecord'[s] = new /\ s \notin wiped'
        BY <1>3, <3>1
      <4>2. ASSUME NEW o \in SignInServers \ {s}
            PROVE  records'[o] = IF o \in wiped' THEN NoRecord ELSE lastRecord'[o]
        BY <1>3, <2>1, <2>2, <3>1 DEF FileIsKept, NoRecords
      <4> QED
        BY <4>1, <4>2 DEF FileIsKept, SignInServers, NoRecord
    <3>2. CASE UNCHANGED <<records, lastRecord, wiped>>
      BY <2>1, <3>2 DEF FileIsKept, SignInServers, NoRecord
    <3> QED
      BY <1>2, <3>1, <3>2
  <2>3. /\ \A o \in SignInServers \ {s} : records'[o] = records[o] \/ records'[o].refresh = 0
        /\ \/ records'[s] = new /\ astray' = astray \ {s}
           \/ /\ records'[s] = records[s]
              /\ astray' = IF new = NoRecord THEN astray ELSE astray \union {s}
    BY <1>2, <1>3, <2>2, NoRecordFacts DEF NoRecords
  <2>4. \A u \in SignTasks : (Carries(u))' => u # t /\ Carries(u)
    BY <1>5, <1>6 DEF Carries
  <2>5. \A u \in SignTasks \ {t} : Carries(u) => (Carries(u))'
    BY <1>6 DEF Carries
  <2>6. OneChanges'
    BY <1>8, <2>1 DEF OneChanges, FileIsKept, Processes, SignInServers
  <2>7. CopyIsFile'
    <3> SUFFICES ASSUME NEW u \in SignTasks, signing'[u].step = "changes"
                 PROVE  FALSE
      BY DEF CopyIsFile, At, SignTasks
    <3>1. u # t /\ signing[u].step = "changes"
      BY <1>5, <1>6
    <3>2. locked[ProcessOf(u)] = u /\ locked[ProcessOf(t)] = t
      BY <1>1, <3>1 DEF SignInInv, ChangesAreLocked, At
    <3>3. u # NoTask /\ t # NoTask /\ ProcessOf(u) \in Processes /\ ProcessOf(t) \in Processes
      BY TaskFacts
    <3>4. ProcessOf(u) = ProcessOf(t)
      BY <2>1, <3>2, <3>3 DEF OneChanges
    <3> QED
      BY <3>1, <3>2, <3>4
  <2>8. TokensWereIssued'
    <3>1. new.refresh <= issuedTokens
      BY <2>1 DEF TokensWereIssued, new
    <3>2. 0 <= issuedTokens
      BY SignInAssumption DEF SignInInv, SignInTyped
    <3>3. ASSUME NEW o \in SignInServers PROVE records'[o].refresh <= issuedTokens
      <4>1. CASE o = s
        BY <2>1, <2>3, <3>1, <4>1 DEF TokensWereIssued
      <4>2. CASE o # s
        BY <2>1, <2>3, <3>2, <4>2 DEF TokensWereIssued
      <4> QED
        BY <4>1, <4>2
    <3>4. now.record = new \/ now.record = NoRecord
      BY <1>2, <1>3, <1>4, <1>5, <1>6, NoRecordFacts DEF over, SignInInv, SignInTyped
    <3>5. ASSUME NEW u \in SignTasks PROVE signing'[u].record.refresh <= issuedTokens
      BY <1>6, <2>1, <3>1, <3>2, <3>4, NoRecordFacts DEF TokensWereIssued
    <3> QED
      BY <1>1, <3>3, <3>5 DEF TokensWereIssued, SignTasks, SignInServers
  <2>9. TokenIsTaken'
    BY <1>1, <1>6, <2>1, <2>4 DEF TokenIsTaken, SignTasks, ServerOf
  <2>10. TokenIsAlone'
    <3> SUFFICES ASSUME NEW v \in SignTasks, (Carries(v))', ServerOf(v) \in Rotating
                 PROVE  /\ records'[ServerOf(v)].refresh # signing'[v].record.refresh
                        /\ \A u \in SignTasks \ {v} :
                             ServerOf(u) = ServerOf(v) /\ signing'[u].step \in {"renews", "granted", "changes"} =>
                               signing'[u].record.refresh # signing'[v].record.refresh
      BY <1>1 DEF TokenIsAlone, ServerOf, SignTasks
    <3>1. v # t /\ Carries(v) /\ signing'[v] = signing[v] /\ ServerOf(v) \in SignInServers
      BY <1>6, <2>4, TaskFacts
    <3>2. /\ records[ServerOf(v)].refresh # signing[v].record.refresh
          /\ \A u \in SignTasks \ {v} :
               ServerOf(u) = ServerOf(v) /\ signing[u].step \in {"renews", "granted", "changes"} =>
                 signing[u].record.refresh # signing[v].record.refresh
      BY <2>1, <3>1 DEF TokenIsAlone
    <3>3. ServerOf(v) = s => new.refresh # signing[v].record.refresh
      BY <1>1, <3>1, <3>2 DEF s, new
    <3>4. records'[ServerOf(v)].refresh # signing[v].record.refresh
      <4>1. signing[v].record.refresh # 0
        BY <3>1 DEF Carries
      <4>2. CASE ServerOf(v) = s
        BY <2>3, <3>2, <3>3, <4>2
      <4>3. CASE ServerOf(v) # s
        BY <2>3, <3>1, <3>2, <4>1, <4>3
      <4> QED
        BY <4>2, <4>3
    <3> QED
      BY <1>5, <1>6, <3>1, <3>2, <3>4
  <2>11. FileIsTaken'
    <3> SUFFICES ASSUME NEW o \in SignInServers
                 PROVE  \/ records'[o].refresh = 0 \/ records'[o].refresh \in accepted[o] \/ o \in astray'
                        \/ \E u \in SignTasks : ServerOf(u) = o /\ (Carries(u))'
      BY <1>1 DEF FileIsTaken, SignInServers, SignTasks, ServerOf
    <3>1. \/ records[o].refresh = 0 \/ records[o].refresh \in accepted[o] \/ o \in astray
          \/ \E u \in SignTasks : ServerOf(u) = o /\ Carries(u)
      BY <2>1 DEF FileIsTaken
    <3>2. ASSUME NEW u \in SignTasks, ServerOf(u) = o, Carries(u), u # t
          PROVE  \E v \in SignTasks : ServerOf(v) = o /\ (Carries(v))'
      BY <2>5, <3>2
    <3>3. new.refresh = 0 \/ (new.refresh \in accepted[s] /\ new # NoRecord)
      BY <1>1, <2>1, NoRecordFacts DEF TokenIsTaken, Carries, new, s
    <3>4. Carries(t) => new.refresh # 0 /\ new # NoRecord
      BY NoRecordFacts DEF Carries, new
    <3>5. CASE o # s
      <4>1. /\ records'[o] = records[o] \/ records'[o].refresh = 0
            /\ o \in astray => o \in astray'
        BY <2>3, <3>5
      <4>2. \A u \in SignTasks : ServerOf(u) = o => u # t
        BY <3>5 DEF s
      <4> QED
        BY <3>1, <3>2, <4>1, <4>2
    <3>6. CASE o = s
      <4>1. CASE records'[s] = new
        BY <3>3, <3>6, <4>1
      <4>2. CASE records'[s] = records[s] /\ astray' = IF new = NoRecord THEN astray ELSE astray \union {s}
        <5>1. s \in astray => s \in astray'
          BY <4>2
        <5>2. Carries(t) => s \in astray'
          BY <3>4, <4>2
        <5> QED
          BY <3>1, <3>2, <3>6, <4>2, <5>1, <5>2
      <4> QED
        BY <2>3, <4>1, <4>2
    <3> QED
      BY <3>5, <3>6
  <2> QED
    BY <2>12, <2>6, <2>7, <2>8, <2>9, <2>10, <2>11 DEF Uncrossed
<1> QED
  BY <1>1, <1>9, <1>10, <1>11, <1>12 DEF SignInInv

LEMMA StaleFacts ==
  ASSUME NEW all \in [SignInServers -> Records], NEW s \in SignInServers
  PROVE  /\ WithStale(all, s) \in [SignInServers -> Records]
         /\ \A o \in SignInServers : WithStale(all, s)[o].refresh = all[o].refresh
<1> DEFINE record == [all[s] EXCEPT !.stale = TRUE]
<1>1. all[s] \in Records
  OBVIOUS
<1>2. record \in Records /\ record.refresh = all[s].refresh
  BY <1>1 DEF Records
<1>3. WithStale(all, s) = [all EXCEPT ![s] = record]
  BY DEF WithStale
<1> HIDE DEF record
<1> QED
  BY <1>2, <1>3

LEMMA ExpiresKeeps ==
  ASSUME SignInInv, NEW s \in SignInServers, Expires(s)
  PROVE  SignInInv'
<1>1. /\ records' = WithStale(records, s) /\ lastRecord' = WithStale(lastRecord, s)
      /\ signing' = [t \in DOMAIN signing |->
                       IF signing[t].copy[s] = records[s]
                       THEN [signing[t] EXCEPT !.copy = WithStale(@, s)] ELSE signing[t]]
      /\ UNCHANGED <<locked, urls, accepted, issuedTokens, astray, crossed, wiped>>
  BY DEF Expires
<1>2. /\ records \in [SignInServers -> Records] /\ lastRecord \in [SignInServers -> Records]
      /\ signing \in [SignTasks -> Signings] /\ DOMAIN signing = SignTasks
  BY DEF SignInInv, SignInTyped
<1>3. /\ records' \in [SignInServers -> Records] /\ lastRecord' \in [SignInServers -> Records]
      /\ \A o \in SignInServers : records'[o].refresh = records[o].refresh
  BY <1>1, <1>2, StaleFacts
<1>4. ASSUME NEW t \in SignTasks
      PROVE  /\ signing'[t] \in Signings /\ signing'[t].step = signing[t].step
             /\ signing'[t].record = signing[t].record
             /\ signing'[t].unread = signing[t].unread
             /\ (signing[t].copy = records => signing'[t].copy = records')
             /\ (signing[t].copy = NoRecords => signing'[t].copy = NoRecords)
  <2>1. signing[t] \in Signings /\ signing[t].copy \in [SignInServers -> Records]
    BY SigningParts
  <2> DEFINE copy == WithStale(signing[t].copy, s)
  <2>2. copy \in [SignInServers -> Records]
    BY <2>1, StaleFacts
  <2>3. signing'[t] = IF signing[t].copy[s] = records[s] THEN [signing[t] EXCEPT !.copy = copy] ELSE signing[t]
    BY <1>1, <1>2
  <2>4. signing[t].copy = records => copy = records'
    BY <1>1
  <2>5. signing[t].copy = NoRecords => signing[t].copy[s] # records[s]
    BY DEF Expires, NoRecords
  <2> HIDE DEF copy
  <2> QED
    BY <2>1, <2>2, <2>3, <2>4, <2>5 DEF Signings
<1>5. signing' \in [SignTasks -> Signings]
  <2>1. DOMAIN signing' = SignTasks /\ signing' = [t \in SignTasks |-> signing'[t]]
    BY <1>1, <1>2
  <2> QED
    BY <1>4, <2>1
<1>6. SignInTyped'
  BY <1>1, <1>3, <1>5 DEF SignInInv, SignInTyped, SignTasks, Signings, Records, SignInServers,
     Processes
<1>7. ChangesAreLocked' /\ UrlsAgree'
  BY <1>1, <1>4 DEF SignInInv, ChangesAreLocked, UrlsAgree, At, SignTasks, ServerOf, ProcessOf
<1>8. ASSUME ~crossed
      PROVE  Uncrossed'
  <2>1. /\ OneChanges /\ CopyIsFile /\ FileIsKept
        /\ TokensWereIssued /\ TokenIsTaken /\ TokenIsAlone /\ FileIsTaken
    BY <1>8 DEF SignInInv, Uncrossed
  <2>2. \A t \in SignTasks : (Carries(t))' <=> Carries(t)
    BY <1>4 DEF Carries
  <2>3. OneChanges' /\ CopyIsFile' /\ FileIsKept'
    <3>1. OneChanges'
      BY <1>1, <2>1 DEF OneChanges, Processes
    <3>2. ASSUME NEW t \in SignTasks, signing'[t].step = "changes"
          PROVE  signing'[t].copy = IF signing'[t].unread THEN NoRecords ELSE records'
      BY <1>4, <2>1, <3>2, SigningParts DEF CopyIsFile, At
    <3>3. CopyIsFile'
      BY <3>2 DEF CopyIsFile, At, SignTasks, NoRecords, SignInServers
    <3>4. s \notin wiped
      BY <2>1 DEF FileIsKept, Expires
    <3>5. ASSUME NEW o \in SignInServers
          PROVE  records'[o] = IF o \in wiped THEN NoRecord ELSE lastRecord'[o]
      BY <1>1, <1>2, <2>1, <3>4 DEF FileIsKept, WithStale
    <3>6. FileIsKept'
      BY <1>1, <3>5 DEF FileIsKept, SignInServers, NoRecord
    <3> QED
      BY <3>1, <3>3, <3>6
  <2>4. TokensWereIssued' /\ TokenIsTaken'
    BY <1>1, <1>3, <1>4, <2>1, <2>2 DEF TokensWereIssued, TokenIsTaken, SignTasks,
       SignInServers, ServerOf
  <2>5. FileIsTaken'
    BY <1>1, <1>3, <2>1, <2>2 DEF FileIsTaken, SignTasks, SignInServers, ServerOf
  <2>6. TokenIsAlone'
    <3> SUFFICES ASSUME NEW v \in SignTasks, (Carries(v))', ServerOf(v) \in Rotating
                 PROVE  /\ records'[ServerOf(v)].refresh # signing'[v].record.refresh
                        /\ \A u \in SignTasks \ {v} :
                             ServerOf(u) = ServerOf(v) /\ signing'[u].step \in {"renews", "granted", "changes"} =>
                               signing'[u].record.refresh # signing'[v].record.refresh
      BY <1>1 DEF TokenIsAlone, ServerOf, SignTasks
    <3>1. /\ signing'[v].record = signing[v].record
          /\ records[ServerOf(v)].refresh # signing[v].record.refresh
          /\ \A u \in SignTasks \ {v} :
               ServerOf(u) = ServerOf(v) /\ signing[u].step \in {"renews", "granted", "changes"} =>
                 signing[u].record.refresh # signing[v].record.refresh
      BY <1>4, <2>1, <2>2 DEF TokenIsAlone
    <3>2. records'[ServerOf(v)].refresh = records[ServerOf(v)].refresh
      BY <1>3, TaskFacts
    <3> QED
      BY <1>4, <2>1, <2>2, <3>1, <3>2
  <2> QED
    BY <2>3, <2>4, <2>5, <2>6 DEF Uncrossed
<1> QED
  BY <1>1, <1>6, <1>7, <1>8 DEF SignInInv

LEMMA EndpointMovesKeeps ==
  ASSUME SignInInv, NEW s \in SignInServers, EndpointMoves(s)
  PROVE  SignInInv'
<1>1. /\ \A t \in SignTasks : ServerOf(t) = s => signing[t].step \in {"idle", "connected"}
      /\ \E url \in Urls : urls' = [urls EXCEPT ![s] = url]
      /\ signing' = [t \in DOMAIN signing |-> IF ServerOf(t) = s THEN NoSigning ELSE signing[t]]
      /\ UNCHANGED <<records, locked, accepted, issuedTokens, lastRecord, astray, crossed, wiped>>
  BY DEF EndpointMoves, AtRest, SignTasks
<1>2. /\ signing \in [SignTasks -> Signings] /\ DOMAIN signing = SignTasks
      /\ urls \in [SignInServers -> Urls]
  BY DEF SignInInv, SignInTyped
<1>3. /\ urls' \in [SignInServers -> Urls] /\ \A o \in SignInServers \ {s} : urls'[o] = urls[o]
  BY <1>1, <1>2
<1>4. /\ signing' \in [SignTasks -> Signings]
      /\ \A t \in SignTasks : ServerOf(t) = s => signing'[t] = NoSigning
      /\ \A t \in SignTasks : ServerOf(t) # s => signing'[t] = signing[t]
  BY <1>1, <1>2, NoRecordFacts
<1>5. SignInTyped'
  BY <1>1, <1>3, <1>4 DEF SignInInv, SignInTyped, SignTasks, Signings, Records, SignInServers,
     Processes
<1>6. \A t \in SignTasks : ServerOf(t) = s => signing'[t].step = "idle" /\ signing'[t].record.refresh = 0
  BY <1>4, NoRecordFacts
<1>7. ChangesAreLocked'
  <2> SUFFICES ASSUME NEW t \in SignTasks, signing'[t].step = "changes"
               PROVE  locked'[ProcessOf(t)] = t
    BY DEF ChangesAreLocked, At, SignTasks, ProcessOf
  <2> QED
    BY <1>1, <1>4, <1>6 DEF SignInInv, ChangesAreLocked, At
<1>8. UrlsAgree'
  <2> SUFFICES ASSUME NEW t \in SignTasks, SignInTasks[t].does = "connect", signing'[t].step # "idle"
               PROVE  signing'[t].record.url = urls'[ServerOf(t)]
    BY DEF UrlsAgree, At, SignTasks, ServerOf
  <2>1. ServerOf(t) # s /\ signing'[t] = signing[t] /\ ServerOf(t) \in SignInServers
    BY <1>4, <1>6, TaskFacts
  <2>2. signing[t].record.url = urls[ServerOf(t)]
    BY <2>1 DEF SignInInv, UrlsAgree, At
  <2> QED
    BY <1>3, <2>1, <2>2
<1>9. ASSUME ~crossed
      PROVE  Uncrossed'
  <2>1. /\ OneChanges /\ CopyIsFile /\ FileIsKept
        /\ TokensWereIssued /\ TokenIsTaken /\ TokenIsAlone /\ FileIsTaken
    BY <1>9 DEF SignInInv, Uncrossed
  <2>2. \A t \in SignTasks : (Carries(t))' <=> Carries(t)
    BY <1>1, <1>4, <1>6 DEF Carries
  <2>3. \A t \in SignTasks : signing'[t].step \in {"renews", "granted", "changes"} => signing'[t] = signing[t]
    BY <1>4, <1>6
  <2>4. OneChanges' /\ FileIsKept'
    BY <1>1, <2>1 DEF OneChanges, FileIsKept, Processes, SignInServers
  <2>5. CopyIsFile'
    <3> SUFFICES ASSUME NEW t \in SignTasks, signing'[t].step = "changes"
                 PROVE  signing'[t].copy = IF signing'[t].unread THEN NoRecords ELSE records'
      BY DEF CopyIsFile, At, SignTasks, NoRecords, SignInServers
    <3> QED
      BY <1>1, <2>1, <2>3 DEF CopyIsFile, At
  <2>6. TokensWereIssued'
    <3>1. 0 <= issuedTokens
      BY SignInAssumption DEF SignInInv, SignInTyped
    <3>2. \A t \in SignTasks : signing'[t].record.refresh <= issuedTokens
      BY <1>4, <1>6, <2>1, <3>1 DEF TokensWereIssued
    <3> QED
      BY <1>1, <2>1, <3>2 DEF TokensWereIssued, SignTasks, SignInServers
  <2>7. \A t \in SignTasks : Carries(t) => signing'[t] = signing[t]
    BY <2>2, <2>3 DEF Carries
  <2>8. TokenIsTaken' /\ FileIsTaken'
    BY <1>1, <2>1, <2>2, <2>7 DEF TokenIsTaken, FileIsTaken, SignTasks, SignInServers, ServerOf
  <2>9. TokenIsAlone'
    <3> SUFFICES ASSUME NEW v \in SignTasks, (Carries(v))', ServerOf(v) \in Rotating
                 PROVE  /\ records[ServerOf(v)].refresh # signing'[v].record.refresh
                        /\ \A u \in SignTasks \ {v} :
                             ServerOf(u) = ServerOf(v) /\ signing'[u].step \in {"renews", "granted", "changes"} =>
                               signing'[u].record.refresh # signing'[v].record.refresh
      BY <1>1 DEF TokenIsAlone, ServerOf, SignTasks
    <3>1. Carries(v) /\ signing'[v] = signing[v]
      BY <2>2, <2>7
    <3>2. /\ records[ServerOf(v)].refresh # signing[v].record.refresh
          /\ \A u \in SignTasks \ {v} :
               ServerOf(u) = ServerOf(v) /\ signing[u].step \in {"renews", "granted", "changes"} =>
                 signing[u].record.refresh # signing[v].record.refresh
      BY <2>1, <3>1 DEF TokenIsAlone
    <3> QED
      BY <2>3, <3>1, <3>2
  <2> QED
    BY <2>1, <2>4, <2>5, <2>6, <2>8, <2>9 DEF Uncrossed
<1> QED
  BY <1>1, <1>5, <1>7, <1>8, <1>9 DEF SignInInv

LEMMA SignInStep == SignInInv /\ [SignInNext]_signInVars => SignInInv'
<1> SUFFICES ASSUME SignInInv, [SignInNext]_signInVars
             PROVE  SignInInv'
  OBVIOUS
<1>1. CASE UNCHANGED signInVars
  <2>1. UNCHANGED <<records, signing, locked, urls, accepted, issuedTokens, lastRecord, astray, crossed, wiped>>
    BY <1>1 DEF signInVars
  <2>2. SignInTyped'
    BY <2>1 DEF SignInInv, SignInTyped, SignTasks, Signings, Records, SignInServers, Processes
  <2>3. ChangesAreLocked' /\ UrlsAgree'
    BY <2>1 DEF SignInInv, ChangesAreLocked, UrlsAgree, At, SignTasks, ServerOf, ProcessOf
  <2>4. ASSUME ~crossed
        PROVE  Uncrossed'
    <3>1. OneChanges' /\ CopyIsFile' /\ FileIsKept'
      BY <2>1, <2>4 DEF SignInInv, Uncrossed, OneChanges, CopyIsFile, FileIsKept, At, SignTasks, Processes,
         SignInServers
    <3>2. TokensWereIssued' /\ TokenIsTaken'
      BY <2>1, <2>4 DEF SignInInv, Uncrossed, TokensWereIssued, TokenIsTaken, Carries,
         SignTasks, SignInServers, ServerOf
    <3>3. TokenIsAlone'
      BY <2>1, <2>4 DEF SignInInv, Uncrossed, TokenIsAlone, Carries, SignTasks, ServerOf
    <3>4. FileIsTaken'
      BY <2>1, <2>4 DEF SignInInv, Uncrossed, FileIsTaken, Carries, SignTasks, SignInServers,
         ServerOf
    <3> QED
      BY <3>1, <3>2, <3>3, <3>4 DEF Uncrossed
  <2> QED
    BY <2>1, <2>2, <2>3, <2>4 DEF SignInInv
<1>2. CASE SignInNext
  <2>1. \/ \E t \in SignTasks :
             \/ SignInConnects(t) \/ SignInBegins(t) \/ BrowserReturns(t) \/ Trades(t) \/ Renews(t)
             \/ SignInUnanswered(t) \/ SignsOut(t) \/ SignInReads(t) \/ ChangeWrites(t)
        \/ \E s \in SignInServers : Expires(s) \/ EndpointMoves(s)
    BY <1>2 DEF SignInNext, SignTasks
  <2> QED
    BY <2>1, SignInConnectsKeeps, SignInBeginsKeeps, BrowserReturnsKeeps, TradesKeeps,
       RenewsKeeps,
       SignInUnansweredKeeps, SignsOutKeeps, SignInReadsKeeps, ChangeWritesKeeps, ExpiresKeeps,
       EndpointMovesKeeps
<1> QED
  BY <1>1, <1>2

LEMMA SignInHolds == SignInInv => SignInTypeOK /\ SignInKept
<1> SUFFICES ASSUME SignInInv
             PROVE  SignInTypeOK /\ SignInKept
  OBVIOUS
<1>1. SignInTypeOK
  <2>1. /\ issuedTokens \in 0 .. MaxTokens /\ crossed \in BOOLEAN
        /\ astray \subseteq SignInServers /\ wiped \subseteq SignInServers
    BY SignInAssumption DEF SignInInv, SignInTyped
  <2>2. ASSUME NEW s \in SignInServers
        PROVE  /\ records[s].refresh \in 0 .. MaxTokens /\ accepted[s] \subseteq 1 .. MaxTokens
               /\ urls[s] \in Urls
    <3>1. records[s] \in Records /\ accepted[s] \in SUBSET (1 .. MaxTokens) /\ urls[s] \in Urls
      BY DEF SignInInv, SignInTyped
    <3> QED
      BY <3>1, RecordFacts
  <2>3. \A p \in Processes : locked[p] \in SignTasks \union {NoTask}
    BY DEF SignInInv, SignInTyped
  <2>4. \A t \in SignTasks : signing[t].step \in SignSteps
    BY SigningParts
  <2> QED
    BY <2>1, <2>2, <2>3, <2>4 DEF SignInTypeOK, SignTasks, SignSteps
<1>2. ASSUME ~crossed, NEW s \in SignInServers
      PROVE  /\ records[s] = IF s \in wiped THEN NoRecord ELSE lastRecord[s]
             /\ \/ records[s].refresh = 0 \/ records[s].refresh \in accepted[s] \/ s \in astray
                \/ \E t \in SignTasks :
                     ServerOf(t) = s /\ signing[t].step \in {"granted", "changes"}
  <2>1. FileIsKept /\ FileIsTaken
    BY <1>2 DEF SignInInv, Uncrossed
  <2>2. records[s] = IF s \in wiped THEN NoRecord ELSE lastRecord[s]
    BY <2>1 DEF FileIsKept
  <2> QED
    BY <2>1, <2>2 DEF FileIsTaken, Carries
<1>3. \A t \in SignTasks :
        SignInTasks[t].does = "connect" /\ At(t, "connected")
          => signing[t].record.url = urls[ServerOf(t)]
  BY DEF SignInInv, UrlsAgree, At
<1> QED
  BY <1>1, <1>2, <1>3 DEF SignInKept, SignTasks

-----------------------------------------------------------------------------
(* Files.                                                                  *)
ToolTypes ==
  [does : {"none", "write", "edit"}, step : {"idle", "opened", "emptied", "handed"},
   text : 0 .. MaxFileTexts]

FilesTyped ==
  /\ file \in 0 .. Missing
  /\ tool \in [FileRuns -> ToolTypes]
  /\ landing \subseteq 1 .. MaxFileTexts
  /\ fileTexts \in 0 .. MaxFileTexts
  /\ reported \in 1 .. Missing
  /\ undisturbed \in BOOLEAN
  /\ readBack \in [got : 0 .. NotRead, due : 1 .. NotRead]
  /\ \A r \in FileRuns : ~IdleTool(r) => tool[r].text # 0

(* The text t is on its way to an empty file, or is what the file holds.   *)
Lies(t) == (landing = {t} /\ file = 0) \/ (landing = {} /\ file = t)

(* Of changes that do not meet, one at most is under way, and the file is  *)
(* where that one left it.                                                 *)
OneChange ==
  undisturbed =>
    /\ \A r, s \in FileRuns : ~IdleTool(r) /\ ~IdleTool(s) => r = s
    /\ \A r \in FileRuns :
         /\ tool[r].step = "opened" => landing = {}
         /\ tool[r].step = "emptied" => landing = {} /\ file = 0
         /\ tool[r].step = "handed" => Lies(tool[r].text)
    /\ (\A r \in FileRuns : IdleTool(r)) => Lies(reported)

FilesInv == FilesTyped /\ OneChange

LEMMA FilesInitInv == FilesInit => FilesInv
<1> SUFFICES ASSUME FilesInit PROVE FilesInv
  OBVIOUS
<1>1. NoTool \in ToolTypes /\ NoTool.step = "idle"
  BY FileTextsAssumption DEF NoTool, ToolTypes
<1>2. FilesTyped
  BY <1>1, FileTextsAssumption DEF FilesInit, FilesTyped, Missing, NotRead, IdleTool
<1>3. OneChange
  BY <1>1 DEF FilesInit, OneChange, IdleTool, Lies
<1> QED
  BY <1>2, <1>3 DEF FilesInv

(* A call ends.                                                            *)
LEMMA ToolOver ==
  ASSUME FilesTyped, NEW r \in FileRuns, ToolIsOver(r)
  PROVE  /\ tool' \in [FileRuns -> ToolTypes] /\ tool'[r].step = "idle"
         /\ \A s \in FileRuns : s # r => tool'[s] = tool[s]
         /\ \A s \in FileRuns : tool'[s].step # "idle" => tool'[s].text # 0
BY FileTextsAssumption DEF FilesTyped, ToolIsOver, NoTool, ToolTypes, IdleTool

(* A call begins a change.                                                 *)
LEMMA ChangeBegins ==
  ASSUME FilesTyped, OneChange, NEW r \in FileRuns, IdleTool(r), NEW does \in {"write", "edit"},
         fileTexts < MaxFileTexts, fileTexts' = fileTexts + 1,
         tool' = [tool EXCEPT ![r] = [does |-> does, step |-> "opened", text |-> fileTexts + 1]],
         undisturbed' = (undisturbed /\ Alone(r)), file' \in {0, file},
         UNCHANGED <<landing, reported, readBack>>
  PROVE  FilesInv'
<1> DEFINE t == [does |-> does, step |-> "opened", text |-> fileTexts + 1]
<1>1. fileTexts + 1 \in 1 .. MaxFileTexts
  BY FileTextsAssumption DEF FilesTyped
<1>2. t \in ToolTypes /\ t.step = "opened" /\ t.text # 0
  BY <1>1 DEF ToolTypes
<1>3. tool' = [tool EXCEPT ![r] = t]
  OBVIOUS
<1> HIDE DEF t
<1>4. /\ tool' \in [FileRuns -> ToolTypes] /\ tool'[r] = t
      /\ \A s \in FileRuns : s # r => tool'[s] = tool[s]
  BY <1>2, <1>3 DEF FilesTyped
<1>5. FilesTyped'
  BY <1>1, <1>2, <1>4, FileTextsAssumption DEF FilesTyped, IdleTool, Missing
<1>6. OneChange'
  BY <1>2, <1>4 DEF OneChange, IdleTool, Alone
<1> QED
  BY <1>5, <1>6 DEF FilesInv

LEMMA FilesStep == FilesInv /\ [FilesNext]_filesVars => FilesInv'
<1> SUFFICES ASSUME FilesInv, [FilesNext]_filesVars PROVE FilesInv'
  OBVIOUS
<1>0. FilesTyped /\ OneChange /\ tool \in [FileRuns -> ToolTypes]
  BY DEF FilesInv, FilesTyped
<1>1. ASSUME NEW r \in FileRuns, OpensToWrite(r) PROVE FilesInv'
  <2>1. file' \in {0, file}
    BY <1>1 DEF OpensToWrite
  <2> QED
    BY <1>0, <1>1, <2>1, ChangeBegins DEF OpensToWrite
<1>2. ASSUME NEW r \in FileRuns, LooksFor(r) PROVE FilesInv'
  <2>1. CASE file # 0 /\ tool' = [tool EXCEPT ![r] =
               [does |-> "edit", step |-> "opened", text |-> fileTexts + 1]]
    BY <1>0, <1>2, <2>1, ChangeBegins DEF LooksFor
  <2>2. CASE ToolIsOver(r)
    <3>1. IdleTool(r) /\ UNCHANGED <<file, landing, reported, readBack>>
          /\ fileTexts' \in 0 .. MaxFileTexts
          /\ undisturbed' = (undisturbed /\ Alone(r))
      BY <1>0, <1>2, FileTextsAssumption DEF LooksFor, FilesTyped
    <3>2. FilesTyped'
      BY <1>0, <2>2, <3>1, ToolOver DEF FilesTyped, IdleTool
    <3>3. OneChange'
      BY <1>0, <2>2, <3>1, ToolOver DEF OneChange, IdleTool, Alone, Lies
    <3> QED
      BY <3>2, <3>3 DEF FilesInv
  <2> QED
    BY <1>2, <2>1, <2>2 DEF LooksFor
<1>3. ASSUME NEW r \in FileRuns, NEW from, NEW to \in {"emptied", "handed"},
             tool[r].step = from, from # "idle", ToolSteps(r, to)
      PROVE  /\ tool' \in [FileRuns -> ToolTypes] /\ tool'[r].step = to
             /\ tool'[r].text = tool[r].text /\ tool[r].text \in 1 .. MaxFileTexts
             /\ \A s \in FileRuns : s # r => tool'[s] = tool[s]
             /\ \A s \in FileRuns : tool'[s].step # "idle" => tool'[s].text # 0
  BY <1>0, <1>3, FileTextsAssumption DEF FilesTyped, ToolSteps, ToolTypes, IdleTool
<1>4. ASSUME NEW r \in FileRuns, Empties(r) PROVE FilesInv'
  <2>1. FilesTyped'
    BY <1>0, <1>3, <1>4, FileTextsAssumption DEF Empties, FilesTyped, IdleTool, Missing
  <2>2. OneChange'
    BY <1>0, <1>3, <1>4 DEF Empties, OneChange, IdleTool
  <2> QED
    BY <2>1, <2>2 DEF FilesInv
<1>5. ASSUME NEW r \in FileRuns, HandsOver(r) PROVE FilesInv'
  <2>1. FilesTyped'
    BY <1>0, <1>3, <1>5 DEF HandsOver, FilesTyped, IdleTool
  <2>2. OneChange'
    BY <1>0, <1>3, <1>5 DEF HandsOver, OneChange, IdleTool, Lies
  <2> QED
    BY <2>1, <2>2 DEF FilesInv
<1>6. ASSUME NEW r \in FileRuns, WriteReports(r) \/ EditReports(r) PROVE FilesInv'
  <2>1. /\ tool[r].step = "handed" /\ ToolIsOver(r) /\ reported' = tool[r].text
        /\ UNCHANGED <<file, landing, fileTexts, undisturbed, readBack>>
    BY <1>6 DEF WriteReports, EditReports, ToolAt
  <2>2. tool[r].text \in 1 .. Missing
    BY <1>0, <2>1, FileTextsAssumption DEF FilesTyped, IdleTool, ToolTypes, Missing
  <2>3. FilesTyped'
    BY <1>0, <2>1, <2>2, ToolOver DEF FilesTyped, IdleTool
  <2>4. OneChange'
    BY <1>0, <2>1, ToolOver DEF OneChange, IdleTool, Lies
  <2> QED
    BY <2>3, <2>4 DEF FilesInv
<1>7. ASSUME NEW r \in FileRuns, ReadsFile(r) PROVE FilesInv'
  <2>1. FilesTyped'
    BY <1>0, <1>7, FileTextsAssumption DEF ReadsFile, FilesTyped, IdleTool, Missing, NotRead
  <2>2. OneChange'
    BY <1>0, <1>7 DEF ReadsFile, OneChange, IdleTool, Lies
  <2> QED
    BY <2>1, <2>2 DEF FilesInv
<1>8. ASSUME NEW r \in FileRuns, ToolDropped(r) PROVE FilesInv'
  <2>1. FilesTyped'
    BY <1>0, <1>8, ToolOver DEF ToolDropped, FilesTyped, IdleTool
  <2>2. OneChange'
    BY <1>8 DEF ToolDropped, OneChange
  <2> QED
    BY <2>1, <2>2 DEF FilesInv
<1>9. ASSUME NEW text \in landing, Lands(text) PROVE FilesInv'
  <2>1. FilesTyped'
    BY <1>0, <1>9, FileTextsAssumption DEF Lands, FilesTyped, IdleTool, Missing, Mixed
  <2>2. OneChange'
    BY <1>0, <1>9, FileTextsAssumption DEF Lands, OneChange, IdleTool, Lies
  <2> QED
    BY <2>1, <2>2 DEF FilesInv
<1>10. ASSUME NEW text \in landing, LandsInPart(text) PROVE FilesInv'
  <2>1. NoTool \in ToolTypes /\ NoTool.step = "idle"
    BY FileTextsAssumption DEF NoTool, ToolTypes
  <2>2. /\ tool' = [r \in FileRuns |-> tool'[r]]
        /\ \A r \in FileRuns : tool'[r] \in {NoTool, tool[r]}
    BY <1>10 DEF LandsInPart
  <2>3. tool' \in [FileRuns -> ToolTypes]
    BY <1>0, <2>1, <2>2
  <2>4. file' \in 0 .. Missing /\ landing' \subseteq 1 .. MaxFileTexts /\ undisturbed' = FALSE
        /\ UNCHANGED <<fileTexts, reported, readBack>>
    BY <1>0, <1>10, FileTextsAssumption DEF LandsInPart, FilesTyped, Missing, Mixed
  <2>5. FilesTyped'
    BY <1>0, <2>1, <2>2, <2>3, <2>4 DEF FilesTyped, IdleTool
  <2>6. OneChange'
    BY <2>4 DEF OneChange
  <2> QED
    BY <2>5, <2>6 DEF FilesInv
<1>11. CASE UNCHANGED filesVars
  <2>1. FilesTyped'
    BY <1>0, <1>11 DEF filesVars, FilesTyped, IdleTool
  <2>2. OneChange'
    BY <1>0, <1>11 DEF filesVars, OneChange, IdleTool, Lies
  <2> QED
    BY <2>1, <2>2 DEF FilesInv
<1> QED
  BY <1>1, <1>2, <1>4, <1>5, <1>6, <1>7, <1>8, <1>9, <1>10, <1>11 DEF FilesNext

LEMMA FilesHold == FilesInv => FilesTypeOK /\ FileAsReported
<1> SUFFICES ASSUME FilesInv PROVE FilesTypeOK /\ FileAsReported
  OBVIOUS
<1>1. FilesTypeOK
  <2>1. \A r \in FileRuns :
          /\ tool[r].does \in {"none", "write", "edit"}
          /\ tool[r].step \in {"idle", "opened", "emptied", "handed"}
          /\ tool[r].text \in 0 .. MaxFileTexts
    BY DEF FilesInv, FilesTyped, ToolTypes
  <2>2. /\ file \in 0 .. Missing /\ landing \subseteq 1 .. MaxFileTexts
        /\ fileTexts \in 0 .. MaxFileTexts /\ reported \in 1 .. Missing
        /\ readBack \in [got : 0 .. NotRead, due : 1 .. NotRead] /\ undisturbed \in BOOLEAN
    BY DEF FilesInv, FilesTyped
  <2> QED
    BY <2>1, <2>2 DEF FilesTypeOK
<1>2. FileAsReported
  BY DEF FilesInv, OneChange, FileAsReported, Lies
<1> QED
  BY <1>1, <1>2
=============================================================================

------------------------------- MODULE Improvement -------------------------------
(***************************************************************************)
(* One improvement experiment (improve/, command/improve/, eval/): it      *)
(* freezes the source, checks it, lets an agent change a copy, freezes and *)
(* checks the copy, and evaluates behaviour before and after.  Its result  *)
(* is reviewed and approved later, by any process, while the user works on *)
(* the same source, skills and settings.  A hash is the content it is of.  *)
(***************************************************************************)
EXTENDS Naturals, FiniteSets

CONSTANTS
  Approvers,   \* commands that may approve the result at once
  MaxChanged   \* bound of the model: how many files change on their own

VARIABLES
  impStep,      \* how far the experiment is
  impReport,    \* report.json
  impFiles,     \* content of the experiment's files and of the live ones
  impReviewed,  \* the pin of mark_reviewed: report and patch
  impApprovals, \* what each approver is doing
  impHistory    \* history: what was tested, what was applied and how often

impVars == <<impStep, impReport, impFiles, impReviewed, impApprovals, impHistory>>

(* Content: "v0" as the experiment found or made it, "v1" changed since.   *)
Live == {"source", "installed", "settings"}
Kept == {"review", "patch", "proposals", "context"}
NewReport == [baseline |-> "none", sourceKept |-> FALSE, error |-> FALSE, candidate |-> "none",
              patch |-> "none", evaluations |-> FALSE, checks |-> "none", afterKept |-> FALSE,
              skills |-> "none", behavior |-> "none", behaviorSkills |-> "none"]
Nothing == [review |-> "none", proposals |-> "none"]

ImpInit ==
  /\ impStep = "baseline"
  /\ impReport = NewReport
  /\ impFiles = [f \in Live \union Kept |-> "v0"]
  /\ impReviewed = [report |-> NewReport, patch |-> "none"]
  /\ impApprovals = [a \in Approvers |-> "idle"]
  /\ impHistory = [tested |-> Nothing, applied |-> Nothing, times |-> 0, touched |-> FALSE,
                   unseen |-> FALSE]

Pipeline(from, to, report) ==
  /\ impStep = from
  /\ impStep' = to
  /\ impReport' = report
  /\ UNCHANGED <<impFiles, impReviewed, impApprovals>>
-----------------------------------------------------------------------------
(* baseline: the checks run on a copy and may rewrite it.                  *)
Baseline ==
  /\ \E result \in {"passed", "failed"}, kept \in BOOLEAN :
       Pipeline("baseline", "behavior",
                [impReport EXCEPT !.baseline = result, !.sourceKept = kept])
  /\ UNCHANGED impHistory

(* baseline_behavior: without an evaluation of the baseline the experiment *)
(* ends here.                                                              *)
BaselineBehavior ==
  /\ \/ Pipeline("behavior", "agent", [impReport EXCEPT !.behavior = "baseline"])
     \/ Pipeline("behavior", "over", [impReport EXCEPT !.behavior = "baseline", !.error = TRUE])
  /\ UNCHANGED impHistory

(* The agent's run, and the freeze of finish: the candidate is copied to   *)
(* what will be reviewed before any check runs on a copy of that.          *)
AgentRuns ==
  /\ \E failed, evaluations \in BOOLEAN :
       Pipeline("agent", "checks",
                [impReport EXCEPT !.error = failed, !.evaluations = evaluations,
                                  !.candidate = "v0", !.patch = "v0"])
  /\ UNCHANGED impHistory

(* finish: the checks run on a copy and may rewrite it; the report then    *)
(* names the proposed skills.                                              *)
CandidateChecks ==
  /\ \E result \in {"passed", "failed"}, kept \in BOOLEAN :
       Pipeline("checks", "evaluate",
                [impReport EXCEPT !.checks = result, !.afterKept = kept,
                                  !.skills = impFiles["proposals"]])
  /\ UNCHANGED impHistory

checks_passed(r) ==
  /\ ~r.error /\ r.sourceKept /\ r.afterKept
  /\ r.checks = "passed"

(* candidate_behavior: the frozen candidate with the proposed skills, when *)
(* the checks passed.                                                      *)
CandidateBehavior ==
  IF checks_passed(impReport) /\ ~impReport.evaluations
  THEN /\ \E result \in {"passed", "failed"} :
            Pipeline("evaluate", "over", [impReport EXCEPT !.behavior = result,
                                             !.behaviorSkills = impReport.skills])
       /\ impHistory' = [impHistory EXCEPT !.tested =
                            [review |-> impFiles["review"], proposals |-> impFiles["proposals"]]]
  ELSE Pipeline("evaluate", "over", impReport) /\ UNCHANGED impHistory

(* The worker dies, or a step of it fails: the report stays as it was saved*)
ExperimentStops ==
  /\ impStep # "over"
  /\ Pipeline(impStep, "over", impReport)
  /\ UNCHANGED impHistory

(* semantic_status: the evaluation is of this candidate with these skills. *)
semantic_status(r) == r.behavior = "passed" /\ r.behaviorSkills = r.skills
acceptable(r) == checks_passed(r) /\ ~r.evaluations /\ semantic_status(r)
-----------------------------------------------------------------------------
(* review shows the result; mark_reviewed pins the report and the patch.   *)
Review ==
  /\ impStep = "over"
  /\ impReviewed' = [report |-> impReport, patch |-> impFiles["patch"]]
  /\ UNCHANGED <<impStep, impReport, impFiles, impApprovals, impHistory>>

Approving(a, from, to) ==
  /\ impApprovals[a] = from
  /\ impApprovals' = [impApprovals EXCEPT ![a] = to]
  /\ UNCHANGED <<impStep, impReport, impReviewed>>

(* reviewed: the result is still the one that was reviewed; an id picks a  *)
(* result that was reviewed elsewhere.                                     *)
ApproveReviewed(a) ==
  /\ \E id \in BOOLEAN :
       /\ ~id => impReviewed = [report |-> impReport, patch |-> impFiles["patch"]]
       /\ impHistory' = [impHistory EXCEPT !.unseen = @ \/ id, !.touched =
                            @ /\ (impHistory.times > 0 \/ \E b \in Approvers : impApprovals[b] # "idle")]
  /\ Approving(a, "idle", "report")
  /\ UNCHANGED impFiles

(* Mutant: the files are not compared with the report.                     *)
ApproveFiles_Trusted(a) ==
  /\ Approving(a, "files", "apply")
  /\ UNCHANGED <<impFiles, impHistory>>

(* accept and approve: the report is complete and passed, settings, context*)
(* and installed skills are those of the evaluation.                       *)
ApproveReport(a) ==
  /\ acceptable(impReport)
  /\ \A f \in {"settings", "installed", "context"} : impFiles[f] = "v0"
  /\ Approving(a, "report", "files")
  /\ UNCHANGED <<impFiles, impHistory>>

(* Proposals, source, candidate and patch are those of the report.         *)
ApproveFiles(a) ==
  /\ impFiles["proposals"] = impReport.skills
  /\ impFiles["source"] = "v0"
  /\ impFiles["review"] = impReport.candidate
  /\ impFiles["patch"] = impReport.patch
  /\ Approving(a, "files", "apply")
  /\ UNCHANGED <<impFiles, impHistory>>

(* git apply, after a dry run: it refuses a source that has the change; a  *)
(* source changed otherwise it may take.                                   *)
ApplyPatch(a) ==
  /\ impFiles["source"] # "patched"
  /\ Approving(a, "apply", "install")
  /\ impFiles' = [impFiles EXCEPT !["source"] = "patched"]
  /\ impHistory' = [impHistory EXCEPT !.applied.review = impFiles["patch"], !.times = @ + 1]

(* approve_from of every proposal, which never overwrites an installed     *)
(* skill, and approved.json.                                               *)
InstallSkills(a) ==
  /\ impHistory.applied.proposals = "none"
  /\ Approving(a, "install", "approved")
  /\ impFiles' = [impFiles EXCEPT !["installed"] = "v1"]
  /\ impHistory' = [impHistory EXCEPT !.applied.proposals = impFiles["proposals"]]

(* Any check refuses, any step fails, or the process dies.                 *)
ApproveStops(a) ==
  /\ impApprovals[a] \notin {"idle", "approved"}
  /\ Approving(a, impApprovals[a], "idle")
  /\ UNCHANGED <<impFiles, impHistory>>

(* The user changes the source, the installed skills or the settings, or   *)
(* something changes a file of the experiment.                             *)
Change(f) ==
  /\ impFiles[f] = "v0" /\ Cardinality({g \in DOMAIN impFiles : impFiles[g] = "v1"}) < MaxChanged
  /\ f \in Kept => impStep \notin {"baseline", "behavior", "agent"}
  /\ impFiles' = [impFiles EXCEPT ![f] = "v1"]
  /\ impHistory' = [impHistory EXCEPT !.touched = @ \/ f \in Kept]
  /\ UNCHANGED <<impStep, impReport, impReviewed, impApprovals>>

ImpNext ==
  \/ Baseline \/ BaselineBehavior \/ AgentRuns \/ CandidateChecks \/ CandidateBehavior
  \/ ExperimentStops \/ Review
  \/ \E a \in Approvers :
       \/ ApproveReviewed(a) \/ ApproveReport(a) \/ ApproveFiles(a)
       \/ ApplyPatch(a) \/ InstallSkills(a) \/ ApproveStops(a)
  \/ \E f \in DOMAIN impFiles : Change(f)

ImpSpec == ImpInit /\ [][ImpNext]_impVars
-----------------------------------------------------------------------------
ImpTypeOK ==
  /\ impStep \in {"baseline", "behavior", "agent", "checks", "evaluate", "over"}
  /\ \A f \in DOMAIN impFiles : impFiles[f] \in {"v0", "v1", "patched"}
  /\ impApprovals \in [Approvers -> {"idle", "report", "files", "apply", "install", "approved"}]
  /\ impHistory.times \in Nat

(* What an approval changes is what was checked and evaluated: the patch   *)
(* applied is the one reviewed and tested and every check of it passed, and*)
(* the skills installed are the ones it was evaluated with, unless a file  *)
(* of the experiment was changed while the approval was under way; and two *)
(* approvals at once apply it once.  Without an id it is the one reviewed. *)
AppliedIsTested ==
  /\ impHistory.times <= 1
  /\ impHistory.applied.review # "none" => acceptable(impReport) /\ impStep = "over"
  /\ ~impHistory.touched =>
       /\ impHistory.applied.review \in {"none", impHistory.tested.review}
       /\ ~impHistory.unseen => impHistory.applied.review \in {"none", impReviewed.patch}
       /\ impHistory.applied.proposals \in {"none", impHistory.tested.proposals}

(* An approval accepts the patch and the skills together.                  *)
AcceptedTogether ==
  impHistory.applied.review # "none" =>
    \/ impHistory.applied.proposals # "none"
    \/ \E a \in Approvers : impApprovals[a] = "install"
=============================================================================

--------------------------------- MODULE Skills ---------------------------------
(***************************************************************************)
(* Learned skills (learn.rs, skill.rs): one name, its proposal and its     *)
(* installed directory, and the calls that teach, revise, approve, reject  *)
(* and load it.  Calls come from any number of sessions and commands and   *)
(* nothing is locked.                                                      *)
(***************************************************************************)
EXTENDS Naturals, FiniteSets

CONSTANTS
  SkillCallers,   \* calls that may be under way at once
  MaxSkillTexts,       \* bound of the model: texts written
  MaxSeconds      \* bound of the model: seconds that pass

ASSUME SkillsAssumption == MaxSkillTexts \in Nat /\ MaxSeconds \in Nat

VARIABLES
  skillAt,        \* the two directories: "proposed" and "installed"
  skillCalls,     \* each caller's call
  skillClock,     \* the second of now(), and the texts used so far
  skillLoaded,    \* the last text a session loaded
  skillPast       \* history: see SkillInit

skillVars == <<skillAt, skillCalls, skillClock, skillLoaded, skillPast>>

(* A text that is being written, was cut off, or landed over another's is  *)
(* a part of it: the file is empty or has some of it, or a longer tail.    *)
Places == {"proposed", "installed"}
Gone == "gone"             \* where the file of a rejected proposal is
NoText == 0                \* there is no SKILL.md
SkillTexts == NoText .. 2 * MaxSkillTexts
PartOf(text) == MaxSkillTexts + text
TextOf(text) == IF text > MaxSkillTexts THEN text - MaxSkillTexts ELSE text
NoDirectory == [there |-> FALSE, text |-> NoText, kept |-> {}]
NoSkillCall == [step |-> "idle", place |-> "proposed", text |-> NoText, old |-> NoText]

(* skillPast: texts an approval installed, texts of revisions that found   *)
(* an installed skill, replaced texts that are kept nowhere, whether two   *)
(* calls overlapped, whether two backups fell into one second, whether a   *)
(* write was cut off, and the text that was last approved, or written over *)
(* an installed one.                                                       *)
SkillInit ==
  /\ skillAt = [place \in Places |-> NoDirectory]
  /\ skillCalls = [c \in SkillCallers |-> NoSkillCall]
  /\ skillClock = [second |-> 0, texts |-> 0]
  /\ skillLoaded = NoText
  /\ skillPast = [approved |-> {}, corrections |-> {}, lost |-> {}, met |-> FALSE, tied |-> FALSE,
                  cut |-> FALSE, last |-> NoText]

HasSkill(place) == skillAt[place].text # NoText
SkillGoes(c, call) == skillCalls' = [skillCalls EXCEPT ![c] = call]
SkillCallEnds(c) == SkillGoes(c, NoSkillCall)

(* A caller with nothing under way begins a call.                          *)
Meets == \E c \in SkillCallers : skillCalls[c].step # "idle"
SkillBegins(c, call) ==
  /\ skillCalls[c].step = "idle"
  /\ SkillGoes(c, call)
  /\ UNCHANGED <<skillAt, skillLoaded>>
FreshText == skillClock.texts + 1
TakesText == skillClock.texts < MaxSkillTexts /\ skillClock' = [skillClock EXCEPT !.texts = FreshText]
-----------------------------------------------------------------------------
(* teach: a name that is installed is refused; a proposal of that name is  *)
(* written over.                                                           *)
SkillTeach(c) ==
  /\ ~HasSkill("installed")
  /\ TakesText
  /\ SkillBegins(c, [NoSkillCall EXCEPT !.step = "write", !.text = FreshText])
  /\ skillPast' = [skillPast EXCEPT !.met = @ \/ Meets]

(* Mutant: a correction always goes to the installed copy.                 *)
SkillRevise_AlwaysInstalled(c) ==
  /\ TakesText
  /\ SkillBegins(c, [step |-> IF HasSkill("installed") THEN "backup" ELSE "proposal",
                     place |-> "installed", text |-> FreshText, old |-> skillAt["installed"].text])
  /\ skillPast' = [skillPast EXCEPT
       !.met = @ \/ Meets,
       !.corrections = IF HasSkill("installed") THEN @ \union {FreshText} ELSE @]

(* revise: the installed text, or else the proposal's.                     *)
SkillRevise(c) ==
  LET place == IF HasSkill("installed") THEN "installed" ELSE "proposed"
  IN  /\ TakesText
      /\ SkillBegins(c, [step |-> IF place = "installed" THEN "backup" ELSE "proposal",
                         place |-> place, text |-> FreshText, old |-> skillAt["installed"].text])
      /\ skillPast' = [skillPast EXCEPT
           !.met = @ \/ Meets,
           !.corrections = IF place = "installed" THEN @ \union {FreshText} ELSE @]

SkillReadProposal(c) ==
  /\ skillCalls[c].step = "proposal"
  /\ IF HasSkill("proposed")
     THEN SkillGoes(c, [skillCalls[c] EXCEPT !.step = "backup", !.old = skillAt["proposed"].text])
     ELSE SkillCallEnds(c)
  /\ UNCHANGED <<skillAt, skillClock, skillLoaded, skillPast>>

(* The text that was read goes beside the new one in a file named by the   *)
(* second; one of the same second is written over.  With the directory     *)
(* gone this fails.                                                        *)
SkillBackup(c) ==
  LET call == skillCalls[c]
      same == {kept \in skillAt[call.place].kept : kept.second = skillClock.second}
      backup == [second |-> skillClock.second, text |-> call.old]
  IN  /\ call.step = "backup"
      /\ IF skillAt[call.place].there
         THEN /\ skillAt' = [skillAt EXCEPT ![call.place].kept = (@ \ same) \union {backup}]
              /\ skillPast' = [skillPast EXCEPT
                   !.tied = @ \/ same # {},
                   !.lost = @ \union ({kept.text : kept \in same} \ {call.old})]
              /\ SkillGoes(c, [call EXCEPT !.step = "write"])
         ELSE SkillCallEnds(c) /\ UNCHANGED <<skillAt, skillPast>>
      /\ UNCHANGED <<skillClock, skillLoaded>>

(* write_skill and the write of approve_from: the directory is made if it  *)
(* is gone and the file opened, which empties it; then the text lands.     *)
(* Only a revision keeps what it replaces.                                 *)
SkillOpens(c) ==
  LET call == skillCalls[c]
      dir == skillAt[call.place]
      kept == {backup.text : backup \in dir.kept}
  IN  /\ call.step = "write"
      /\ skillAt' = [skillAt EXCEPT ![call.place] = [dir EXCEPT !.there = TRUE, !.text = PartOf(call.text)]]
      /\ skillPast' = [skillPast EXCEPT
           !.lost = IF call.old # NoText /\ dir.text # NoText THEN @ \union ({dir.text} \ kept) ELSE @,
           !.last = IF call.place = "installed" THEN call.text ELSE @]
      /\ SkillGoes(c, [call EXCEPT !.step = "text"])
      /\ UNCHANGED <<skillClock, skillLoaded>>

(* It lands in the file that was opened, wherever that is by now; when     *)
(* another call emptied it meanwhile, a longer tail may stay.              *)
SkillWritten(c) ==
  LET call == skillCalls[c]
      file == skillAt[call.place].text
  IN  /\ call.step = "text"
      /\ IF call.place = Gone THEN UNCHANGED skillAt
         ELSE \E text \in {call.text} \union (IF file = PartOf(call.text) THEN {} ELSE {PartOf(call.text)}) :
                skillAt' = [skillAt EXCEPT ![call.place].text = text]
      /\ SkillCallEnds(c)
      /\ UNCHANGED <<skillClock, skillLoaded, skillPast>>

(* approve: a look at both directories, then the rename, which also        *)
(* replaces a directory that is empty by then.                             *)
SkillApprove(c) ==
  /\ HasSkill("proposed") /\ ~skillAt["installed"].there
  /\ SkillBegins(c, [NoSkillCall EXCEPT !.step = "rename"])
  /\ skillPast' = [skillPast EXCEPT !.met = @ \/ Meets]
  /\ UNCHANGED skillClock

(* A file that is being written moves with its directory.                  *)
EmptyOrGone(dir) == dir.text = NoText /\ dir.kept = {}
OpenIn(place) == {c \in SkillCallers : skillCalls[c].step = "text" /\ skillCalls[c].place = place}
FilesMove(open, place) ==
  [c \in SkillCallers |-> IF c \in open THEN [skillCalls[c] EXCEPT !.place = place] ELSE skillCalls[c]]

SkillRename(c) ==
  LET open == OpenIn("proposed")
      text == TextOf(skillAt["proposed"].text)
  IN  /\ skillCalls[c].step = "rename"
      /\ IF skillAt["proposed"].there /\ EmptyOrGone(skillAt["installed"])
         THEN /\ skillAt' = [proposed |-> NoDirectory, installed |-> skillAt["proposed"]]
              /\ skillPast' = [skillPast EXCEPT
                   !.approved = @ \union {text} \union {skillCalls[d].text : d \in open},
                   !.last = text]
              /\ skillCalls' = [FilesMove(open, "installed") EXCEPT ![c] = NoSkillCall]
         ELSE SkillCallEnds(c) /\ UNCHANGED <<skillAt, skillPast>>
      /\ UNCHANGED <<skillClock, skillLoaded>>

(* approve_from: the proposal of an experiment is read, the directory made,*)
(* which fails when there is one, and the file written into it.            *)
SkillApproveFrom(c) ==
  /\ TakesText
  /\ SkillBegins(c, [NoSkillCall EXCEPT !.step = "create", !.text = FreshText])
  /\ skillPast' = [skillPast EXCEPT !.met = @ \/ Meets]

SkillCreate(c) ==
  /\ skillCalls[c].step = "create"
  /\ IF skillAt["installed"].there
     THEN SkillCallEnds(c) /\ UNCHANGED <<skillAt, skillPast>>
     ELSE /\ skillAt' = [skillAt EXCEPT !["installed"].there = TRUE]
          /\ skillPast' = [skillPast EXCEPT !.approved = @ \union {skillCalls[c].text}]
          /\ SkillGoes(c, [skillCalls[c] EXCEPT !.step = "write", !.place = "installed"])
  /\ UNCHANGED <<skillClock, skillLoaded>>

(* reject removes the proposal with everything beside it.                  *)
SkillReject ==
  /\ skillAt["proposed"].there
  /\ skillAt' = [skillAt EXCEPT !["proposed"] = NoDirectory]
  /\ skillCalls' = FilesMove(OpenIn("proposed"), Gone)
  /\ UNCHANGED <<skillClock, skillLoaded, skillPast>>

(* A call is dropped, its program ends, or a step of it fails: a file that *)
(* was opened keeps the part it has.                                       *)
SkillCallLost(c) ==
  /\ skillCalls[c].step # "idle"
  /\ SkillCallEnds(c)
  /\ skillPast' = [skillPast EXCEPT !.cut = @ \/ skillCalls[c].step = "text"]
  /\ UNCHANGED <<skillAt, skillClock, skillLoaded>>

(* discover lists what is installed; the skill tool reads the file when it *)
(* is asked, and refuses one that is empty: a part that is not is loaded.  *)
SkillLoads ==
  /\ HasSkill("installed")
  /\ skillLoaded' = skillAt["installed"].text
  /\ UNCHANGED <<skillAt, skillCalls, skillClock, skillPast>>

SkillSecondPasses ==
  /\ skillClock.second < MaxSeconds
  /\ skillClock' = [skillClock EXCEPT !.second = @ + 1]
  /\ UNCHANGED <<skillAt, skillCalls, skillLoaded, skillPast>>

SkillNext ==
  \/ \E c \in SkillCallers :
       \/ SkillTeach(c) \/ SkillRevise(c) \/ SkillReadProposal(c) \/ SkillBackup(c)
       \/ SkillOpens(c) \/ SkillWritten(c) \/ SkillApprove(c) \/ SkillRename(c)
       \/ SkillApproveFrom(c) \/ SkillCreate(c) \/ SkillCallLost(c)
  \/ SkillReject \/ SkillLoads \/ SkillSecondPasses

SkillSpec == SkillInit /\ [][SkillNext]_skillVars
-----------------------------------------------------------------------------
SkillTypeOK ==
  /\ \A place \in Places :
       /\ skillAt[place].there \in BOOLEAN /\ skillAt[place].text \in SkillTexts
       /\ skillAt[place].kept \subseteq [second : 0 .. MaxSeconds, text : SkillTexts]
       /\ ~skillAt[place].there => skillAt[place] = NoDirectory
  /\ \A c \in SkillCallers :
       /\ skillCalls[c].place \in Places \union {Gone} /\ skillCalls[c].text \in 0 .. MaxSkillTexts
       /\ skillCalls[c].place = Gone => skillCalls[c].step = "text"
  /\ skillClock \in [second : 0 .. MaxSeconds, texts : 0 .. MaxSkillTexts]
  /\ skillLoaded \in SkillTexts

(* What a session loads is an approved text, or corrects a skill that was  *)
(* installed, or is a part of one: no interleaving of calls brings a       *)
(* taught text, or the revision of a proposal, to a session by itself.  A  *)
(* skill that was approved or corrected is kept: unless calls overlapped,  *)
(* the text of the last approval or correction is what is installed, as a  *)
(* whole unless it is still being written or a write was cut off.  And a   *)
(* revision loses the text it replaces only when calls overlapped or when  *)
(* two backups fell into one second.                                       *)
SkillsGated ==
  /\ TextOf(skillLoaded) \in {NoText} \union skillPast.approved \union skillPast.corrections
  /\ ~skillPast.met => /\ TextOf(skillAt["installed"].text) = skillPast.last
                       /\ skillAt["installed"].text = skillPast.last
                            \/ skillPast.cut \/ OpenIn("installed") # {}
  /\ skillPast.lost # {} => skillPast.met \/ skillPast.tied

(* learn.rs:137: "the replaced text is kept beside it".                    *)
ReplacedIsKept == skillPast.lost = {}

(* learn.rs:237: "an installed skill is never overwritten" by an approval: *)
(* only a correction changes a text that is installed.                     *)
InstalledStays ==
  [][skillAt["installed"].text \in 1 .. MaxSkillTexts /\ skillAt'["installed"] # skillAt["installed"]
       => \E c \in SkillCallers : skillCalls[c].old # NoText /\ skillCalls[c].place = "installed"]_skillVars
=============================================================================

---------------------------------- MODULE Files ----------------------------------
(***************************************************************************)
(* The tools that read and change a file of the workspace                  *)
(* (tool/builtin.rs, workspace.rs), called by a run and by the runs of its *)
(* subagents in the same workspace.  Each step is one await; a run may be  *)
(* dropped at any of them, and what was handed to the file still lands.    *)
(***************************************************************************)
EXTENDS Naturals

CONSTANTS
  FileRuns,       \* runs that share the workspace, each one tool at a time
  MaxFileTexts    \* bound of the model: texts written

ASSUME FileTextsAssumption == MaxFileTexts \in Nat

VARIABLES
  file,          \* what the file holds
  tool,          \* run -> the tool call under way
  landing,       \* texts handed to the file's own thread and not yet written
  fileTexts,     \* how many texts there have been
  reported,      \* history: what the last change that was reported left
  undisturbed,   \* history: no change met another one, none was cut off or failed
  readBack       \* history: what the last read got, and what the last report makes due

filesVars == <<file, tool, landing, fileTexts, reported, undisturbed, readBack>>

(* A text is a number, and 0 is an empty file.                             *)
Mixed == MaxFileTexts + 1
Missing == MaxFileTexts + 2
NotRead == MaxFileTexts + 3
NoTool == [does |-> "none", step |-> "idle", text |-> 0]

FilesInit ==
  /\ file = Missing
  /\ tool = [r \in FileRuns |-> NoTool]
  /\ landing = {}
  /\ fileTexts = 0
  /\ reported = Missing
  /\ undisturbed = TRUE
  /\ readBack = [got |-> NotRead, due |-> NotRead]

IdleTool(r) == tool[r].step = "idle"
Alone(r) == landing = {} /\ \A other \in FileRuns \ {r} : IdleTool(other)
ToolAt(r, does, step) == tool[r].does = does /\ tool[r].step = step
ToolSteps(r, step) == tool' = [tool EXCEPT ![r].step = step]
ToolIsOver(r) == tool' = [tool EXCEPT ![r] = NoTool]
-----------------------------------------------------------------------------
(* workspace::open: writing makes the file, editing and reading need it.   *)
OpensToWrite(r) ==
  /\ IdleTool(r) /\ fileTexts < MaxFileTexts
  /\ fileTexts' = fileTexts + 1
  /\ tool' = [tool EXCEPT ![r] = [does |-> "write", step |-> "opened", text |-> fileTexts + 1]]
  /\ file' = IF file = Missing THEN 0 ELSE file
  /\ undisturbed' = (undisturbed /\ Alone(r))
  /\ UNCHANGED <<landing, reported, readBack>>

(* Mutant: the file is emptied before the text is looked for.              *)
LooksFor_Emptied(r) ==
  /\ IdleTool(r) /\ file # Missing /\ fileTexts < MaxFileTexts
  /\ fileTexts' = fileTexts + 1
  /\ file' = 0
  /\ \/ ToolIsOver(r)
     \/ tool' = [tool EXCEPT ![r] = [does |-> "edit", step |-> "opened", text |-> fileTexts + 1]]
  /\ undisturbed' = (undisturbed /\ Alone(r))
  /\ UNCHANGED <<landing, reported, readBack>>

(* edit reads the whole file and refuses unless old is there exactly once, *)
(* which it is not in an empty one.                                        *)
LooksFor(r) ==
  /\ IdleTool(r) /\ file # Missing /\ fileTexts < MaxFileTexts
  /\ fileTexts' = fileTexts + 1
  /\ \/ ToolIsOver(r)
     \/ /\ file # 0
        /\ tool' = [tool EXCEPT ![r] = [does |-> "edit", step |-> "opened", text |-> fileTexts + 1]]
  /\ undisturbed' = (undisturbed /\ Alone(r))
  /\ UNCHANGED <<file, landing, reported, readBack>>

(* set_len(0).                                                             *)
Empties(r) ==
  /\ tool[r].step = "opened"
  /\ file' = 0
  /\ ToolSteps(r, "emptied")
  /\ UNCHANGED <<landing, fileTexts, reported, undisturbed, readBack>>

(* write_all hands the text over and returns: the file's own thread writes.*)
HandsOver(r) ==
  /\ tool[r].step = "emptied"
  /\ landing' = landing \union {tool[r].text}
  /\ ToolSteps(r, "handed")
  /\ UNCHANGED <<file, fileTexts, reported, undisturbed, readBack>>

(* What is written begins at the start of the file: over a longer text its *)
(* end stays.                                                              *)
Lands(text) ==
  /\ text \in landing
  /\ landing' = landing \ {text}
  /\ file' \in IF file = 0 THEN {text} ELSE {text, Mixed}
  /\ UNCHANGED <<tool, fileTexts, reported, undisturbed, readBack>>

(* Writing fails part of the way: a write hears of it when it flushes, an  *)
(* edit does not.                                                          *)
LandsInPart(text) ==
  /\ text \in landing
  /\ landing' = landing \ {text}
  /\ file' = Mixed
  /\ tool' = [r \in FileRuns |-> IF tool[r].text = text /\ ToolAt(r, "write", "handed")
                                 THEN NoTool ELSE tool[r]]
  /\ undisturbed' = FALSE
  /\ UNCHANGED <<fileTexts, reported, readBack>>

(* workspace::write flushes, which waits for the text to be in the file.   *)
WriteReports(r) ==
  /\ ToolAt(r, "write", "handed") /\ tool[r].text \notin landing
  /\ reported' = tool[r].text
  /\ ToolIsOver(r)
  /\ UNCHANGED <<file, landing, fileTexts, undisturbed, readBack>>

(* edit does not: it reports as soon as the text is handed over.           *)
EditReports(r) ==
  /\ ToolAt(r, "edit", "handed")
  /\ reported' = tool[r].text
  /\ ToolIsOver(r)
  /\ UNCHANGED <<file, landing, fileTexts, undisturbed, readBack>>

(* read streams the lines of whatever is there.                            *)
ReadsFile(r) ==
  /\ IdleTool(r) /\ file # Missing
  /\ readBack' = [got |-> file,
                  due |-> IF undisturbed /\ \A other \in FileRuns : IdleTool(other)
                          THEN reported ELSE NotRead]
  /\ UNCHANGED <<file, tool, landing, fileTexts, reported, undisturbed>>

(* A run is cancelled or dies: its call is dropped where it is.            *)
ToolDropped(r) ==
  /\ ~IdleTool(r)
  /\ ToolIsOver(r)
  /\ undisturbed' = FALSE
  /\ UNCHANGED <<file, landing, fileTexts, reported, readBack>>

FilesNext ==
  \/ \E r \in FileRuns :
       \/ OpensToWrite(r) \/ LooksFor(r) \/ Empties(r) \/ HandsOver(r) \/ WriteReports(r)
       \/ EditReports(r) \/ ReadsFile(r) \/ ToolDropped(r)
  \/ \E text \in landing : Lands(text) \/ LandsInPart(text)

FilesSpec == FilesInit /\ [][FilesNext]_filesVars
-----------------------------------------------------------------------------
FilesTypeOK ==
  /\ file \in 0 .. Missing
  /\ \A r \in FileRuns :
       /\ tool[r].does \in {"none", "write", "edit"}
       /\ tool[r].step \in {"idle", "opened", "emptied", "handed"} /\ tool[r].text \in 0 .. MaxFileTexts
  /\ landing \subseteq 1 .. MaxFileTexts /\ fileTexts \in 0 .. MaxFileTexts
  /\ reported \in 1 .. Missing /\ readBack \in [got : 0 .. NotRead, due : 1 .. NotRead] /\ undisturbed \in BOOLEAN

(* As long as changes do not meet, none is cut off and no disk fails, the  *)
(* file holds exactly what the last reported change left once nothing is   *)
(* under way: a refused edit has changed nothing, a shorter text leaves no *)
(* rest of a longer one.                                                   *)
FileAsReported ==
  undisturbed /\ landing = {} /\ (\A r \in FileRuns : IdleTool(r)) => file = reported

(* A read after a reported edit returns the edited text, when no other     *)
(* change is under way or has met it (tests/tools.rs:24-48).               *)
EditedIsThere == readBack.due # NotRead => readBack.got = readBack.due
=============================================================================

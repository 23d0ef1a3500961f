-------------------------------- MODULE Imports --------------------------------
(***************************************************************************)
(* Importing what other tools keep (import.rs): servers into the MCP       *)
(* profile, skills, prompts and memories into their stores.  Discovery     *)
(* says what is present already; an import copies the chosen candidates    *)
(* one after the other and stops at the first error.                       *)
(***************************************************************************)
EXTENDS Naturals, Sequences, FiniteSets

CONSTANTS
  Importers,      \* imports that may be under way at once
  Servers,        \* candidates, by kind; each has a name of its own
  SkillTrees,
  Prompts,
  Notes,          \* memories of the other tool
  RecallLimit,    \* memories that discovery compares with
  MaxImports      \* bound of the model: imports begun

VARIABLES
  imported,       \* what each candidate's name holds here: see Marks
  noteList,       \* the memories stored, in order
  importCalls,    \* each importer's call
  importsBegun,
  importPast      \* history: see ImportsInit

importVars == <<imported, noteList, importCalls, importsBegun, importPast>>

Files == Servers \union SkillTrees \union Prompts
Candidates == Files \union Notes

NoName == "none"

ASSUME ImportsAssumption ==
  /\ RecallLimit \in Nat /\ MaxImports \in Nat /\ NoName \notin Files
  /\ Notes \intersect Files = {} /\ Servers \intersect (SkillTrees \union Prompts) = {}

Marks == {"absent", "part", "named", "whole"}   \* named: a skill's SKILL.md is there, not all beside it
NoImport == [step |-> "idle", left |-> {}, profile |-> {}, name |-> NoName]

(* importPast: whether two imports overlapped, whether one failed, what    *)
(* was chosen although it was present, what was copied to its end, and     *)
(* whether a discovery compared with fewer memories than were stored.      *)
ImportsInit ==
  /\ imported = [name \in Files |-> "absent"]
  /\ noteList = <<>>
  /\ importCalls = [c \in Importers |-> NoImport]
  /\ importsBegun = 0
  /\ importPast = [met |-> FALSE, broke |-> FALSE, again |-> {}, done |-> {}, over |-> FALSE]

(* recall("", 200) gives the newest.                                       *)
Recalled == {noteList[i] : i \in {i \in DOMAIN noteList : i + RecallLimit > Len(noteList)}}

(* Mutant: memories are never found present.                               *)
Present_NoNotes ==
  {name \in Servers : imported[name] = "whole"}
    \union {name \in SkillTrees : imported[name] \in {"named", "whole"}}
    \union {name \in Prompts : imported[name] # "absent"}

(* discover.  A name in the profile, a skill or a prompt that is found, a  *)
(* memory whose text was recalled.  Even a part of a prompt is found.      *)
Present ==
  {name \in Servers : imported[name] = "whole"}
    \union {name \in SkillTrees : imported[name] \in {"named", "whole"}}
    \union {name \in Prompts : imported[name] # "absent"}
    \union Recalled

(* --all takes what is not present; names or ticks take any of them.       *)
Discovers(c) ==
  /\ importCalls[c].step = "idle" /\ importsBegun < MaxImports
  /\ importsBegun' = importsBegun + 1
  /\ \E chosen \in ({Candidates \ Present} \union SUBSET Candidates) \ {{}} :
       /\ importCalls' = [importCalls EXCEPT ![c] = [step |-> "servers", left |-> chosen,
                                                    profile |-> {}, name |-> NoName]]
       /\ importPast' = [importPast EXCEPT
            !.met = @ \/ \E d \in Importers : importCalls[d].step # "idle",
            !.again = @ \union (chosen \intersect Present),
            !.over = @ \/ Len(noteList) > RecallLimit]
  /\ UNCHANGED <<imported, noteList>>

ImportGoes(c, call) == importCalls' = [importCalls EXCEPT ![c] = call]
ImportFails(c) ==
  /\ ImportGoes(c, NoImport)
  /\ importPast' = [importPast EXCEPT !.broke = TRUE]

ImportTo(c, step) == ImportGoes(c, [importCalls[c] EXCEPT !.step = step])
Copied(c, names) ==
  /\ ImportGoes(c, [importCalls[c] EXCEPT !.step = "next", !.left = @ \ names,
                                      !.profile = {}, !.name = NoName])
  /\ importPast' = [importPast EXCEPT !.done = @ \union names]

(* The profile of the servers is loaded, which may fail.                   *)
LoadsServers(c) ==
  LET call == importCalls[c]
  IN  /\ call.step = "servers"
      /\ \/ call.left \intersect Servers = {} /\ ImportTo(c, "next") /\ UNCHANGED importPast
         \/ /\ call.left \intersect Servers # {}
            /\ ImportGoes(c, [call EXCEPT !.step = "profile",
                                          !.profile = {name \in Servers : imported[name] = "whole"}])
            /\ UNCHANGED importPast
         \/ ImportFails(c)
      /\ UNCHANGED <<imported, noteList, importsBegun>>

(* What was loaded is saved with all the chosen servers, over what others  *)
(* saved meanwhile, or it is refused or not saved.                         *)
SavesServers(c) ==
  LET servers == importCalls[c].left \intersect Servers
      saved == importCalls[c].profile \union servers
  IN  /\ importCalls[c].step = "profile"
      /\ \/ /\ imported' = [name \in Files |->
                 IF name \notin Servers THEN imported[name]
                 ELSE IF name \in saved THEN "whole" ELSE "absent"]
            /\ Copied(c, servers)
         \/ ImportFails(c) /\ UNCHANGED imported
      /\ UNCHANGED <<noteList, importsBegun>>

(* What is chosen keeps the order of discovery: skills, prompts, memories. *)
Due(left) ==
  IF left \intersect SkillTrees # {} THEN left \intersect SkillTrees
  ELSE IF left \intersect Prompts # {} THEN left \intersect Prompts
  ELSE left \intersect Notes

(* A skill's tree is copied file by file over what is there, and a prompt  *)
(* over the one of its name: while this goes on, and when it stops in the  *)
(* middle, only a part is there.                                           *)
BegunMarks(name) ==
  IF name \in Prompts THEN {"part"}
  ELSE IF imported[name] \in {"named", "whole"} THEN {"named"} ELSE {"part", "named"}

CopyBegins(c) ==
  /\ importCalls[c].step = "next"
  /\ \E name \in Due(importCalls[c].left) \ Notes :
       /\ \E mark \in BegunMarks(name) : imported' = [imported EXCEPT ![name] = mark]
       /\ ImportGoes(c, [importCalls[c] EXCEPT !.step = "copies", !.name = name])
  /\ UNCHANGED <<noteList, importsBegun, importPast>>

CopyEnds(c) ==
  /\ importCalls[c].step = "copies"
  /\ imported' = [imported EXCEPT ![importCalls[c].name] = "whole"]
  /\ Copied(c, {importCalls[c].name})
  /\ UNCHANGED <<noteList, importsBegun>>

(* The source or the destination cannot be read or written, or there are   *)
(* too many files.                                                         *)
CopyFails(c) ==
  /\ \/ importCalls[c].step = "copies"
     \/ importCalls[c].step = "next" /\ Due(importCalls[c].left) \ Notes # {}
  /\ ImportFails(c)
  /\ UNCHANGED <<imported, noteList, importsBegun>>

(* A memory is stored under a fresh id whatever is stored already.         *)
StoresNote(c) ==
  LET call == importCalls[c]
  IN  /\ call.step = "next"
      /\ \E note \in Due(call.left) \intersect Notes :
           \/ /\ noteList' = Append(noteList, note)
              /\ ImportGoes(c, [call EXCEPT !.left = @ \ {note}])
              /\ UNCHANGED importPast
           \/ ImportFails(c) /\ UNCHANGED noteList
      /\ UNCHANGED <<imported, importsBegun>>

ImportEnds(c) ==
  /\ importCalls[c].step = "next" /\ importCalls[c].left = {}
  /\ ImportGoes(c, NoImport)
  /\ UNCHANGED <<imported, noteList, importsBegun, importPast>>

ImportsNext ==
  \E c \in Importers :
    \/ Discovers(c) \/ LoadsServers(c) \/ SavesServers(c) \/ CopyBegins(c) \/ CopyEnds(c)
    \/ CopyFails(c) \/ StoresNote(c) \/ ImportEnds(c)

ImportsSpec == ImportsInit /\ [][ImportsNext]_importVars
-----------------------------------------------------------------------------
ImportsTypeOK ==
  /\ imported \in [Files -> Marks]
  /\ noteList \in Seq(Notes)
  /\ importsBegun \in 0 .. MaxImports

(* An import stores a memory a second time only when it was chosen although*)
(* it was marked as present, when two imports overlapped, or when more     *)
(* memories are stored than discovery compares with.  Unless an import     *)
(* failed, what discovery calls present is there as a whole or being       *)
(* copied.  And a server, skill or prompt that was imported is kept: it    *)
(* stays there as a whole until somebody chooses it again although it is   *)
(* marked as present, or two imports overlap.                              *)
Times(note) == Cardinality({i \in DOMAIN noteList : noteList[i] = note})
ImportOnce ==
  /\ \A note \in Notes : Times(note) > 1 => note \in importPast.again \/ importPast.met \/ importPast.over
  /\ ~importPast.broke => \A name \in Present \intersect Files :
       imported[name] = "whole" \/ \E c \in Importers : importCalls[c].name = name
  /\ ~importPast.met => \A name \in importPast.done :
       imported[name] = "whole" \/ name \in importPast.again

(* README.md:376: what is present is left unticked, "so importing twice    *)
(* changes nothing": one import after the other stores a memory twice only *)
(* when somebody chose it although it was marked.                          *)
ImportingTwice ==
  \A note \in Notes : Times(note) > 1 => note \in importPast.again \/ importPast.met
=============================================================================

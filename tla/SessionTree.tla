---------------------------- MODULE SessionTree ----------------------------
(***************************************************************************)
(* A session: the tree of messages, the cursor that names its active path, *)
(* and the summaries that stand for the start of a path in what the model  *)
(* is sent (session.rs, agent/context.rs).  The tree is grown by runs of   *)
(* the agent, and between runs a person moves the cursor.                  *)
(*                                                                         *)
(* A node is named by its place among the nodes; 0 is no node.  A node's   *)
(* parent never changes, so each keeps the path from its root to itself:   *)
(* what walking the parents back from it finds (active_nodes).             *)
(***************************************************************************)
EXTENDS Integers, Sequences

CONSTANTS
  Preserve,     \* RunOptions.preserve_messages
  MaxCalls,     \* bound of the model: tool calls in one reply
  MaxNodes,     \* bound of the model: messages in the session
  MaxSummaries  \* bound of the model: compactions

(* RunOptions::validate. *)
ASSUME PreserveAssumption == Preserve \in Nat /\ Preserve >= 2
ASSUME BoundsAssumption == MaxCalls \in Nat /\ MaxNodes \in Nat /\ MaxSummaries \in Nat

VARIABLES
  nodes,        \* Session.nodes, in the order they were appended
  cursor,       \* Session.cursor
  summaries,    \* Session.summaries, in the order they were recorded
  phase,        \* "idle", or what the run does next: "ask" or "results"
  careful       \* whether the person only moves the cursor to messages with
                \* no call left unanswered; the code takes any message

vars == <<nodes, cursor, summaries, phase, careful>>

Roles == {"user", "assistant", "system", "tool"}

(* "owed" is how many calls still lack a result once the message is there. *)
Node == [role : Roles, owed : 0 .. MaxCalls, path : Seq(Nat)]

(* "covers" is what a summary was made from (history): the messages it was *)
(* given, with an earlier summary standing for those it covered.           *)
Summary == [cursor : Nat, covers : Seq(Nat)]

(* active_nodes. *)
PathTo(n) == IF n = 0 THEN <<>> ELSE nodes[n].path
Path == PathTo(cursor)
Role(n) == nodes[n].role
Owed == IF cursor = 0 THEN 0 ELSE nodes[cursor].owed

Init == nodes = <<>> /\ cursor = 0 /\ summaries = <<>> /\ phase = "idle"
        /\ careful \in BOOLEAN

(* Session::append: a child of the cursor, and the cursor moves to it.     *)
AppendMessage(role, owed) ==
  /\ Len(nodes) < MaxNodes
  /\ nodes' = Append(nodes, [role |-> role, owed |-> owed,
                             path |-> Append(Path, Len(nodes) + 1)])
  /\ cursor' = Len(nodes) + 1

-----------------------------------------------------------------------------
(* What the next request carries.                                          *)

(* since_summary: the last summary recorded at a node of the path.         *)
OnPath(s) == \E i \in DOMAIN Path : Path[i] = summaries[s].cursor
Latest ==
  IF \E s \in DOMAIN summaries : OnPath(s)
  THEN CHOOSE s \in DOMAIN summaries :
         OnPath(s) /\ \A t \in DOMAIN summaries : OnPath(t) => t <= s
  ELSE 0

(* How many messages of the path the summary stands for; the mutant reads  *)
(* its cursor as the first message kept.                                   *)
Start_AtCursor ==
  IF Latest = 0 THEN 0
  ELSE (CHOOSE i \in DOMAIN Path : Path[i] = summaries[Latest].cursor) - 1

Start ==
  IF Latest = 0 THEN 0
  ELSE CHOOSE i \in DOMAIN Path : Path[i] = summaries[Latest].cursor

Covered == IF Latest = 0 THEN <<>> ELSE summaries[Latest].covers
Kept == SubSeq(Path, Start + 1, Len(Path))

(* context: the messages kept that are not the system's, who speaks first  *)
(* in them, and the role of the message the summary becomes; the mutant    *)
(* never makes it the user's.                                              *)
Spoken == {i \in DOMAIN Kept : Role(Kept[i]) # "system"}
Opening == IF Spoken = {} THEN "none"
           ELSE Role(Kept[CHOOSE i \in Spoken : \A j \in Spoken : i <= j])
SummaryRole_System == "system"
SummaryRole == IF Opening \in {"none", "user"} THEN "system" ELSE "user"

(* Mutant of Boundary: any message.                                        *)
Boundary_Anywhere(i) == TRUE

(* compaction_input: the kept tail opens at a user message, or at a reply  *)
(* straight after a round of results.                                      *)
Boundary(i) ==
  \/ Role(Path[i]) = "user"
  \/ Role(Path[i]) = "assistant" /\ Role(Path[i - 1]) = "tool"

(* How many messages of the path are archived: the most that leaves the    *)
(* last Preserve ones and opens the tail at a boundary.  The mutant is one  *)
(* off.                                                                    *)
Cuts_OneMore == {k \in Start + 1 .. Len(Path) - Preserve + 1 :
                   k < Len(Path) /\ Boundary(k + 1)}
Cuts == {k \in Start + 1 .. Len(Path) - Preserve : Boundary(k + 1)}
Keep == CHOOSE k \in Cuts : \A j \in Cuts : j <= k

(* What the summary is made from; the mutant leaves the last summary out.  *)
Archived_TailOnly == SubSeq(Path, Start + 1, Keep)
Archived == Covered \o SubSeq(Path, Start + 1, Keep)

-----------------------------------------------------------------------------
(* A run of the agent.                                                     *)

(* run_turn appends the prompt where the cursor is.                        *)
Prompt ==
  /\ phase = "idle"
  /\ AppendMessage("user", 0)
  /\ phase' = "ask"
  /\ UNCHANGED summaries

(* compact, with or without the memory nudge after the summary.            *)
Compact ==
  /\ phase = "ask"
  /\ Cuts # {}
  /\ Len(summaries) < MaxSummaries
  /\ summaries' = Append(summaries, [cursor |-> Path[Keep], covers |-> Archived])
  /\ \/ UNCHANGED <<nodes, cursor>>
     \/ AppendMessage("system", 0)
  /\ phase' = "reply"

Reply(n) ==
  /\ phase \in {"ask", "reply"}
  /\ AppendMessage("assistant", n)
  /\ phase' = IF n = 0 THEN "drain" ELSE "results"
  /\ UNCHANGED summaries

(* One result, of a call that ran or was refused, cut short or never ran.  *)
Result ==
  /\ phase = "results"
  /\ AppendMessage("tool", Owed - 1)
  /\ phase' = IF Owed = 1 THEN "drain" ELSE "results"
  /\ UNCHANGED summaries

(* A steering message joins the conversation.                              *)
Steer ==
  /\ phase = "drain"
  /\ AppendMessage("user", 0)
  /\ UNCHANGED <<summaries, phase>>

(* The step machine asks again unless a final reply was left alone.        *)
AskAgain ==
  /\ phase = "drain"
  /\ Role(cursor) # "assistant"
  /\ phase' = "ask"
  /\ UNCHANGED <<nodes, cursor, summaries>>

(* The run ends: a final reply, a pause, an error or a cancel, when no     *)
(* call is owed a result (AgentRun's Transcript).                          *)
RunEnds ==
  /\ phase \in {"ask", "reply", "drain"}
  /\ phase' = "idle"
  /\ UNCHANGED <<nodes, cursor, summaries>>

-----------------------------------------------------------------------------
(* /checkout and resume --at: any node of the session.                     *)
Checkout(n) ==
  /\ phase = "idle"
  /\ careful => nodes[n].owed = 0
  /\ cursor' = n
  /\ UNCHANGED <<nodes, summaries, phase>>

(* rewind: back to before the last prompt of the active path.              *)
Rewind ==
  /\ phase = "idle"
  /\ \E i \in DOMAIN Path :
       /\ Role(Path[i]) = "user"
       /\ \A j \in i + 1 .. Len(Path) : Role(Path[j]) # "user"
       /\ cursor' = IF i = 1 THEN 0 ELSE Path[i - 1]
  /\ UNCHANGED <<nodes, summaries, phase>>

Step ==
  \/ Prompt \/ Compact \/ Result \/ Steer \/ AskAgain \/ RunEnds \/ Rewind
  \/ (\E n \in 0 .. MaxCalls : Reply(n))
  \/ (\E n \in DOMAIN nodes : Checkout(n))

Next == Step /\ UNCHANGED careful

Spec == Init /\ [][Next]_vars
-----------------------------------------------------------------------------
(* Types: the cursor names a node, and a node's path ends in itself.       *)
TypeOK ==
  /\ nodes \in Seq(Node)
  /\ cursor \in 0 .. Len(nodes)
  /\ summaries \in Seq(Summary)
  /\ phase \in {"idle", "ask", "reply", "results", "drain"}

(* Each summary stands for every message of the path up to its cursor,     *)
(* once and in order, and for nothing of another branch: a summary made    *)
(* after a rewind never speaks of what was abandoned.                      *)
SummariesCoverTheirPath ==
  \A s \in DOMAIN summaries : summaries[s].covers = PathTo(summaries[s].cursor)

(* What the model is sent is the active path: the messages the summary     *)
(* stands for, and the rest of them as they are.                           *)
ContextIsThePath == Covered \o Kept = Path

(* A provider wants a user turn first: the summary is that turn when the   *)
(* tail opens in the middle of one.                                        *)
OpensWithUser ==
  phase \in {"ask", "reply"} =>
    Opening = "user" \/ (Latest # 0 /\ SummaryRole = "user")

(* Compaction keeps the last messages as they are.                         *)
RecentMessagesStay ==
  [][summaries' # summaries => Len(Kept') >= Preserve]_vars

(* "a call is never kept without its result, nor a result without its      *)
(* call" (compaction_input's comment, src/session.rs): a request after a   *)
(* compaction opens with no orphaned result, and every call in it is       *)
(* answered before anything else is said.                                  *)
CallsKeepTheirResults ==
  phase = "ask" /\ Latest # 0 =>
    /\ Kept # <<>> => Role(Kept[1]) # "tool"
    /\ \A i \in 1 .. Len(Kept) - 1 :
         nodes[Kept[i]].owed > 0 => Role(Kept[i + 1]) = "tool"

(* Compaction keeps calls and results together, wherever it cuts and       *)
(* whatever branches are resumed, as long as nobody moves the cursor into  *)
(* the middle of a round of results.                                       *)
KeptIsWhole == careful => CallsKeepTheirResults
=============================================================================

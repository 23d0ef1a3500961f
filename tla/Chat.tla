-------------------------------- MODULE Chat --------------------------------
(***************************************************************************)
(* The chat on the terminal (run_chat_inner) and the loop that opens it    *)
(* again (interactive): who holds the session and the agent, the draft and *)
(* the steering a person types, the run that goes off with the session in  *)
(* a task of its own, the events it sends back, and the ways a chat ends.  *)
(*                                                                         *)
(* A session is its id and how many turns it holds.  What a person types   *)
(* is a text with a number of its own; a draft, and a steering message     *)
(* made of one, is a set of texts.  A file that was written can be read.   *)
(***************************************************************************)
EXTENDS Naturals, Sequences, FiniteSets

CONSTANTS
  MaxTexts,     \* bound of the model: texts typed
  MaxTurns,     \* bound of the model: turns of one session
  MaxSessions,  \* bound of the model: sessions made
  Capacity      \* MAX_STEERING_MESSAGES: what the run's inbox holds

ASSUME ChatBoundsAssumption ==
  /\ MaxTexts \in Nat /\ MaxTurns \in Nat
  /\ MaxSessions \in Nat \ {0} /\ Capacity \in Nat \ {0}

VARIABLES
  phase,        \* "chat", "handed" over to interactive, or how it all ended
  held,         \* the session, while the loop has it
  handed,       \* ChatOutcome.session
  again,        \* whether interactive opens the chat again
  agent,        \* "here", with the "run" or "gone"
  task,         \* the run's task: "none", "running", "returned", "panicked"
  runSession,   \* the session in the task
  told,         \* the run's controller was told to cancel
  cancelled,    \* ChatState.cancelled
  stopping,     \* the host has asked the chat to stop
  currentId,    \* current_id
  inbox,        \* the run's steering queue
  events,       \* events on their way to the loop
  draft,        \* the prompt line
  steers,       \* ChatState.steers
  said,         \* texts the conversation took or the screen shows, or let go of
  typed,        \* how many texts were typed
  ids,          \* how many sessions there have been
  disk          \* the turns of every session that was saved

typing == <<inbox, events, draft, steers, said, typed>>
flags == <<told, cancelled, stopping>>
chatVars == <<phase, held, handed, again, agent, task, runSession, flags, currentId,
              typing, ids, disk>>

SessionIds == 1 .. MaxSessions
ChatSessions == [id : 0 .. MaxSessions, turns : 0 .. MaxTurns]
NoSession == [id |-> 0, turns |-> 0]
Texts == 0 .. MaxTexts      \* 0 is a prompt that a rewind brought back

busy == task # "none"

Begins(one) ==
  /\ phase = "chat" /\ held = one /\ currentId = one.id
  /\ handed = NoSession /\ again = FALSE /\ agent = "here"
  /\ task = "none" /\ runSession = NoSession
  /\ told = FALSE /\ cancelled = FALSE /\ stopping = FALSE
  /\ inbox = <<>> /\ events = <<>> /\ draft = {} /\ steers = <<>>
  /\ said = {} /\ typed = 0 /\ ids = 1

ChatInit ==
  /\ Begins([id |-> 1, turns |-> 0])
  /\ disk \in {<<>>, <<0>>}       \* new, or one that was opened

Saves(one) ==
  disk' = [id \in DOMAIN disk \cup {one.id} |->
             IF id = one.id THEN one.turns ELSE disk[id]]

(* What the store has of the current session, or a session with nothing.   *)
IsReloaded(one) ==
  IF currentId \in DOMAIN disk
  THEN one = [id |-> currentId, turns |-> disk[currentId]] /\ UNCHANGED ids
  ELSE /\ ids < MaxSessions
       /\ one = [id |-> ids + 1, turns |-> 0]
       /\ ids' = ids + 1

Hands(one, reopens) ==
  /\ phase' = "handed" /\ handed' = one /\ again' = reopens
  /\ held' = NoSession
  /\ UNCHANGED <<runSession, flags, currentId, typing, disk>>

(* -- typing --------------------------------------------------------------*)

Types ==
  /\ phase = "chat" /\ typed < MaxTexts
  /\ typed' = typed + 1
  /\ draft' = draft \cup {typed + 1}
  /\ UNCHANGED <<phase, held, handed, again, agent, task, runSession, flags, currentId,
                 inbox, events, steers, said, ids, disk>>

(* A person empties the line.                                              *)
ClearsLine ==
  /\ phase = "chat" /\ draft # {}
  /\ draft' = {} /\ said' = said \cup draft
  /\ UNCHANGED <<phase, held, handed, again, agent, task, runSession, flags, currentId,
                 inbox, events, steers, typed, ids, disk>>

(* Escape twice: the session steps back and its prompt is in the line.     *)
Rewinds ==
  /\ phase = "chat" /\ ~busy /\ held.turns > 0
  /\ draft' = {0} /\ said' = said \cup draft
  /\ UNCHANGED <<phase, held, handed, again, agent, task, runSession, flags, currentId,
                 inbox, events, steers, typed, ids, disk>>

(* -- a run ---------------------------------------------------------------*)

(* The loop lets go of the agent and the session until the task is over.   *)
ChatPrompts ==
  /\ phase = "chat" /\ ~busy /\ draft # {} /\ agent = "here"
  /\ task' = "running" /\ runSession' = held /\ held' = NoSession
  /\ agent' = "run" /\ told' = FALSE /\ cancelled' = FALSE
  /\ inbox' = <<>> /\ draft' = {} /\ said' = said \cup draft
  /\ UNCHANGED <<phase, handed, again, stopping, currentId, events, steers, typed, ids,
                 disk>>

(* An image that cannot be read: the prompt is on the screen and nowhere   *)
(* else.  One that cannot be expanded goes back in the line.               *)
PromptFails ==
  /\ phase = "chat" /\ ~busy /\ draft # {}
  /\ draft' = {} /\ said' = said \cup draft
  /\ UNCHANGED <<phase, held, handed, again, agent, task, runSession, flags, currentId,
                 inbox, events, steers, typed, ids, disk>>

(* With no agent, which no provider could be made for, a prompt panics.    *)
PromptsNobody ==
  /\ phase = "chat" /\ ~busy /\ draft # {} /\ agent = "gone"
  /\ phase' = "panicked"
  /\ UNCHANGED <<held, handed, again, agent, task, runSession, flags, currentId, typing,
                 ids, disk>>

(* The line is queued for the run, or stays in the line.                   *)
Steers ==
  /\ phase = "chat" /\ busy /\ draft # {}
  /\ task = "running" /\ ~told /\ Len(inbox) < Capacity
  /\ inbox' = Append(inbox, draft) /\ steers' = Append(steers, draft) /\ draft' = {}
  /\ UNCHANGED <<phase, held, handed, again, agent, task, runSession, flags, currentId,
                 events, said, typed, ids, disk>>

RunTakesUp ==
  /\ task = "running" /\ inbox # <<>>
  /\ inbox' = Tail(inbox)
  /\ events' = Append(events, [what |-> "steering", text |-> Head(inbox)])
  /\ said' = said \cup Head(inbox)
  /\ UNCHANGED <<phase, held, handed, again, agent, task, runSession, flags, currentId,
                 draft, steers, typed, ids, disk>>

(* The run is over, with a turn more; one that was told to cancel may have *)
(* ended before it heard.                                                  *)
RunGoesBack ==
  /\ task = "running" /\ runSession.turns < MaxTurns
  /\ task' = "returned" /\ runSession' = [runSession EXCEPT !.turns = @ + 1]
  /\ \/ UNCHANGED events
     \/ told /\ events' = Append(events, [what |-> "cancelled", text |-> {}])
  /\ UNCHANGED <<phase, held, handed, again, agent, flags, currentId, inbox, draft, steers,
                 said, typed, ids, disk>>

RunPanics ==
  /\ task = "running"
  /\ task' = "panicked"
  /\ UNCHANGED <<phase, held, handed, again, agent, runSession, flags, currentId, typing,
                 ids, disk>>

(* -- the loop ------------------------------------------------------------*)

IsSteering(event) == event.what = "steering"

(* The steering that is left once the events under way are applied: each   *)
(* takes away its own message, and they come in the order of the queue.    *)
Heard == Cardinality({i \in DOMAIN events : IsSteering(events[i])})
StillQueued == SubSeq(steers, Heard + 1, Len(steers))

(* The queue without the first message that reads like this one.           *)
WithoutFirst(queue, message) ==
  LET same == {i \in DOMAIN queue : queue[i] = message}
      first == CHOOSE i \in same : \A j \in same : i <= j
  IN IF same = {} THEN queue
     ELSE SubSeq(queue, 1, first - 1) \o SubSeq(queue, first + 1, Len(queue))

AppliesEvent ==
  /\ phase = "chat" /\ events # <<>>
  /\ events' = Tail(events)
  /\ IF IsSteering(Head(events))
     THEN /\ steers' = WithoutFirst(steers, Head(events).text)
          /\ UNCHANGED cancelled
     ELSE cancelled' = TRUE /\ UNCHANGED steers
  /\ UNCHANGED <<phase, held, handed, again, agent, task, runSession, told, stopping,
                 currentId, inbox, draft, said, typed, ids, disk>>

finish_run_DropsSteering ==
  /\ draft' = draft /\ steers' = <<>> /\ events' = <<>> /\ inbox' = <<>>
  /\ cancelled' = FALSE /\ told' = FALSE /\ task' = "none"
  /\ UNCHANGED <<said, typed>>

(* Events still under way are applied first; steering nobody took up goes  *)
(* back in the line, before what stands there.                             *)
finish_run ==
  /\ draft' = draft \cup UNION {StillQueued[i] : i \in DOMAIN StillQueued}
  /\ steers' = <<>> /\ events' = <<>> /\ inbox' = <<>>
  /\ cancelled' = FALSE /\ told' = FALSE /\ task' = "none"
  /\ UNCHANGED <<said, typed>>

(* Wake::Finished: the turn is held first and saved then; a disk that does *)
(* not take it costs a line on the screen.                                 *)
RunIsBack ==
  /\ phase = "chat" /\ task = "returned"
  /\ agent' = "here" /\ currentId' = runSession.id
  /\ Saves(runSession) \/ UNCHANGED disk
  /\ finish_run
  /\ IF stopping
     THEN /\ phase' = "handed" /\ handed' = runSession /\ again' = FALSE
          /\ UNCHANGED held
     ELSE held' = runSession /\ UNCHANGED <<phase, handed, again>>
  /\ UNCHANGED <<runSession, stopping, ids>>

(* A task that did not return took both along: the last save is what is    *)
(* left, and an agent is made anew, or cannot be.                          *)
RunIsLost ==
  /\ phase = "chat" /\ task = "panicked"
  /\ IsReloaded(held')
  /\ agent' \in {"here", "gone"}
  /\ finish_run
  /\ UNCHANGED <<phase, handed, again, runSession, stopping, currentId, disk>>

(* Escape and /cancel.                                                     *)
TellsToCancel ==
  /\ phase = "chat" /\ busy
  /\ told' = TRUE
  /\ UNCHANGED <<phase, held, handed, again, agent, task, runSession, cancelled, stopping,
                 currentId, typing, ids, disk>>

CtrlC ==
  /\ phase = "chat"
  /\ \/ /\ ~busy /\ Hands(held, FALSE)
        /\ UNCHANGED <<agent, task, ids>>
     \/ /\ busy /\ ~cancelled
        /\ told' = TRUE /\ cancelled' = TRUE
        /\ UNCHANGED <<phase, held, handed, again, agent, task, runSession, stopping,
                       currentId, typing, ids, disk>>
     \/ /\ busy /\ cancelled
        /\ \E one \in ChatSessions : IsReloaded(one) /\ Hands(one, FALSE)
        /\ task' = "none" /\ UNCHANGED agent

(* Control::Stop of the live host.                                         *)
StopAsked ==
  /\ phase = "chat"
  /\ \/ /\ busy
        /\ stopping' = TRUE /\ cancelled' = TRUE /\ told' = TRUE
        /\ UNCHANGED <<phase, held, handed, again, agent, task, runSession, currentId,
                       typing, ids, disk>>
     \/ /\ ~busy /\ Hands(held, FALSE)
        /\ UNCHANGED <<agent, task, ids>>

(* The terminal takes no frame or has no more input.  A run that is out    *)
(* goes on by itself until the program ends.                               *)
TerminalGoes ==
  /\ phase = "chat"
  /\ \/ ~busy /\ Hands(held, FALSE) /\ UNCHANGED ids
     \/ busy /\ \E one \in ChatSessions : IsReloaded(one) /\ Hands(one, FALSE)
  /\ UNCHANGED <<agent, task>>

(* Input that cannot be read, or a host that is gone, ends the chat in an  *)
(* error, and so does a name that cannot be saved.                         *)
ChatFails ==
  /\ phase = "chat"
  /\ phase' = "failed"
  /\ UNCHANGED <<held, handed, again, agent, task, runSession, flags, currentId, typing,
                 ids, disk>>

(* -- commands, while no run is on ----------------------------------------*)

NamesSession ==
  /\ phase = "chat" /\ ~busy
  /\ Saves(held)
  /\ UNCHANGED <<phase, held, handed, again, agent, task, runSession, flags, currentId,
                 typing, ids>>

StartsAnew ==
  /\ phase = "chat" /\ ~busy /\ ids < MaxSessions
  /\ held' = [id |-> ids + 1, turns |-> 0]
  /\ ids' = ids + 1 /\ currentId' = ids + 1
  /\ UNCHANGED <<phase, handed, again, agent, task, runSession, flags, typing, disk>>

(* /permissions and /yeet make the agent anew, or keep what there was.     *)
RebuildsAgent ==
  /\ phase = "chat" /\ ~busy
  /\ agent' = "here"
  /\ UNCHANGED <<phase, held, handed, again, task, runSession, flags, currentId, typing,
                 ids, disk>>

(* /quit, and what interactive does between two chats.                     *)
LeavesChat ==
  /\ phase = "chat" /\ ~busy
  /\ \E reopens \in BOOLEAN : Hands(held, reopens)
  /\ UNCHANGED <<agent, task, ids>>

(* -- interactive ---------------------------------------------------------*)

HandedIsSaved ==
  /\ phase = "handed"
  /\ Saves(handed)
  /\ IF again
     THEN /\ phase' = "chat" /\ held' = handed /\ currentId' = handed.id
          /\ agent' = "here" /\ said' = said \cup draft /\ draft' = {}
          /\ stopping' = FALSE
     ELSE /\ phase' = "closed"
          /\ UNCHANGED <<held, currentId, agent, said, draft, stopping>>
  /\ UNCHANGED <<handed, again, task, runSession, told, cancelled, inbox, events, steers,
                 typed, ids>>

(* The save, the settings or the next chat's agent fails.                  *)
InteractiveFails ==
  /\ phase = "handed"
  /\ phase' = "failed"
  /\ \/ UNCHANGED disk
     \/ again /\ Saves(handed)
  /\ UNCHANGED <<held, handed, again, agent, task, runSession, flags, currentId, typing,
                 ids>>

ChatEnded == phase \in {"closed", "failed", "panicked"} /\ UNCHANGED chatVars

ChatNext ==
  \/ Types \/ ClearsLine \/ Rewinds \/ ChatPrompts \/ PromptFails \/ PromptsNobody \/ Steers
  \/ RunTakesUp \/ RunGoesBack \/ RunPanics \/ AppliesEvent \/ RunIsBack \/ RunIsLost
  \/ TellsToCancel \/ CtrlC \/ StopAsked \/ TerminalGoes \/ ChatFails
  \/ NamesSession \/ StartsAnew \/ RebuildsAgent \/ LeavesChat
  \/ HandedIsSaved \/ InteractiveFails \/ ChatEnded

ChatSpec == ChatInit /\ [][ChatNext]_chatVars

ChatTypeOK ==
  /\ phase \in {"chat", "handed", "closed", "failed", "panicked"}
  /\ {held, handed, runSession} \subseteq ChatSessions
  /\ agent \in {"here", "run", "gone"}
  /\ task \in {"none", "running", "returned", "panicked"}
  /\ {told, cancelled, stopping, again} \subseteq BOOLEAN
  /\ currentId \in SessionIds /\ ids \in SessionIds
  /\ inbox \in Seq(SUBSET Texts) /\ steers \in Seq(SUBSET Texts)
  /\ events \in Seq([what : {"steering", "cancelled"}, text : SUBSET Texts])
  /\ draft \subseteq Texts /\ said \subseteq Texts /\ typed \in 0 .. MaxTexts
  /\ DOMAIN disk \subseteq SessionIds /\ \A id \in DOMAIN disk : disk[id] \in 0 .. MaxTurns

(* While the chat is open, its session is with the loop or with the run,   *)
(* never both and never neither, and so is the agent, unless none could be *)
(* made.                                                                   *)
OneHolder ==
  phase = "chat" =>
    /\ (held # NoSession) <=> ~busy
    /\ (agent = "run") <=> busy

(* The steering on the screen is what the run has taken up and not yet     *)
(* been heard to, and then what is in its inbox, in the order it was       *)
(* typed; and whatever a person typed is in the line, among that steering, *)
(* or was taken.                                                           *)
NothingTypedIsLost ==
  phase = "chat" =>
    /\ (1 .. typed) \subseteq draft \cup said \cup UNION {steers[i] : i \in DOMAIN steers}
    /\ task = "running" => StillQueued = inbox
    /\ ~busy => steers = <<>> /\ events = <<>>

(* The session in the loop, and the one handed over to be saved, are never *)
(* behind the file that a save of theirs replaces; a session handed over   *)
(* in place of one a run has is that one, or a new one, and never another  *)
(* that was saved.                                                         *)
NeverBehindTheFile ==
  /\ phase = "chat" /\ held.id \in DOMAIN disk => held.turns >= disk[held.id]
  /\ phase = "handed" /\ handed.id \in DOMAIN disk => handed.turns >= disk[handed.id]
  /\ phase = "handed" /\ agent = "run" /\ handed.id \in DOMAIN disk =>
       handed.id = runSession.id

(* What the comments at chat.rs:933 and 1046 say: a terminal that goes, or *)
(* a run that does not return, leaves the last save of the conversation.   *)
(* It holds until a run is lost before its session was saved: what is put  *)
(* in its place has an id that current_id does not follow.                 *)
LastSaveIsLeft ==
  phase = "handed" /\ agent = "run" /\ runSession.id \in DOMAIN disk =>
    handed.id = runSession.id

(* What the chat does not lose: chat.rs' loop and app.rs' interactive.     *)
ChatKeeps == OneHolder /\ NothingTypedIsLost /\ NeverBehindTheFile
==============================================================================

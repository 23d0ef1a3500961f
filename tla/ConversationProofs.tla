------------------------- MODULE ConversationProofs -------------------------
(***************************************************************************)
(* Proofs about what the program exchanges with others: what a person types*)
(* in the chat and the session it is for, the questions a tool asks, the   *)
(* plan on the screen, a provider's reply, the requests of an RPC client,  *)
(* and the calls to MCP servers.                                           *)
(***************************************************************************)
EXTENDS Chat, Approvals, Plan, Providers, RpcServer, McpHub, McpSse, SequenceTheorems,
        FiniteSetTheorems, TLAPS

(* The chat.                                                               *)
ChatEvents == [what : {"steering", "cancelled"}, text : SUBSET Texts]

ChatTyped ==
  /\ phase \in {"chat", "handed", "closed", "failed", "panicked"}
  /\ held \in ChatSessions /\ handed \in ChatSessions /\ runSession \in ChatSessions
  /\ agent \in {"here", "run", "gone"}
  /\ task \in {"none", "running", "returned", "panicked"}
  /\ told \in BOOLEAN /\ cancelled \in BOOLEAN /\ stopping \in BOOLEAN /\ again \in BOOLEAN
  /\ currentId \in SessionIds /\ ids \in SessionIds
  /\ inbox \in Seq(SUBSET Texts) /\ steers \in Seq(SUBSET Texts)
  /\ events \in Seq(ChatEvents)
  /\ draft \subseteq Texts /\ said \subseteq Texts /\ typed \in 0 .. MaxTexts
  /\ DOMAIN disk \subseteq 1 .. ids /\ \A id \in DOMAIN disk : disk[id] \in 0 .. MaxTurns

(* What a save of this session would replace is not ahead of it.           *)
Ahead(one) ==
  /\ one.id \in 1 .. ids
  /\ one.id \in DOMAIN disk => one.turns >= disk[one.id]

(* Who holds the session.  An id that current_id does not follow was never *)
(* saved.                                                                  *)
SessionsHeld ==
  /\ phase = "chat" /\ ~busy =>
       /\ Ahead(held) /\ agent # "run"
       /\ currentId = held.id \/ currentId \notin DOMAIN disk
  /\ phase = "chat" /\ busy =>
       /\ held = NoSession /\ agent = "run" /\ Ahead(runSession)
       /\ currentId = runSession.id \/ currentId \notin DOMAIN disk
  /\ phase = "handed" =>
       /\ Ahead(handed)
       /\ again => ~busy
       /\ agent = "run" => handed.id = runSession.id \/ handed.id \notin DOMAIN disk

(* How many of the events under way are steering: all but a last one that  *)
(* says the run was cancelled.                                             *)
HeardTo ==
  IF events # <<>> /\ events[Len(events)].what = "cancelled" THEN Len(events) - 1 ELSE Len(events)

Quiet == inbox = <<>> /\ events = <<>> /\ steers = <<>>

(* The steering on the screen is what the events under way tell of, which  *)
(* the conversation has, and then, of a run that goes on, its inbox.       *)
SteeringKept ==
  /\ phase = "chat" =>
       /\ \A n \in 1 .. typed : n \in draft \/ n \in said \/ \E i \in DOMAIN steers : n \in steers[i]
       /\ ~busy => Quiet
       /\ HeardTo <= Len(steers)
       /\ \A i \in 1 .. HeardTo :
            /\ events[i].what = "steering" /\ steers[i] = events[i].text
            /\ events[i].text \subseteq said
       /\ task = "running" =>
            /\ HeardTo = Len(events) /\ Len(steers) = HeardTo + Len(inbox)
            /\ \A i \in 1 .. Len(inbox) : steers[HeardTo + i] = inbox[i]
  /\ phase = "handed" /\ again => Quiet /\ \A n \in 1 .. typed : n \in draft \/ n \in said

ChatInv == ChatTyped /\ SessionsHeld /\ SteeringKept

LEMMA QueueEnds ==
  ASSUME NEW S, NEW queue \in Seq(S), queue # <<>>
  PROVE  /\ Head(queue) = queue[1] /\ Head(queue) \in S
         /\ Len(queue) \in Nat \ {0} /\ Len(Tail(queue)) = Len(queue) - 1
         /\ Tail(queue) \in Seq(S)
         /\ \A i \in 1 .. Len(queue) - 1 : Tail(queue)[i] = queue[i + 1]
OBVIOUS

LEMMA QueueAppends ==
  ASSUME NEW S, NEW queue \in Seq(S), NEW one \in S
  PROVE  /\ Append(queue, one) \in Seq(S) /\ Len(queue) \in Nat
         /\ Len(Append(queue, one)) = Len(queue) + 1 /\ Append(queue, one) # <<>>
         /\ \A i \in 1 .. Len(queue) : Append(queue, one)[i] = queue[i]
         /\ Append(queue, one)[Len(queue) + 1] = one
OBVIOUS

LEMMA HeardToFacts ==
  ASSUME ChatTyped
  PROVE  /\ HeardTo \in 0 .. Len(events) /\ Len(events) \in Nat /\ HeardTo \in Nat
         /\ Len(steers) \in Nat /\ Len(inbox) \in Nat
         /\ events = <<>> => HeardTo = 0
<1>1. events \in Seq(ChatEvents) /\ steers \in Seq(SUBSET Texts) /\ inbox \in Seq(SUBSET Texts)
  BY DEF ChatTyped
<1>2. Len(events) \in Nat /\ Len(steers) \in Nat /\ Len(inbox) \in Nat
  BY <1>1
<1>3. events # <<>> => Len(events) >= 1
  BY <1>1
<1>4. events = <<>> => Len(events) = 0
  OBVIOUS
<1> QED
  BY <1>2, <1>3, <1>4 DEF HeardTo

LEMMA SavesFacts ==
  ASSUME NEW one, Saves(one)
  PROVE  /\ DOMAIN disk' = DOMAIN disk \union {one.id} /\ disk'[one.id] = one.turns
         /\ \A id \in DOMAIN disk : id # one.id => disk'[id] = disk[id]
BY DEF Saves

LEMMA SessionFacts ==
  /\ SessionIds = 1 .. MaxSessions /\ MaxSessions \in Nat \ {0} /\ MaxTurns \in Nat
  /\ NoSession \in ChatSessions /\ NoSession.id = 0 /\ NoSession.turns = 0
  /\ \A one \in ChatSessions : one.id \in 0 .. MaxSessions /\ one.turns \in 0 .. MaxTurns
BY ChatBoundsAssumption DEF SessionIds, NoSession, ChatSessions

LEMMA ChatInitInv == ChatInit => ChatInv
<1> SUFFICES ASSUME ChatInit
             PROVE  ChatInv
  OBVIOUS
<1> USE ChatBoundsAssumption
<1>0. /\ phase = "chat" /\ held = [id |-> 1, turns |-> 0] /\ currentId = held.id
      /\ handed = NoSession /\ again = FALSE /\ agent = "here"
      /\ task = "none" /\ runSession = NoSession
      /\ told = FALSE /\ cancelled = FALSE /\ stopping = FALSE
      /\ inbox = <<>> /\ events = <<>> /\ draft = {} /\ steers = <<>>
      /\ said = {} /\ typed = 0 /\ ids = 1
  BY DEF ChatInit, Begins
<1>1. DOMAIN disk \subseteq 1 .. 1 /\ \A id \in DOMAIN disk : disk[id] = 0
  BY DEF ChatInit
<1>2. held.id = 1 /\ held.turns = 0 /\ held \in ChatSessions
  BY <1>0 DEF ChatSessions
<1>3. ChatTyped
  <2>1. inbox \in Seq(SUBSET Texts) /\ steers \in Seq(SUBSET Texts) /\ events \in Seq(ChatEvents)
    BY <1>0
  <2>2. currentId \in SessionIds /\ ids \in SessionIds /\ typed \in 0 .. MaxTexts
    BY <1>0, <1>2, SessionFacts
  <2>3. DOMAIN disk \subseteq 1 .. ids /\ \A id \in DOMAIN disk : disk[id] \in 0 .. MaxTurns
    BY <1>0, <1>1
  <2> QED
    BY <1>0, <1>2, <2>1, <2>2, <2>3, SessionFacts DEF ChatTyped
<1>4. SessionsHeld
  BY <1>0, <1>1, <1>2 DEF SessionsHeld, Ahead, busy
<1>5. HeardTo = 0 /\ Len(steers) = 0
  BY <1>0, <1>3, HeardToFacts
<1>6. SteeringKept
  BY <1>0, <1>5 DEF SteeringKept, Quiet, busy
<1> QED
  BY <1>3, <1>4, <1>6 DEF ChatInv

(* The sessions are where they were.                                       *)
LEMMA SessionsStay ==
  ASSUME ChatInv, UNCHANGED <<phase, held, handed, again, agent, runSession, currentId, ids, disk>>,
         busy' = busy
  PROVE  SessionsHeld'
BY DEF ChatInv, SessionsHeld, Ahead

(* What is typed is where it was.                                          *)
LEMMA TypingStays ==
  ASSUME ChatInv, UNCHANGED typing, busy' = busy, task' = "running" => task = "running",
         phase' = phase /\ again' = again
  PROVE  SteeringKept'
BY DEF ChatInv, SteeringKept, HeardTo, Quiet, typing

(* The chat is over.                                                       *)
LEMMA ChatIsOver ==
  ASSUME ChatInv, phase' \in {"closed", "failed", "panicked"}
  PROVE  SessionsHeld' /\ SteeringKept'
BY DEF SessionsHeld, SteeringKept

(* Typing, and what happens to the line.                                   *)
LEMMA TypesKeeps == ChatInv /\ Types => ChatInv'
<1> SUFFICES ASSUME ChatInv, Types
             PROVE  ChatInv'
  OBVIOUS
<1>1. ChatTyped'
  <2>1. typed + 1 \in 0 .. MaxTexts /\ draft \union {typed + 1} \subseteq Texts
    BY ChatBoundsAssumption DEF ChatInv, ChatTyped, Types, Texts
  <2> QED
    BY <2>1 DEF ChatInv, ChatTyped, Types, flags
<1>2. SessionsHeld'
  BY SessionsStay DEF Types, busy
<1>3. HeardTo' = HeardTo
  BY DEF Types, HeardTo
<1>4. SteeringKept'
  BY <1>3, ChatBoundsAssumption DEF ChatInv, ChatTyped, SteeringKept, Types, Quiet, busy
<1> QED
  BY <1>1, <1>2, <1>4 DEF ChatInv

LEMMA LineGoes ==
  ASSUME ChatInv, ~busy \/ phase = "chat", said' = said \union draft,
         draft' \in SUBSET Texts,
         UNCHANGED <<phase, held, handed, again, agent, task, runSession, flags, currentId,
                     inbox, events, steers, typed, ids, disk>>
  PROVE  ChatInv'
<1>1. ChatTyped'
  BY DEF ChatInv, ChatTyped, flags
<1>2. SessionsHeld'
  BY SessionsStay DEF busy
<1>3. HeardTo' = HeardTo
  BY DEF HeardTo
<1>4. SteeringKept'
  BY <1>3 DEF ChatInv, SteeringKept, Quiet, busy
<1> QED
  BY <1>1, <1>2, <1>4 DEF ChatInv

LEMMA LinesKeep == ChatInv /\ (ClearsLine \/ Rewinds \/ PromptFails) => ChatInv'
<1>1. {} \in SUBSET Texts /\ {0} \in SUBSET Texts
  BY ChatBoundsAssumption DEF Texts
<1> QED
  BY <1>1, LineGoes DEF ClearsLine, Rewinds, PromptFails, flags

(* A run goes off with the session.                                        *)
LEMMA PromptsKeeps == ChatInv /\ ChatPrompts => ChatInv'
<1> SUFFICES ASSUME ChatInv, ChatPrompts
             PROVE  ChatInv'
  OBVIOUS
<1>1. ChatTyped'
  <2>1. <<>> \in Seq(SUBSET Texts)
    OBVIOUS
  <2> QED
    BY <2>1, SessionFacts DEF ChatInv, ChatTyped, ChatPrompts
<1>2. SessionsHeld'
  BY DEF ChatInv, SessionsHeld, Ahead, ChatPrompts, busy
<1>3. HeardTo' = HeardTo /\ events = <<>> /\ steers = <<>> /\ HeardTo = 0 /\ Len(steers) = 0
  BY HeardToFacts DEF ChatInv, SteeringKept, ChatPrompts, HeardTo, Quiet, busy
<1>4. inbox' = <<>> /\ Len(inbox') = 0 /\ Len(events) = 0 /\ steers' = steers /\ events' = events
  BY <1>3 DEF ChatPrompts
<1>5. SteeringKept'
  BY <1>3, <1>4 DEF ChatInv, SteeringKept, ChatPrompts, busy
<1> QED
  BY <1>1, <1>2, <1>5 DEF ChatInv

(* The line becomes steering.                                              *)
LEMMA SteersKeeps == ChatInv /\ Steers => ChatInv'
<1> SUFFICES ASSUME ChatInv, Steers
             PROVE  ChatInv'
  OBVIOUS
<1>0. inbox \in Seq(SUBSET Texts) /\ steers \in Seq(SUBSET Texts) /\ draft \in SUBSET Texts
  BY DEF ChatInv, ChatTyped
<1> DEFINE box == Append(inbox, draft)
           shows == Append(steers, draft)
<1>1. /\ box \in Seq(SUBSET Texts) /\ Len(inbox) \in Nat /\ Len(box) = Len(inbox) + 1
      /\ \A i \in 1 .. Len(inbox) : box[i] = inbox[i]
      /\ box[Len(inbox) + 1] = draft
  BY <1>0, QueueAppends
<1>2. /\ shows \in Seq(SUBSET Texts) /\ Len(steers) \in Nat /\ Len(shows) = Len(steers) + 1
      /\ \A i \in 1 .. Len(steers) : shows[i] = steers[i]
      /\ shows[Len(steers) + 1] = draft
  BY <1>0, QueueAppends
<1>3. inbox' = box /\ steers' = shows /\ draft' = {} /\ phase = "chat" /\ task = "running"
  BY DEF Steers
<1> HIDE DEF box, shows
<1>4. ChatTyped'
  BY <1>1, <1>2, <1>3 DEF ChatInv, ChatTyped, Steers, flags
<1>5. SessionsHeld'
  BY SessionsStay DEF Steers, busy
<1>6. HeardTo' = HeardTo /\ HeardTo \in Nat /\ HeardTo = Len(events) /\ Len(steers) = HeardTo + Len(inbox)
  BY <1>3, HeardToFacts DEF HeardTo, Steers, ChatInv, SteeringKept
<1>7. \A n \in 1 .. typed : n \in draft' \/ n \in said \/ \E i \in DOMAIN steers' : n \in steers'[i]
  <2> SUFFICES ASSUME NEW n \in 1 .. typed, n \notin said
               PROVE  \E i \in DOMAIN steers' : n \in steers'[i]
    OBVIOUS
  <2>1. DOMAIN steers' = 1 .. Len(steers) + 1 /\ DOMAIN steers = 1 .. Len(steers)
    BY <1>0, <1>2, <1>3
  <2>2. CASE n \in draft
    BY <1>2, <1>3, <2>1, <2>2
  <2>3. CASE \E i \in DOMAIN steers : n \in steers[i]
    BY <1>2, <1>3, <2>1, <2>3
  <2> QED
    BY <1>3, <2>2, <2>3 DEF ChatInv, SteeringKept
<1>8. \A i \in 1 .. HeardTo : /\ events[i].what = "steering" /\ steers'[i] = events[i].text
                              /\ events[i].text \subseteq said
  BY <1>1, <1>2, <1>3, <1>6 DEF ChatInv, SteeringKept
<1>9. \A i \in 1 .. Len(box) : shows[HeardTo + i] = box[i]
  <2> SUFFICES ASSUME NEW i \in 1 .. Len(box)
               PROVE  shows[HeardTo + i] = box[i]
    OBVIOUS
  <2>1. CASE i = Len(inbox) + 1
    BY <1>1, <1>2, <1>6, <2>1
  <2>2. CASE i \in 1 .. Len(inbox)
    <3>1. HeardTo + i \in 1 .. Len(steers)
      BY <1>1, <1>6, <2>2
    <3>2. steers[HeardTo + i] = inbox[i]
      BY <1>3, <2>2 DEF ChatInv, SteeringKept
    <3> QED
      BY <1>1, <1>2, <2>2, <3>1, <3>2
  <2> QED
    BY <1>1, <2>1, <2>2
<1>10. SteeringKept'
  <2>1. /\ Len(steers') = HeardTo' + Len(inbox') /\ HeardTo' <= Len(steers')
        /\ HeardTo' = Len(events')
    <3>1. /\ Len(steers') = Len(steers) + 1 /\ Len(inbox') = Len(inbox) + 1
          /\ Len(steers) \in Nat /\ Len(inbox) \in Nat
      BY <1>1, <1>2, <1>3
    <3>2. events' = events
      BY DEF Steers
    <3> QED
      BY <1>6, <3>1, <3>2
  <2>2. /\ \A i \in 1 .. HeardTo' : /\ events'[i].what = "steering" /\ steers'[i] = events'[i].text
                                    /\ events'[i].text \subseteq said'
        /\ \A i \in 1 .. Len(inbox') : steers'[HeardTo' + i] = inbox'[i]
    <3>1. events' = events /\ said' = said
      BY DEF Steers
    <3> QED
      BY <1>3, <1>6, <1>8, <1>9, <3>1
  <2>3. phase' = "chat" /\ task' = "running" /\ typed' = typed /\ said' = said
    BY <1>3 DEF Steers
  <2> QED
    BY <1>7, <2>1, <2>2, <2>3 DEF SteeringKept, busy
<1> QED
  BY <1>4, <1>5, <1>10 DEF ChatInv

(* The run takes the first of its inbox.                                   *)
LEMMA TakesUpKeeps == ChatInv /\ RunTakesUp => ChatInv'
<1> SUFFICES ASSUME ChatInv, RunTakesUp
             PROVE  ChatInv'
  OBVIOUS
<1> DEFINE event == [what |-> "steering", text |-> Head(inbox)]
           next == Append(events, event)
<1>0. /\ inbox \in Seq(SUBSET Texts) /\ steers \in Seq(SUBSET Texts) /\ inbox # <<>>
      /\ events \in Seq(ChatEvents) /\ task = "running"
  BY DEF ChatInv, ChatTyped, RunTakesUp
<1>1. /\ Head(inbox) = inbox[1] /\ Head(inbox) \in SUBSET Texts
      /\ Len(inbox) \in Nat \ {0} /\ Len(Tail(inbox)) = Len(inbox) - 1
      /\ Tail(inbox) \in Seq(SUBSET Texts)
      /\ \A i \in 1 .. Len(inbox) - 1 : Tail(inbox)[i] = inbox[i + 1]
  BY <1>0, QueueEnds
<1>2. event \in ChatEvents /\ event.what = "steering" /\ event.text = Head(inbox)
  BY <1>1 DEF ChatEvents
<1> HIDE DEF event
<1>3. /\ next \in Seq(ChatEvents) /\ Len(events) \in Nat
      /\ Len(next) = Len(events) + 1 /\ next # <<>>
      /\ \A i \in 1 .. Len(events) : next[i] = events[i]
      /\ next[Len(events) + 1] = event
  BY <1>0, <1>2, QueueAppends
<1>4. /\ inbox' = Tail(inbox) /\ events' = next /\ said' = said \union Head(inbox)
      /\ UNCHANGED <<phase, held, handed, again, agent, task, runSession, flags, currentId,
                     draft, steers, typed, ids, disk>>
  BY DEF RunTakesUp, event
<1> HIDE DEF next
<1>5. ChatTyped'
  BY <1>1, <1>3, <1>4 DEF ChatInv, ChatTyped, flags
<1>6. SessionsHeld'
  BY <1>4, SessionsStay DEF busy
<1>7. HeardTo' = Len(events) + 1 /\ Len(events') = Len(events) + 1
  BY <1>2, <1>3, <1>4 DEF HeardTo
<1>8. ASSUME phase = "chat"
      PROVE  /\ HeardTo = Len(events) /\ Len(steers) = Len(events) + Len(inbox)
             /\ \A i \in 1 .. Len(events) :
                  /\ events[i].what = "steering" /\ steers[i] = events[i].text
                  /\ events[i].text \subseteq said
             /\ \A i \in 1 .. Len(inbox) : steers[Len(events) + i] = inbox[i]
  BY <1>0, <1>8 DEF ChatInv, SteeringKept
<1>9. ASSUME phase = "chat"
      PROVE  /\ \A i \in 1 .. HeardTo' : /\ events'[i].what = "steering" /\ steers[i] = events'[i].text
                                         /\ events'[i].text \subseteq said'
             /\ \A i \in 1 .. Len(inbox') : steers[HeardTo' + i] = inbox'[i]
  <2>1. steers[Len(events) + 1] = inbox[1]
    BY <1>1, <1>8, <1>9
  <2>2. ASSUME NEW i \in 1 .. HeardTo'
        PROVE  /\ events'[i].what = "steering" /\ steers[i] = events'[i].text
               /\ events'[i].text \subseteq said'
    <3>1. CASE i = Len(events) + 1
      BY <1>1, <1>2, <1>3, <1>4, <2>1, <3>1
    <3>2. CASE i \in 1 .. Len(events)
      BY <1>3, <1>4, <1>8, <1>9, <3>2
    <3> QED
      BY <1>3, <1>7, <3>1, <3>2
  <2>3. ASSUME NEW i \in 1 .. Len(inbox')
        PROVE  steers[HeardTo' + i] = inbox'[i]
    <3>1. i \in 1 .. Len(inbox) - 1 /\ i + 1 \in 1 .. Len(inbox) /\ inbox'[i] = inbox[i + 1]
      BY <1>1, <1>4
    <3>2. steers[Len(events) + (i + 1)] = inbox[i + 1]
      BY <1>8, <1>9, <3>1
    <3>3. HeardTo' + i = Len(events) + (i + 1)
      BY <1>3, <1>7, <3>1
    <3> QED
      BY <3>1, <3>2, <3>3
  <2> QED
    BY <2>2, <2>3
<1>10. SteeringKept'
  <2>1. ASSUME phase = "chat"
        PROVE  \A n \in 1 .. typed : n \in draft \/ n \in said' \/ \E i \in DOMAIN steers : n \in steers[i]
    BY <1>4, <2>1 DEF ChatInv, SteeringKept
  <2>2. ASSUME phase = "chat"
        PROVE  Len(steers) = HeardTo' + Len(inbox') /\ HeardTo' <= Len(steers)
    <3>1. Len(steers) = Len(events) + Len(inbox)
      BY <1>8, <2>2
    <3>2. Len(inbox') = Len(inbox) - 1 /\ Len(inbox) \in Nat /\ Len(events) \in Nat
      BY <1>1, <1>3, <1>4
    <3> QED
      BY <1>7, <3>1, <3>2
  <2>3. ~(phase = "handed" /\ again)
    BY <1>0 DEF ChatInv, SessionsHeld, busy
  <2> QED
    BY <1>0, <1>4, <1>7, <1>9, <2>1, <2>2, <2>3 DEF SteeringKept, busy
<1> QED
  BY <1>5, <1>6, <1>10 DEF ChatInv

(* The run is over.                                                        *)
LEMMA GoesBackKeeps == ChatInv /\ RunGoesBack => ChatInv'
<1> SUFFICES ASSUME ChatInv, RunGoesBack
             PROVE  ChatInv'
  OBVIOUS
<1> DEFINE event == [what |-> "cancelled", text |-> {}]
           one == [runSession EXCEPT !.turns = runSession.turns + 1]
<1>0. /\ events \in Seq(ChatEvents) /\ task = "running" /\ runSession \in ChatSessions
      /\ runSession.turns < MaxTurns /\ MaxTurns \in Nat /\ runSession.turns \in 0 .. MaxTurns
  BY SessionFacts DEF ChatInv, ChatTyped, RunGoesBack
<1>1. /\ task' = "returned" /\ runSession' = one
      /\ UNCHANGED <<phase, held, handed, again, agent, flags, currentId, inbox, draft, steers,
                     said, typed, ids, disk>>
  BY DEF RunGoesBack
<1>2. one \in ChatSessions /\ one.id = runSession.id /\ one.turns = runSession.turns + 1
  BY <1>0 DEF ChatSessions
<1> HIDE DEF one
<1>3. event \in ChatEvents /\ event.what = "cancelled"
  BY DEF ChatEvents
<1>4. CASE events' = events
  <2>1. HeardTo' = HeardTo
    BY <1>4 DEF HeardTo
  <2>2. ChatTyped'
    BY <1>1, <1>2, <1>4 DEF ChatInv, ChatTyped, flags
  <2>3. SteeringKept'
    BY <1>0, <1>1, <1>4, <2>1 DEF ChatInv, SteeringKept, Quiet, busy
  <2>4. SessionsHeld'
    BY <1>0, <1>1, <1>2, SessionFacts DEF ChatInv, ChatTyped, SessionsHeld, Ahead, busy
  <2> QED
    BY <2>2, <2>3, <2>4 DEF ChatInv
<1>5. CASE events' = Append(events, event)
  <2> DEFINE next == Append(events, event)
  <2>1. /\ next \in Seq(ChatEvents) /\ Len(events) \in Nat
        /\ Len(next) = Len(events) + 1 /\ next # <<>>
        /\ \A i \in 1 .. Len(events) : next[i] = events[i]
        /\ next[Len(events) + 1] = event
    BY <1>0, <1>3, QueueAppends
  <2>2. events' = next
    BY <1>5
  <2> HIDE DEF next
  <2>3. ChatTyped'
    BY <1>1, <1>2, <2>1, <2>2 DEF ChatInv, ChatTyped, flags
  <2>4. HeardTo' = Len(events)
    BY <1>3, <2>1, <2>2 DEF HeardTo
  <2>5. ~(phase = "handed" /\ again)
    BY <1>0 DEF ChatInv, SessionsHeld, busy
  <2>6. ASSUME phase = "chat"
        PROVE  /\ HeardTo = Len(events) /\ HeardTo <= Len(steers)
               /\ \A i \in 1 .. Len(events) :
                    /\ events[i].what = "steering" /\ steers[i] = events[i].text
                    /\ events[i].text \subseteq said
    BY <1>0, <2>6 DEF ChatInv, SteeringKept
  <2>7. ASSUME phase = "chat"
        PROVE  \A i \in 1 .. HeardTo' :
                 /\ events'[i].what = "steering" /\ steers[i] = events'[i].text
                 /\ events'[i].text \subseteq said
    BY <2>1, <2>2, <2>4, <2>6, <2>7
  <2>8. SteeringKept'
    <3>1. task' = "returned" /\ phase' = phase /\ steers' = steers /\ said' = said /\ again' = again
      BY <1>1
    <3>2. ASSUME phase = "chat"
          PROVE  \A n \in 1 .. typed' : n \in draft' \/ n \in said' \/ \E i \in DOMAIN steers' : n \in steers'[i]
      BY <1>1, <3>2 DEF ChatInv, SteeringKept
    <3> QED
      BY <2>4, <2>5, <2>6, <2>7, <3>1, <3>2 DEF SteeringKept, busy
  <2>9. SessionsHeld'
    BY <1>0, <1>1, <1>2, SessionFacts DEF ChatInv, ChatTyped, SessionsHeld, Ahead, busy
  <2> QED
    BY <2>3, <2>8, <2>9 DEF ChatInv
<1> QED
  BY <1>4, <1>5 DEF RunGoesBack

LEMMA PanicsKeeps == ChatInv /\ RunPanics => ChatInv'
<1> SUFFICES ASSUME ChatInv, RunPanics
             PROVE  ChatInv'
  OBVIOUS
<1>1. ChatTyped'
  BY DEF ChatInv, ChatTyped, RunPanics, flags, typing
<1>2. SessionsHeld'
  BY SessionsStay DEF RunPanics, busy
<1>3. SteeringKept'
  BY TypingStays DEF RunPanics, busy
<1> QED
  BY <1>1, <1>2, <1>3 DEF ChatInv

(* The loop hears of the first event.                                      *)
LEMMA FirstGoes ==
  ASSUME NEW S, NEW queue \in Seq(S), queue # <<>>
  PROVE  WithoutFirst(queue, queue[1]) = Tail(queue)
<1> DEFINE same == {i \in DOMAIN queue : queue[i] = queue[1]}
           first == CHOOSE i \in same : \A j \in same : i <= j
<1>1. 1 \in same /\ \A j \in same : j \in Nat /\ 1 <= j
  OBVIOUS
<1>2. first = 1
  <2>1. first \in same /\ \A j \in same : first <= j
    BY <1>1
  <2> HIDE DEF first
  <2>2. first <= 1 /\ first \in Nat /\ 1 <= first
    BY <1>1, <2>1
  <2> QED
    BY <2>2
<1>3. WithoutFirst(queue, queue[1]) = SubSeq(queue, 1, first - 1) \o SubSeq(queue, first + 1, Len(queue))
  BY <1>1 DEF WithoutFirst
<1> HIDE DEF first
<1>4. SubSeq(queue, 1, first - 1) = <<>> /\ first + 1 = 2
  BY <1>2
<1>5. SubSeq(queue, 2, Len(queue)) \in Seq(S) /\ <<>> \o SubSeq(queue, 2, Len(queue)) = SubSeq(queue, 2, Len(queue))
  OBVIOUS
<1>6. SubSeq(queue, 2, Len(queue)) = Tail(queue)
  OBVIOUS
<1> QED
  BY <1>3, <1>4, <1>5, <1>6

LEMMA AppliesKeeps == ChatInv /\ AppliesEvent => ChatInv'
<1> SUFFICES ASSUME ChatInv, AppliesEvent
             PROVE  ChatInv'
  OBVIOUS
<1>0. /\ inbox \in Seq(SUBSET Texts) /\ steers \in Seq(SUBSET Texts)
      /\ events \in Seq(ChatEvents) /\ events # <<>> /\ phase = "chat" /\ events' = Tail(events)
      /\ UNCHANGED <<phase, held, handed, again, agent, task, runSession, told, stopping,
                     currentId, inbox, draft, said, typed, ids, disk>>
  BY DEF ChatInv, ChatTyped, AppliesEvent
<1>1. /\ Head(events) = events[1] /\ Head(events) \in ChatEvents
      /\ Len(events) \in Nat \ {0} /\ Len(Tail(events)) = Len(events) - 1
      /\ Tail(events) \in Seq(ChatEvents)
      /\ \A i \in 1 .. Len(events) - 1 : Tail(events)[i] = events[i + 1]
  BY <1>0, QueueEnds
<1>2. /\ HeardTo \in 0 .. Len(events) /\ HeardTo \in Nat /\ Len(steers) \in Nat /\ Len(inbox) \in Nat
      /\ HeardTo <= Len(steers)
      /\ \A i \in 1 .. HeardTo : /\ events[i].what = "steering" /\ steers[i] = events[i].text
                                 /\ events[i].text \subseteq said
  BY <1>0, HeardToFacts DEF ChatInv, SteeringKept
<1>3. SessionsHeld'
  BY <1>0, SessionsStay DEF busy
<1>4. busy
  BY <1>0 DEF ChatInv, SteeringKept, Quiet
<1>5. CASE events[1].what = "steering"
  <2>1. HeardTo >= 1
    BY <1>0, <1>1, <1>5 DEF HeardTo
  <2>2. steers # <<>> /\ steers[1] = events[1].text /\ steers[1] \subseteq said
    BY <1>2, <2>1
  <2>3. steers' = Tail(steers) /\ UNCHANGED cancelled
    BY <1>0, <1>1, <1>5, <2>2, FirstGoes DEF AppliesEvent, IsSteering
  <2>4. /\ Len(steers) \in Nat \ {0} /\ Len(Tail(steers)) = Len(steers) - 1
        /\ Tail(steers) \in Seq(SUBSET Texts)
        /\ \A i \in 1 .. Len(steers) - 1 : Tail(steers)[i] = steers[i + 1]
    BY <1>0, <2>2, QueueEnds
  <2>5. ChatTyped'
    BY <1>0, <1>1, <2>3, <2>4 DEF ChatInv, ChatTyped
  <2>6. HeardTo' = HeardTo - 1
    <3>1. CASE Len(events) = 1
      <4>1. events' = <<>> /\ Len(events') = 0
        BY <1>0, <1>1, <3>1
      <4>2. HeardTo = 1
        BY <1>0, <1>5, <3>1 DEF HeardTo
      <4> QED
        BY <4>1, <4>2 DEF HeardTo
    <3>2. CASE Len(events) > 1
      <4>1. /\ Len(events') = Len(events) - 1 /\ events' # <<>>
            /\ events'[Len(events')] = events[Len(events)]
        <5>1. Len(events) - 1 \in 1 .. Len(events) - 1 /\ (Len(events) - 1) + 1 = Len(events)
          BY <1>1, <3>2
        <5> QED
          BY <1>0, <1>1, <3>2, <5>1
      <4> QED
        BY <1>0, <1>1, <4>1 DEF HeardTo
    <3> QED
      BY <1>1, <3>1, <3>2
  <2>7. /\ Len(steers') = Len(steers) - 1 /\ Len(events') = Len(events) - 1
        /\ HeardTo' \in Nat /\ HeardTo' <= Len(steers')
    BY <1>0, <1>1, <1>2, <2>1, <2>3, <2>4, <2>6
  <2>8. ASSUME NEW i \in 1 .. HeardTo'
        PROVE  /\ events'[i].what = "steering" /\ steers'[i] = events'[i].text
               /\ events'[i].text \subseteq said
    <3>1. /\ i + 1 \in 1 .. HeardTo /\ i \in 1 .. Len(events) - 1 /\ i \in 1 .. Len(steers) - 1
      BY <1>1, <1>2, <2>4, <2>6
    <3>2. events'[i] = events[i + 1] /\ steers'[i] = steers[i + 1]
      BY <1>0, <1>1, <2>3, <2>4, <3>1
    <3> QED
      BY <1>2, <3>1, <3>2
  <2>9. ASSUME task = "running"
        PROVE  /\ HeardTo' = Len(events') /\ Len(steers') = HeardTo' + Len(inbox)
               /\ \A i \in 1 .. Len(inbox) : steers'[HeardTo' + i] = inbox[i]
    <3>1. /\ HeardTo = Len(events) /\ Len(steers) = HeardTo + Len(inbox)
          /\ \A i \in 1 .. Len(inbox) : steers[HeardTo + i] = inbox[i]
      BY <1>0, <2>9 DEF ChatInv, SteeringKept
    <3>2. ASSUME NEW i \in 1 .. Len(inbox)
          PROVE  steers'[HeardTo' + i] = inbox[i]
      <4>0. /\ HeardTo \in Nat /\ HeardTo >= 1 /\ HeardTo' = HeardTo - 1
            /\ Len(inbox) \in Nat /\ Len(steers) = HeardTo + Len(inbox)
        BY <1>2, <2>1, <2>6, <3>1
      <4>1. HeardTo' + i \in 1 .. Len(steers) - 1 /\ (HeardTo' + i) + 1 = HeardTo + i
        BY <4>0
      <4>2. steers'[HeardTo' + i] = steers[(HeardTo' + i) + 1]
        BY <2>3, <2>4, <4>1
      <4> QED
        BY <3>1, <4>1, <4>2
    <3> QED
      BY <1>2, <2>6, <2>7, <3>1, <3>2
  <2>10. ASSUME NEW n \in 1 .. typed, n \notin draft, n \notin said
         PROVE  \E i \in DOMAIN steers' : n \in steers'[i]
    <3>1. PICK i \in DOMAIN steers : n \in steers[i]
      BY <1>0, <2>10 DEF ChatInv, SteeringKept
    <3>2. i # 1 /\ i \in 1 .. Len(steers)
      BY <1>0, <2>2, <2>10, <3>1
    <3>3. i - 1 \in 1 .. Len(steers) - 1 /\ (i - 1) + 1 = i
      BY <2>4, <3>2
    <3>4. i - 1 \in DOMAIN steers' /\ steers'[i - 1] = steers[i]
      BY <2>3, <2>4, <3>3
    <3> QED
      BY <3>1, <3>4
  <2>11. SteeringKept'
    BY <1>0, <1>4, <2>7, <2>8, <2>9, <2>10 DEF SteeringKept, busy
  <2> QED
    BY <1>3, <2>5, <2>11 DEF ChatInv
<1>6. CASE events[1].what # "steering"
  <2>1. HeardTo = 0
    BY <1>1, <1>2, <1>6
  <2>2. Len(events) = 1 /\ task # "running"
    <3>1. Len(events) = 1
      BY <1>0, <1>1, <2>1 DEF HeardTo
    <3>2. task = "running" => HeardTo = Len(events)
      BY <1>0 DEF ChatInv, SteeringKept
    <3> QED
      BY <2>1, <3>1, <3>2
  <2>3. events' = <<>> /\ HeardTo' = 0
    <3>1. events' = <<>> /\ Len(events') = 0
      BY <1>0, <1>1, <2>2
    <3> QED
      BY <3>1 DEF HeardTo
  <2>4. cancelled' = TRUE /\ UNCHANGED steers
    BY <1>1, <1>6 DEF AppliesEvent, IsSteering
  <2>5. ChatTyped'
    BY <1>0, <1>1, <2>4 DEF ChatInv, ChatTyped
  <2>6. SteeringKept'
    BY <1>0, <1>2, <1>4, <2>2, <2>3, <2>4 DEF ChatInv, SteeringKept, busy
  <2> QED
    BY <1>3, <2>5, <2>6 DEF ChatInv
<1> QED
  BY <1>5, <1>6

LEMMA HeardIs ==
  ASSUME ChatInv, phase = "chat"
  PROVE  Heard = HeardTo
<1>1. /\ events \in Seq(ChatEvents) /\ HeardTo \in 0 .. Len(events) /\ HeardTo \in Nat
      /\ Len(events) \in Nat
      /\ \A i \in 1 .. HeardTo : events[i].what = "steering"
  BY HeardToFacts DEF ChatInv, ChatTyped, SteeringKept
<1>2. \A i \in 1 .. Len(events) : i > HeardTo => events[i].what # "steering"
  BY <1>1 DEF HeardTo
<1>3. {i \in DOMAIN events : IsSteering(events[i])} = 1 .. HeardTo
  <2>1. DOMAIN events = 1 .. Len(events)
    BY <1>1
  <2> QED
    BY <1>1, <1>2, <2>1 DEF IsSteering
<1>4. Cardinality(1 .. HeardTo) = HeardTo
  <2>1. Cardinality(1 .. HeardTo) = IF 1 > HeardTo THEN 0 ELSE HeardTo - 1 + 1
    BY <1>1, FS_Interval
  <2> QED
    BY <1>1, <2>1
<1> QED
  BY <1>3, <1>4 DEF Heard

(* Once a run is over, its steering is with what was said or in the line.  *)
LEMMA FinishKeeps ==
  ASSUME ChatInv, phase = "chat", finish_run
  PROVE  /\ draft' \subseteq Texts /\ Quiet' /\ HeardTo' = 0 /\ Len(steers') = 0
         /\ inbox' \in Seq(SUBSET Texts) /\ steers' \in Seq(SUBSET Texts)
         /\ events' \in Seq(ChatEvents)
         /\ said' = said /\ typed' = typed /\ task' = "none"
         /\ cancelled' = FALSE /\ told' = FALSE
         /\ \A n \in 1 .. typed : n \in draft' \/ n \in said
<1>1. /\ steers \in Seq(SUBSET Texts) /\ HeardTo \in Nat /\ Len(steers) \in Nat
      /\ HeardTo <= Len(steers) /\ draft \subseteq Texts
      /\ \A i \in 1 .. HeardTo : steers[i] \subseteq said
  BY HeardToFacts DEF ChatInv, ChatTyped, SteeringKept
<1> DEFINE left == SubSeq(steers, HeardTo + 1, Len(steers))
<1>2. StillQueued = left
  BY HeardIs DEF StillQueued
<1>3. /\ left \in Seq(SUBSET Texts) /\ Len(left) = Len(steers) - HeardTo
      /\ \A i \in 1 .. Len(left) : left[i] = steers[HeardTo + i]
  <2>1. HeardTo + 1 \in Nat /\ HeardTo + 1 >= 1
    BY <1>1
  <2>2. left \in Seq(SUBSET Texts)
    BY <1>1, <2>1
  <2>3. Len(left) = Len(steers) - HeardTo
    BY <1>1, <2>1
  <2>4. ASSUME NEW i \in 1 .. Len(left)
        PROVE  left[i] = steers[HeardTo + i]
    <3>1. left[i] = steers[(HeardTo + 1) + i - 1]
      BY <1>1, <2>1, <2>3
    <3>2. (HeardTo + 1) + i - 1 = HeardTo + i
      BY <1>1, <2>3
    <3> QED
      BY <3>1, <3>2
  <2> QED
    BY <2>2, <2>3, <2>4
<1>4. draft' = draft \union UNION {left[i] : i \in DOMAIN left}
  BY <1>2 DEF finish_run
<1> HIDE DEF left
<1>5. DOMAIN left = 1 .. Len(left) /\ \A i \in DOMAIN left : left[i] \subseteq Texts
  BY <1>3
<1>6. draft' \subseteq Texts
  BY <1>1, <1>4, <1>5
<1>7. ASSUME NEW n \in 1 .. typed, n \notin said
      PROVE  n \in draft'
  <2>1. CASE n \in draft
    BY <1>4, <2>1
  <2>2. CASE \E i \in DOMAIN steers : n \in steers[i]
    <3>1. PICK i \in DOMAIN steers : n \in steers[i]
      BY <2>2
    <3>2. i \in 1 .. Len(steers) /\ i \notin 1 .. HeardTo
      BY <1>1, <1>7, <3>1
    <3>3. i - HeardTo \in 1 .. Len(left) /\ HeardTo + (i - HeardTo) = i
      BY <1>1, <1>3, <3>2
    <3>4. i - HeardTo \in DOMAIN left /\ n \in left[i - HeardTo]
      BY <1>3, <1>5, <3>1, <3>3
    <3> QED
      BY <1>4, <3>4
  <2> QED
    BY <1>7, <2>1, <2>2 DEF ChatInv, SteeringKept
<1>8. /\ steers' = <<>> /\ events' = <<>> /\ inbox' = <<>>
      /\ cancelled' = FALSE /\ told' = FALSE /\ task' = "none"
      /\ said' = said /\ typed' = typed
  BY DEF finish_run
<1>9. Quiet' /\ Len(steers') = 0 /\ Len(events') = 0
  BY <1>8 DEF Quiet
<1>10. HeardTo' = 0
  BY <1>8, <1>9 DEF HeardTo
<1>11. inbox' \in Seq(SUBSET Texts) /\ steers' \in Seq(SUBSET Texts) /\ events' \in Seq(ChatEvents)
  BY <1>8
<1> QED
  BY <1>6, <1>7, <1>8, <1>9, <1>10, <1>11

(* With no run on and nothing under way, all that was typed is accounted.  *)
LEMMA QuietKeeps ==
  ASSUME Quiet', HeardTo' = 0, Len(steers') = 0, task' = "none",
         \A n \in 1 .. typed' : n \in draft' \/ n \in said'
  PROVE  SteeringKept'
BY DEF SteeringKept

(* A save leaves the saved session where its file is, and others where     *)
(* they were.                                                              *)
LEMMA SaveKeepsDisk ==
  ASSUME ChatInv, NEW one \in ChatSessions, Saves(one), Ahead(one), ids' = ids
  PROVE  /\ DOMAIN disk' \subseteq 1 .. ids' /\ \A id \in DOMAIN disk' : disk'[id] \in 0 .. MaxTurns
         /\ DOMAIN disk' = DOMAIN disk \union {one.id} /\ disk'[one.id] = one.turns
<1>1. /\ DOMAIN disk' = DOMAIN disk \union {one.id} /\ disk'[one.id] = one.turns
      /\ \A id \in DOMAIN disk : id # one.id => disk'[id] = disk[id]
  BY SavesFacts
<1>2. /\ DOMAIN disk \subseteq 1 .. ids /\ \A id \in DOMAIN disk : disk[id] \in 0 .. MaxTurns
      /\ one.id \in 1 .. ids /\ one.turns \in 0 .. MaxTurns
  BY SessionFacts DEF ChatInv, ChatTyped, Ahead
<1> QED
  BY <1>1, <1>2

(* A session that was lost hold of is the one current_id names, or new.    *)
LEMMA ReloadedIs ==
  ASSUME ChatInv, NEW one \in ChatSessions, IsReloaded(one), disk' = disk
  PROVE  /\ ids' \in SessionIds /\ ids' >= ids /\ ids \in Nat /\ ids' \in Nat
         /\ Ahead(one)' /\ DOMAIN disk' \subseteq 1 .. ids'
         /\ \/ one.id = currentId
            \/ currentId \notin DOMAIN disk /\ one.id \notin DOMAIN disk
<1>1. /\ ids \in SessionIds /\ currentId \in SessionIds /\ DOMAIN disk \subseteq 1 .. ids
      /\ \A id \in DOMAIN disk : disk[id] \in 0 .. MaxTurns
  BY DEF ChatInv, ChatTyped
<1>2. CASE currentId \in DOMAIN disk
  <2>1. one.id = currentId /\ one.turns = disk[currentId] /\ ids' = ids
    BY <1>2 DEF IsReloaded
  <2> QED
    BY <1>1, <1>2, <2>1, SessionFacts DEF Ahead
<1>3. CASE currentId \notin DOMAIN disk
  <2>1. one.id = ids + 1 /\ one.turns = 0 /\ ids' = ids + 1 /\ ids < MaxSessions
    BY <1>3 DEF IsReloaded
  <2> QED
    BY <1>1, <1>3, <2>1, SessionFacts DEF Ahead
<1> QED
  BY <1>2, <1>3

LEMMA RunIsBackKeeps == ChatInv /\ RunIsBack => ChatInv'
<1> SUFFICES ASSUME ChatInv, RunIsBack
             PROVE  ChatInv'
  OBVIOUS
<1>1. /\ phase = "chat" /\ task = "returned" /\ busy /\ agent' = "here"
      /\ currentId' = runSession.id /\ finish_run
      /\ Saves(runSession) \/ disk' = disk
      /\ UNCHANGED <<runSession, stopping, ids>>
  BY DEF RunIsBack, busy
<1>2. \/ /\ phase' = "handed" /\ handed' = runSession /\ again' = FALSE /\ held' = held
      \/ /\ held' = runSession /\ phase' = phase /\ handed' = handed /\ again' = again
  BY DEF RunIsBack
<1>3. /\ runSession \in ChatSessions /\ Ahead(runSession) /\ held = NoSession
      /\ ids \in SessionIds /\ stopping \in BOOLEAN /\ again \in BOOLEAN
      /\ held \in ChatSessions /\ handed \in ChatSessions /\ typed \in 0 .. MaxTexts
      /\ said \subseteq Texts /\ runSession.id \in 1 .. ids
      /\ DOMAIN disk \subseteq 1 .. ids /\ \A id \in DOMAIN disk : disk[id] \in 0 .. MaxTurns
  BY <1>1 DEF ChatInv, ChatTyped, SessionsHeld, Ahead
<1>4. /\ DOMAIN disk' \subseteq 1 .. ids /\ \A id \in DOMAIN disk' : disk'[id] \in 0 .. MaxTurns
      /\ runSession.id \in DOMAIN disk' => runSession.turns >= disk'[runSession.id]
  <2>1. CASE Saves(runSession)
    <3>1. runSession.turns >= runSession.turns
      BY <1>3, SessionFacts
    <3> QED
      BY <1>1, <1>3, <2>1, <3>1, SaveKeepsDisk
  <2>2. CASE disk' = disk
    BY <1>3, <2>2 DEF Ahead
  <2> QED
    BY <1>1, <2>1, <2>2
<1>5. runSession.id \in SessionIds
  BY <1>3, SessionFacts
<1>6. ChatTyped'
  BY <1>1, <1>2, <1>3, <1>4, <1>5, FinishKeeps DEF ChatTyped
<1>7. SessionsHeld'
  <2>1. ~busy'
    BY <1>1, FinishKeeps DEF busy
  <2>2. Ahead(runSession)'
    BY <1>1, <1>3, <1>4 DEF Ahead
  <2>3. CASE phase' = "handed"
    <3>1. handed' = runSession /\ again' = FALSE
      BY <1>1, <1>2, <2>3
    <3> QED
      BY <1>1, <2>1, <2>2, <2>3, <3>1 DEF SessionsHeld, Ahead
  <2>4. CASE phase' = "chat"
    <3>1. held' = runSession
      BY <1>1, <1>2, <2>4
    <3> QED
      BY <1>1, <2>1, <2>2, <2>4, <3>1 DEF SessionsHeld, Ahead
  <2> QED
    BY <1>1, <1>2, <2>3, <2>4
<1>8. SteeringKept'
  BY <1>1, FinishKeeps, QuietKeeps
<1> QED
  BY <1>6, <1>7, <1>8 DEF ChatInv

LEMMA RunIsLostKeeps == ChatInv /\ RunIsLost => ChatInv'
<1> SUFFICES ASSUME ChatInv, RunIsLost
             PROVE  ChatInv'
  OBVIOUS
<1>1. /\ phase = "chat" /\ agent' \in {"here", "gone"} /\ finish_run
      /\ UNCHANGED <<phase, handed, again, runSession, stopping, currentId, disk>>
  BY DEF RunIsLost
<1>2. /\ runSession \in ChatSessions /\ handed \in ChatSessions
      /\ ids \in SessionIds /\ stopping \in BOOLEAN /\ again \in BOOLEAN
      /\ typed \in 0 .. MaxTexts /\ said \subseteq Texts /\ currentId \in SessionIds
      /\ DOMAIN disk \subseteq 1 .. ids /\ \A id \in DOMAIN disk : disk[id] \in 0 .. MaxTurns
  BY DEF ChatInv, ChatTyped
<1> DEFINE one == held'
<1>3. IsReloaded(one)
  BY DEF RunIsLost
<1>4. one \in ChatSessions
  <2>1. CASE currentId \in DOMAIN disk
    <3>1. one = [id |-> currentId, turns |-> disk[currentId]]
      BY <1>3, <2>1 DEF IsReloaded
    <3>2. currentId \in 0 .. MaxSessions /\ disk[currentId] \in 0 .. MaxTurns
      BY <1>2, <2>1, SessionFacts
    <3> QED
      BY <3>1, <3>2 DEF ChatSessions
  <2>2. CASE currentId \notin DOMAIN disk
    <3>1. one = [id |-> ids + 1, turns |-> 0] /\ ids < MaxSessions
      BY <1>3, <2>2 DEF IsReloaded
    <3>2. ids + 1 \in 0 .. MaxSessions /\ 0 \in 0 .. MaxTurns
      BY <1>2, <3>1, SessionFacts
    <3> QED
      BY <3>1, <3>2 DEF ChatSessions
  <2> QED
    BY <2>1, <2>2
<1>5. /\ ids' \in SessionIds /\ DOMAIN disk' \subseteq 1 .. ids'
      /\ one.id \in 1 .. ids' /\ (one.id \in DOMAIN disk => one.turns >= disk[one.id])
      /\ one.id = currentId \/ currentId \notin DOMAIN disk
  <2>1. disk' = disk
    BY <1>1
  <2>2. CASE currentId \in DOMAIN disk
    <3>1. one.id = currentId /\ one.turns = disk[currentId] /\ ids' = ids
      BY <1>3, <2>2 DEF IsReloaded
    <3> QED
      BY <1>2, <2>1, <2>2, <3>1, SessionFacts
  <2>3. CASE currentId \notin DOMAIN disk
    <3>1. one.id = ids + 1 /\ one.turns = 0 /\ ids' = ids + 1 /\ ids < MaxSessions
      BY <1>3, <2>3 DEF IsReloaded
    <3> QED
      BY <1>2, <2>1, <2>3, <3>1, SessionFacts
  <2> QED
    BY <2>2, <2>3
<1>6. ChatTyped'
  BY <1>1, <1>2, <1>4, <1>5, FinishKeeps DEF ChatTyped
<1>7. SessionsHeld'
  BY <1>1, <1>5, FinishKeeps DEF SessionsHeld, Ahead, busy
<1>8. SteeringKept'
  BY <1>1, FinishKeeps, QuietKeeps
<1> QED
  BY <1>6, <1>7, <1>8 DEF ChatInv

(* A cancellation, which changes neither.                                  *)
LEMMA TellsKeeps ==
  ASSUME ChatInv, told' \in BOOLEAN, cancelled' \in BOOLEAN, stopping' \in BOOLEAN,
         agent' \in {"here", "gone"} \/ agent' = agent, agent' = agent \/ ~busy,
         UNCHANGED <<phase, held, handed, again, task, runSession, currentId, typing, ids, disk>>,
         phase = "chat"
  PROVE  ChatInv'
<1>1. ChatTyped'
  BY DEF ChatInv, ChatTyped, typing
<1>2. SessionsHeld'
  BY DEF ChatInv, SessionsHeld, Ahead, busy
<1>3. SteeringKept'
  BY TypingStays DEF busy
<1> QED
  BY <1>1, <1>2, <1>3 DEF ChatInv

(* The chat hands over a session.                                          *)
LEMMA HandsKeeps ==
  ASSUME ChatInv, phase = "chat", NEW one \in ChatSessions, NEW reopens \in BOOLEAN,
         Hands(one, reopens), agent' = agent, task' \in {task, "none"},
         ids' \in SessionIds, DOMAIN disk \subseteq 1 .. ids', Ahead(one)',
         reopens => ~busy,
         agent = "run" => one.id = runSession.id \/ one.id \notin DOMAIN disk
  PROVE  ChatInv'
<1>1. /\ phase' = "handed" /\ handed' = one /\ again' = reopens /\ held' = NoSession
      /\ UNCHANGED <<runSession, flags, currentId, typing, disk>>
  BY DEF Hands
<1>2. ChatTyped'
  BY <1>1, SessionFacts DEF ChatInv, ChatTyped, flags, typing
<1>3. SessionsHeld'
  BY <1>1 DEF ChatInv, SessionsHeld, Ahead, busy
<1>4. SteeringKept'
  BY <1>1 DEF ChatInv, SteeringKept, Quiet, typing, busy
<1> QED
  BY <1>2, <1>3, <1>4 DEF ChatInv

(* Idle, the loop hands over what it holds.                                *)
LEMMA HandsHeldKeeps ==
  ASSUME ChatInv, phase = "chat", ~busy, NEW reopens \in BOOLEAN, Hands(held, reopens),
         UNCHANGED <<agent, task, ids>>
  PROVE  ChatInv'
<1>1. /\ held \in ChatSessions /\ ids \in SessionIds /\ DOMAIN disk \subseteq 1 .. ids
      /\ Ahead(held) /\ agent # "run"
  BY DEF ChatInv, ChatTyped, SessionsHeld
<1> DEFINE one == held
<1>2. one \in ChatSessions /\ Hands(one, reopens) /\ Ahead(one)
  BY <1>1
<1>3. handed' = held /\ disk' = disk /\ phase' = "handed" /\ again' = reopens /\ held' = NoSession
  BY DEF Hands
<1>4. ChatTyped'
  BY <1>1, <1>3, SessionFacts DEF Hands, ChatInv, ChatTyped, flags, typing
<1>5. SessionsHeld'
  BY <1>1, <1>3 DEF SessionsHeld, Ahead, busy
<1>6. SteeringKept'
  BY <1>3 DEF Hands, ChatInv, SteeringKept, Quiet, typing, busy
<1> QED
  BY <1>4, <1>5, <1>6 DEF ChatInv

(* In place of what a run has, the last save or a new one.                 *)
LEMMA HandsReloadedKeeps ==
  ASSUME ChatInv, phase = "chat", busy, NEW one \in ChatSessions, IsReloaded(one),
         Hands(one, FALSE), agent' = agent, task' \in {task, "none"}
  PROVE  ChatInv'
<1>1. disk' = disk
  BY DEF Hands
<1>2. /\ ids' \in SessionIds /\ Ahead(one)' /\ DOMAIN disk' \subseteq 1 .. ids'
      /\ \/ one.id = currentId
         \/ currentId \notin DOMAIN disk /\ one.id \notin DOMAIN disk
  BY <1>1, ReloadedIs
<1>3. one.id = runSession.id \/ one.id \notin DOMAIN disk
  BY <1>2 DEF ChatInv, SessionsHeld
<1> QED
  BY <1>1, <1>2, <1>3, HandsKeeps

LEMMA LeavesKeeps ==
  ChatInv /\ (CtrlC \/ StopAsked \/ TerminalGoes \/ LeavesChat \/ TellsToCancel \/ RebuildsAgent)
    => ChatInv'
<1> SUFFICES ASSUME ChatInv
             PROVE  CtrlC \/ StopAsked \/ TerminalGoes \/ LeavesChat \/ TellsToCancel \/ RebuildsAgent
                      => ChatInv'
  OBVIOUS
<1>0. told \in BOOLEAN /\ cancelled \in BOOLEAN /\ stopping \in BOOLEAN
  BY DEF ChatInv, ChatTyped
<1>1. CASE CtrlC
  <2>1. CASE ~busy /\ Hands(held, FALSE) /\ UNCHANGED <<agent, task, ids>>
    BY <1>1, <2>1, HandsHeldKeeps DEF CtrlC
  <2>2. CASE /\ busy /\ ~cancelled
             /\ told' = TRUE /\ cancelled' = TRUE
             /\ UNCHANGED <<phase, held, handed, again, agent, task, runSession, stopping,
                            currentId, typing, ids, disk>>
    BY <1>0, <1>1, <2>2, TellsKeeps DEF CtrlC
  <2>3. CASE /\ busy /\ cancelled
             /\ \E one \in ChatSessions : IsReloaded(one) /\ Hands(one, FALSE)
             /\ task' = "none" /\ UNCHANGED agent
    BY <1>1, <2>3, HandsReloadedKeeps DEF CtrlC
  <2> QED
    BY <1>1, <2>1, <2>2, <2>3 DEF CtrlC
<1>2. CASE StopAsked
  <2>1. CASE /\ busy
             /\ stopping' = TRUE /\ cancelled' = TRUE /\ told' = TRUE
             /\ UNCHANGED <<phase, held, handed, again, agent, task, runSession, currentId,
                            typing, ids, disk>>
    BY <1>0, <1>2, <2>1, TellsKeeps DEF StopAsked
  <2>2. CASE ~busy /\ Hands(held, FALSE) /\ UNCHANGED <<agent, task, ids>>
    BY <1>2, <2>2, HandsHeldKeeps DEF StopAsked
  <2> QED
    BY <1>2, <2>1, <2>2 DEF StopAsked
<1>3. CASE TerminalGoes
  <2>1. CASE ~busy /\ Hands(held, FALSE) /\ UNCHANGED ids
    BY <1>3, <2>1, HandsHeldKeeps DEF TerminalGoes
  <2>2. CASE busy /\ \E one \in ChatSessions : IsReloaded(one) /\ Hands(one, FALSE)
    BY <1>3, <2>2, HandsReloadedKeeps DEF TerminalGoes
  <2> QED
    BY <1>3, <2>1, <2>2 DEF TerminalGoes
<1>4. CASE LeavesChat
  BY <1>4, HandsHeldKeeps DEF LeavesChat
<1>5. CASE TellsToCancel
  BY <1>0, <1>5, TellsKeeps DEF TellsToCancel
<1>6. CASE RebuildsAgent
  BY <1>0, <1>6, TellsKeeps DEF RebuildsAgent, flags
<1> QED
  BY <1>1, <1>2, <1>3, <1>4, <1>5, <1>6

LEMMA FailsKeeps == ChatInv /\ (ChatFails \/ PromptsNobody) => ChatInv'
<1> SUFFICES ASSUME ChatInv, ChatFails \/ PromptsNobody
             PROVE  ChatInv'
  OBVIOUS
<1>1. ChatTyped' /\ phase' \in {"failed", "panicked"}
  BY DEF ChatInv, ChatTyped, ChatFails, PromptsNobody, flags, typing
<1> QED
  BY <1>1, ChatIsOver DEF ChatInv

LEMMA NamesKeeps == ChatInv /\ NamesSession => ChatInv'
<1> SUFFICES ASSUME ChatInv, NamesSession
             PROVE  ChatInv'
  OBVIOUS
<1>1. /\ phase = "chat" /\ ~busy /\ Saves(held)
      /\ UNCHANGED <<phase, held, handed, again, agent, task, runSession, flags, currentId,
                     typing, ids>>
  BY DEF NamesSession
<1>2. held \in ChatSessions /\ Ahead(held) /\ agent # "run" /\ held.turns \in Nat
  BY <1>1, SessionFacts DEF ChatInv, ChatTyped, SessionsHeld
<1>3. /\ DOMAIN disk' \subseteq 1 .. ids' /\ \A id \in DOMAIN disk' : disk'[id] \in 0 .. MaxTurns
      /\ DOMAIN disk' = DOMAIN disk \union {held.id} /\ disk'[held.id] = held.turns
  BY <1>1, <1>2, SaveKeepsDisk
<1>4. ChatTyped'
  BY <1>1, <1>3 DEF ChatInv, ChatTyped, flags, typing
<1>5. SessionsHeld'
  BY <1>1, <1>2, <1>3 DEF ChatInv, SessionsHeld, Ahead, busy
<1>6. SteeringKept'
  BY <1>1, TypingStays DEF busy
<1> QED
  BY <1>4, <1>5, <1>6 DEF ChatInv

LEMMA AnewKeeps == ChatInv /\ StartsAnew => ChatInv'
<1> SUFFICES ASSUME ChatInv, StartsAnew
             PROVE  ChatInv'
  OBVIOUS
<1>1. /\ phase = "chat" /\ ~busy /\ ids < MaxSessions
      /\ held' = [id |-> ids + 1, turns |-> 0] /\ ids' = ids + 1 /\ currentId' = ids + 1
      /\ UNCHANGED <<phase, handed, again, agent, task, runSession, flags, typing, disk>>
  BY DEF StartsAnew
<1>2. /\ ids \in 1 .. MaxSessions /\ DOMAIN disk \subseteq 1 .. ids /\ MaxSessions \in Nat
      /\ agent # "run"
  BY <1>1, SessionFacts DEF ChatInv, ChatTyped, SessionsHeld
<1>3. held' \in ChatSessions /\ ids' \in SessionIds /\ currentId' \in SessionIds
  <2>1. ids + 1 \in 0 .. MaxSessions /\ ids + 1 \in 1 .. MaxSessions /\ 0 \in 0 .. MaxTurns
    BY <1>1, <1>2, SessionFacts
  <2> QED
    BY <1>1, <2>1, SessionFacts DEF ChatSessions
<1>4. DOMAIN disk' \subseteq 1 .. ids' /\ held'.id \in 1 .. ids' /\ held'.id \notin DOMAIN disk'
  BY <1>1, <1>2
<1>5. ChatTyped'
  BY <1>1, <1>3, <1>4 DEF ChatInv, ChatTyped, flags, typing
<1>6. SessionsHeld'
  BY <1>1, <1>2, <1>4 DEF SessionsHeld, Ahead, busy
<1>7. SteeringKept'
  BY <1>1, TypingStays DEF busy
<1> QED
  BY <1>5, <1>6, <1>7 DEF ChatInv

(* interactive saves what it was handed, and opens the chat again.         *)
LEMMA HandedKeeps == ChatInv /\ (HandedIsSaved \/ InteractiveFails) => ChatInv'
<1> SUFFICES ASSUME ChatInv, HandedIsSaved \/ InteractiveFails
             PROVE  ChatInv'
  OBVIOUS
<1>1. phase = "handed"
  BY DEF HandedIsSaved, InteractiveFails
<1>2. /\ handed \in ChatSessions /\ Ahead(handed) /\ handed.turns \in Nat
      /\ handed.id \in SessionIds
  BY <1>1, SessionFacts DEF ChatInv, ChatTyped, SessionsHeld, Ahead
<1>3. ids' = ids /\ (Saves(handed) \/ disk' = disk)
  BY DEF HandedIsSaved, InteractiveFails
<1>4. /\ DOMAIN disk' \subseteq 1 .. ids' /\ \A id \in DOMAIN disk' : disk'[id] \in 0 .. MaxTurns
      /\ Saves(handed) => disk'[handed.id] = handed.turns
  <2>1. CASE Saves(handed)
    BY <1>2, <1>3, <2>1, SaveKeepsDisk
  <2>2. CASE disk' = disk /\ ~Saves(handed)
    BY <1>3, <2>2 DEF ChatInv, ChatTyped
  <2> QED
    BY <1>3, <2>1, <2>2
<1>5. CASE InteractiveFails
  <2>1. ChatTyped' /\ phase' = "failed"
    BY <1>3, <1>4, <1>5 DEF InteractiveFails, ChatInv, ChatTyped, flags, typing
  <2> QED
    BY <2>1, ChatIsOver DEF ChatInv
<1>6. CASE HandedIsSaved /\ ~again
  <2>1. ChatTyped' /\ phase' = "closed"
    BY <1>3, <1>4, <1>6 DEF HandedIsSaved, ChatInv, ChatTyped
  <2> QED
    BY <2>1, ChatIsOver DEF ChatInv
<1>7. CASE HandedIsSaved /\ again
  <2>1. /\ phase' = "chat" /\ held' = handed /\ currentId' = handed.id
        /\ agent' = "here" /\ said' = said \union draft /\ draft' = {}
        /\ stopping' = FALSE /\ Saves(handed)
        /\ UNCHANGED <<handed, again, task, runSession, told, cancelled, inbox, events, steers,
                       typed, ids>>
    BY <1>7 DEF HandedIsSaved
  <2>2. ~busy /\ Quiet
    BY <1>1, <1>7 DEF ChatInv, SessionsHeld, SteeringKept
  <2>3. ChatTyped'
    BY <1>2, <1>3, <1>4, <2>1 DEF ChatInv, ChatTyped
  <2>4. SessionsHeld'
    BY <1>2, <1>4, <2>1, <2>2 DEF SessionsHeld, Ahead, busy
  <2>5. HeardTo' = 0 /\ Len(steers') = 0 /\ Quiet' /\ task' = "none"
    <3>1. /\ Len(events') = 0 /\ Len(steers') = 0 /\ events' = <<>> /\ inbox' = <<>>
          /\ steers' = <<>> /\ task' = "none"
      BY <2>1, <2>2 DEF Quiet, busy
    <3> QED
      BY <3>1 DEF HeardTo, Quiet
  <2>6. \A n \in 1 .. typed' : n \in draft' \/ n \in said'
    BY <1>1, <1>7, <2>1 DEF ChatInv, SteeringKept
  <2> QED
    BY <2>3, <2>4, <2>5, <2>6, QuietKeeps DEF ChatInv
<1> QED
  BY <1>5, <1>6, <1>7

LEMMA ChatStep == ChatInv /\ [ChatNext]_chatVars => ChatInv'
<1> SUFFICES ASSUME ChatInv, [ChatNext]_chatVars
             PROVE  ChatInv'
  OBVIOUS
<1>1. CASE UNCHANGED chatVars
  <2>1. ChatTyped'
    BY <1>1 DEF chatVars, ChatInv, ChatTyped, flags, typing
  <2>2. SessionsHeld'
    BY <1>1, SessionsStay DEF chatVars, busy
  <2>3. SteeringKept'
    BY <1>1, TypingStays DEF chatVars, busy
  <2> QED
    BY <2>1, <2>2, <2>3 DEF ChatInv
<1>2. CASE ChatEnded
  BY <1>1, <1>2 DEF ChatEnded
<1>3. CASE ChatNext /\ ~ChatEnded
  BY <1>3, TypesKeeps, LinesKeep, PromptsKeeps, FailsKeeps, SteersKeeps, TakesUpKeeps,
     GoesBackKeeps, PanicsKeeps, AppliesKeeps, RunIsBackKeeps, RunIsLostKeeps, LeavesKeeps,
     NamesKeeps, AnewKeeps, HandedKeeps
     DEF ChatNext
<1> QED
  BY <1>1, <1>2, <1>3

LEMMA ChatHolds == ChatInv => ChatTypeOK /\ ChatKeeps
<1> SUFFICES ASSUME ChatInv
             PROVE  ChatTypeOK /\ ChatKeeps
  OBVIOUS
<1>1. ChatTypeOK
  <2>1. DOMAIN disk \subseteq SessionIds /\ \A id \in DOMAIN disk : disk[id] \in 0 .. MaxTurns
    BY SessionFacts DEF ChatInv, ChatTyped
  <2>2. events \in Seq([what : {"steering", "cancelled"}, text : SUBSET Texts])
    BY DEF ChatInv, ChatTyped, ChatEvents
  <2> QED
    BY <2>1, <2>2 DEF ChatInv, ChatTyped, ChatTypeOK
<1>2. OneHolder
  BY SessionFacts DEF ChatInv, ChatTyped, SessionsHeld, Ahead, OneHolder
<1>3. NothingTypedIsLost
  <2> SUFFICES ASSUME phase = "chat"
               PROVE  /\ (1 .. typed) \subseteq draft \union said
                                                 \union UNION {steers[i] : i \in DOMAIN steers}
                      /\ task = "running" => StillQueued = inbox
                      /\ ~busy => steers = <<>> /\ events = <<>>
    BY DEF NothingTypedIsLost
  <2>1. (1 .. typed) \subseteq draft \union said \union UNION {steers[i] : i \in DOMAIN steers}
    BY DEF ChatInv, SteeringKept
  <2>2. ASSUME task = "running"
        PROVE  StillQueued = inbox
    <3>1. /\ inbox \in Seq(SUBSET Texts) /\ steers \in Seq(SUBSET Texts)
          /\ HeardTo \in Nat /\ Len(inbox) \in Nat /\ Len(steers) \in Nat
          /\ Len(steers) = HeardTo + Len(inbox)
          /\ \A i \in 1 .. Len(inbox) : steers[HeardTo + i] = inbox[i]
      BY <2>2, HeardToFacts DEF ChatInv, ChatTyped, SteeringKept
    <3> DEFINE left == SubSeq(steers, HeardTo + 1, Len(steers))
    <3>2. HeardTo + 1 \in Nat /\ HeardTo + 1 >= 1
      BY <3>1
    <3>3. left \in Seq(SUBSET Texts)
      BY <3>1, <3>2
    <3>4. Len(left) = Len(inbox)
      BY <3>1, <3>2
    <3>5. ASSUME NEW i \in 1 .. Len(left)
          PROVE  left[i] = inbox[i]
      <4>1. left[i] = steers[(HeardTo + 1) + i - 1]
        <5>1. steers \in Seq(SUBSET Texts) /\ HeardTo \in Nat /\ Len(steers) \in Nat
          BY <3>1
        <5>2. i \in 1 .. Len(left)
          OBVIOUS
        <5> QED
          BY <3>2, <5>1, <5>2
      <4>2. (HeardTo + 1) + i - 1 = HeardTo + i /\ i \in 1 .. Len(inbox)
        BY <3>1, <3>4
      <4> QED
        BY <3>1, <4>1, <4>2
    <3>6. StillQueued = left
      BY HeardIs DEF StillQueued
    <3> HIDE DEF left
    <3>7. left = inbox
      <4>1. \A i \in 1 .. Len(left) : left[i] = inbox[i]
        BY <3>5
      <4> QED
        BY <3>1, <3>3, <3>4, <4>1, SeqEqual
    <3> QED
      BY <3>6, <3>7
  <2>3. ~busy => steers = <<>> /\ events = <<>>
    BY DEF ChatInv, SteeringKept, Quiet
  <2> QED
    BY <2>1, <2>2, <2>3
<1>4. NeverBehindTheFile
  <2>1. CASE phase = "chat" /\ held.id \in DOMAIN disk
    <3>1. 0 \notin DOMAIN disk
      BY DEF ChatInv, ChatTyped
    <3>2. ~busy
      BY <2>1, <3>1, SessionFacts DEF ChatInv, SessionsHeld
    <3> QED
      BY <2>1, <3>2 DEF ChatInv, SessionsHeld, Ahead, NeverBehindTheFile
  <2>2. CASE phase # "chat" \/ held.id \notin DOMAIN disk
    BY <2>2 DEF ChatInv, SessionsHeld, Ahead, NeverBehindTheFile
  <2> QED
    BY <2>1, <2>2
<1> QED
  BY <1>1, <1>2, <1>3, <1>4 DEF ChatKeeps

-----------------------------------------------------------------------------

AskRecords ==
  [at : {"none", "asking", "through"}, call : Calls,
   by : {"none", "rules", "mode", "live", "person"}, number : 0 .. MaxAsked]
ChildRecords == [is : {"none", "waited", "background", "ending"}, options : Permits]

SettingsOf ==
  /\ configured \in Permits /\ options \in Permits /\ childOptions \in Permits
  /\ runOptions \in Permits /\ live \in RuleSets
AskTyped ==
  /\ SettingsOf
  /\ running \in {"no", "yes", "cancelled", "returned", "lost"}
  /\ children \in [Children -> ChildRecords]
  /\ asks \in [Askers -> AskRecords] /\ asked \in 0 .. MaxAsked
  /\ shown \in Approval /\ waiting \in Seq(Approval) /\ channel \in Seq(Approval)
  /\ agreed \subseteq Approval

(* A run that is over, and a child that is none, is in no call.            *)
Calling(who) ==
  IF who = Main THEN running \in {"yes", "cancelled"} ELSE children[who].is # "none"
Between == \A who \in Askers : ~Calling(who) => asks[who] = NotCalling

Rising(queue) == \A i, j \in 1 .. Len(queue) : i < j => queue[i].number < queue[j].number
Numbered(queue) == \A i \in 1 .. Len(queue) : queue[i].number \in 1 .. asked
After(number, queue) == \A i \in 1 .. Len(queue) : number < queue[i].number

AskedInTurn ==
  /\ Rising(waiting) /\ Rising(channel) /\ Numbered(waiting) /\ Numbered(channel)
  /\ \A i \in 1 .. Len(waiting) : After(waiting[i].number, channel)
  /\ shown # NobodyAsks => /\ shown.number \in 1 .. asked
                           /\ After(shown.number, waiting) /\ After(shown.number, channel)
  /\ shown = NobodyAsks => waiting = <<>>

In(approval, queue) == \E i \in 1 .. Len(queue) : queue[i] = approval
IsAsked(approval) ==
  \/ shown # NobodyAsks /\ shown = approval
  \/ In(approval, waiting) \/ In(approval, channel)
QuestionsAreHeld == \A who \in Askers : asks[who].at = "asking" => IsAsked(Question(who))

(* What a run's options, or a person, let its call do.                     *)
MayGo(who) ==
  /\ asks[who].at \in {"asking", "through"} =>
       ~\E rule \in PermitsOf(who).rules.deny : Fits(rule, asks[who].call)
  /\ asks[who].at = "through" =>
       /\ asks[who].by # "none"
       /\ asks[who].by = "person" => Question(who) \in agreed
       /\ asks[who].by = "rules" /\ asks[who].call = "compound" =>
            "shell" \in PermitsOf(who).rules.allow
       /\ asks[who].by = "live" => PermitsOf(who).mode = "ask"
       /\ asks[who].by = "mode" => PermitsOf(who).mode = "auto"

ApprovalInv ==
  /\ AskTyped /\ Between /\ AskedInTurn /\ QuestionsAreHeld
  /\ \A who \in Askers : MayGo(who)

LEMMA AskParts ==
  ASSUME ApprovalInv
  PROVE  /\ configured \in Permits /\ options \in Permits /\ childOptions \in Permits
         /\ runOptions \in Permits /\ live \in RuleSets
         /\ running \in {"no", "yes", "cancelled", "returned", "lost"}
         /\ children \in [Children -> ChildRecords]
         /\ asks \in [Askers -> AskRecords] /\ asked \in 0 .. MaxAsked /\ asked \in Nat
         /\ shown \in Approval /\ waiting \in Seq(Approval) /\ channel \in Seq(Approval)
         /\ Len(waiting) \in Nat /\ Len(channel) \in Nat
         /\ agreed \subseteq Approval
BY MaxAskedAssumption DEF ApprovalInv, AskTyped, SettingsOf

(* What has the types one by one has them together.                        *)
LEMMA TypedThen ==
  ASSUME configured' \in Permits, options' \in Permits, childOptions' \in Permits,
         runOptions' \in Permits, live' \in RuleSets,
         running' \in {"no", "yes", "cancelled", "returned", "lost"},
         children' \in [Children -> ChildRecords],
         asks' \in [Askers -> AskRecords], asked' \in 0 .. MaxAsked,
         shown' \in Approval, waiting' \in Seq(Approval), channel' \in Seq(Approval),
         agreed' \subseteq Approval
  PROVE  AskTyped'
<1>1. SettingsOf'
  BY ZenonT(40) DEF SettingsOf, Permits, RuleSets, Rules, Modes
<1>2. /\ running' \in {"no", "yes", "cancelled", "returned", "lost"} /\ asked' \in 0 .. MaxAsked
      /\ (children \in [Children -> ChildRecords])'
      /\ (asks \in [Askers -> AskRecords])'
      /\ (shown \in Approval /\ waiting \in Seq(Approval) /\ channel \in Seq(Approval))'
      /\ (agreed \subseteq Approval)'
  BY ZenonT(40) DEF ChildRecords, AskRecords, Approval, Askers, Calls, Permits, RuleSets, Rules, Modes
<1> QED
  BY <1>1, <1>2 DEF AskTyped

LEMMA AskerParts ==
  ASSUME ApprovalInv, NEW who \in Askers
  PROVE  /\ asks[who] \in AskRecords /\ asks[who].call \in Calls
         /\ asks[who].at \in {"none", "asking", "through"}
         /\ asks[who].number \in 0 .. MaxAsked
         /\ MayGo(who) /\ (asks[who].at = "asking" => IsAsked(Question(who)))
<1>1. asks[who] \in AskRecords
  BY AskParts
<1> QED
  BY <1>1 DEF AskRecords, ApprovalInv, QuestionsAreHeld

LEMMA PermitFacts ==
  ASSUME NEW permits \in Permits
  PROVE  permits.rules \in RuleSets /\ permits.mode \in Modes
BY DEF Permits

LEMMA NotCallingFacts ==
  /\ NotCalling \in AskRecords /\ NotCalling.at = "none"
  /\ NobodyAsks \in Approval /\ NobodyAsks.number = 0
<1>1. NotCalling.at = "none" /\ NobodyAsks.number = 0
  BY DEF NotCalling, NobodyAsks
<1>2. Main \in Askers /\ "other" \in Calls
  BY DEF Askers, Calls
<1> QED
  BY <1>1, <1>2, MaxAskedAssumption DEF NotCalling, NobodyAsks, AskRecords, Approval

LEMMA NoChildFacts == NoChild \in ChildRecords /\ NoChild.is = "none"
<1>1. NoChild.is = "none" /\ NoChild.options \in Permits
  BY DEF NoChild, Permits, RuleSets, Modes
<1> QED
  BY <1>1 DEF NoChild, ChildRecords

(* An agent that is dropped ends its children in the background and leaves *)
(* them their options.                                                     *)
LEMMA OrphanedIs ==
  ASSUME ApprovalInv
  PROVE  /\ Orphaned \in [Children -> ChildRecords]
         /\ \A child \in Children : /\ Orphaned[child].options = children[child].options
                                    /\ Orphaned[child].is = "none" <=> children[child].is = "none"
<1>1. ASSUME NEW child \in Children
      PROVE  /\ Orphaned[child] \in ChildRecords
             /\ Orphaned[child].options = children[child].options
             /\ Orphaned[child].is = "none" <=> children[child].is = "none"
  <2>1. children[child] \in ChildRecords
    BY AskParts
  <2>2. CASE children[child].is = "background"
    <3>1. Orphaned[child] = [children[child] EXCEPT !.is = "ending"]
      BY <2>2 DEF Orphaned
    <3> QED
      BY <2>1, <2>2, <3>1 DEF ChildRecords
  <2>3. CASE children[child].is # "background"
    BY <2>1, <2>3 DEF Orphaned
  <2> QED
    BY <2>2, <2>3
<1> QED
  BY <1>1 DEF Orphaned

LEMMA ApprovalInitInv == ApprovalsInit => ApprovalInv
<1> SUFFICES ASSUME ApprovalsInit
             PROVE  ApprovalInv
  OBVIOUS
<1>1. PICK rules \in StartRules, mode \in ModesSet : Begun([rules |-> rules, mode |-> mode])
  BY DEF ApprovalsInit
<1>2. [rules |-> rules, mode |-> mode] \in Permits /\ rules \in RuleSets
  BY CallsMadeAssumption DEF Permits
<1>3. SettingsOf
  BY <1>1, <1>2 DEF Begun, SettingsOf
<1>4. /\ running = "no" /\ asks = [who \in Askers |-> NotCalling] /\ asked = 0
      /\ children = [child \in Children |-> NoChild] /\ agreed = {}
      /\ channel = <<>> /\ shown = NobodyAsks /\ waiting = <<>>
  BY DEF ApprovalsInit
<1>5. channel \in Seq(Approval) /\ waiting \in Seq(Approval) /\ Len(channel) = 0 /\ Len(waiting) = 0
  BY <1>4
<1>6. \A who \in Askers : asks[who] = NotCalling /\ asks[who].at = "none"
  BY <1>4, NotCallingFacts
<1>7. AskTyped
  BY <1>3, <1>4, <1>5, NotCallingFacts, NoChildFacts, MaxAskedAssumption DEF AskTyped
<1>8. Between
  BY <1>6 DEF Between
<1>9. AskedInTurn
  BY <1>4, <1>5 DEF AskedInTurn, Rising, Numbered, After
<1>10. QuestionsAreHeld /\ \A who \in Askers : MayGo(who)
  BY <1>6 DEF QuestionsAreHeld, MayGo
<1> QED
  BY <1>7, <1>8, <1>9, <1>10 DEF ApprovalInv

LEMMA DecideFacts ==
  ASSUME NEW rules, NEW call
  PROVE  /\ decide(rules, call) # "denied" => ~\E rule \in rules.deny : Fits(rule, call)
         /\ decide(rules, call) = "allowed" /\ call = "compound" => "shell" \in rules.allow
BY DEF decide

LEMMA ScreenStays ==
  ASSUME ApprovalInv, UNCHANGED screen, asked' = asked
  PROVE  AskedInTurn'
BY DEF ApprovalInv, screen, AskedInTurn, Rising, Numbered, After, NobodyAsks

(* A call stands as it did, or it is over.                                 *)
Stands(who) == asks'[who] = asks[who] /\ (PermitsOf(who))' = PermitsOf(who)
Over(who) == asks'[who] = NotCalling

LEMMA GoStays ==
  ASSUME ApprovalInv, NEW who \in Askers, agreed \subseteq agreed', Stands(who) \/ Over(who)
  PROVE  (MayGo(who))'
<1>1. CASE Over(who)
  BY <1>1, NotCallingFacts DEF Over, MayGo
<1>2. CASE Stands(who)
  <2>1. MayGo(who)
    BY DEF ApprovalInv
  <2>2. (Question(who))' = Question(who)
    BY <1>2 DEF Stands, Question
  <2> QED
    BY <1>2, <2>1, <2>2 DEF Stands, MayGo, Fits
<1> QED
  BY <1>1, <1>2

(* Only the settings, the runs and what calls are over change.             *)
LEMMA Quieter ==
  ASSUME ApprovalInv, UNCHANGED <<asked, screen, agreed>>,
         configured' \in Permits, options' \in Permits, childOptions' \in Permits,
         runOptions' \in Permits, live' \in RuleSets,
         running' \in {"no", "yes", "cancelled", "returned", "lost"},
         children' \in [Children -> ChildRecords], asks' \in [Askers -> AskRecords],
         \A who \in Askers : Stands(who) \/ Over(who),
         \A who \in Askers : (Calling(who))' \/ ~Calling(who) \/ Over(who)
  PROVE  ApprovalInv'
<1>1. AskTyped'
  BY AskParts, TypedThen DEF screen
<1>2. Between'
  <2> SUFFICES ASSUME NEW who \in Askers, ~(Calling(who))' PROVE asks'[who] = NotCalling
    BY DEF Between, Askers, NotCalling
  <2>1. ~Calling(who) => asks[who] = NotCalling
    BY DEF ApprovalInv, Between
  <2> QED
    BY <2>1 DEF Stands, Over
<1>3. QuestionsAreHeld'
  <2> SUFFICES ASSUME NEW who \in Askers, asks'[who].at = "asking"
               PROVE  (IsAsked(Question(who)))'
    BY DEF QuestionsAreHeld, Askers
  <2>1. asks'[who] = asks[who]
    BY NotCallingFacts DEF Stands, Over
  <2>2. IsAsked(Question(who)) /\ (Question(who))' = Question(who)
    BY <2>1 DEF ApprovalInv, QuestionsAreHeld, Question
  <2> QED
    BY <2>2 DEF IsAsked, In, screen, NobodyAsks
<1> QED
  BY <1>1, <1>2, <1>3, ScreenStays, GoStays DEF ApprovalInv, Askers

LEMMA ModeSets ==
  ASSUME NEW permits \in Permits, NEW mode \in Modes
  PROVE  [permits EXCEPT !.mode = mode] \in Permits
BY DEF Permits

LEMMA RulesSet ==
  ASSUME NEW permits \in Permits, NEW rules \in RuleSets
  PROVE  [permits EXCEPT !.rules = rules] \in Permits
BY DEF Permits

(* The settings change, and the children at most end.                      *)
LEMMA SettingsMove ==
  ASSUME ApprovalInv, UNCHANGED <<asked, screen, agreed, runOptions, running, asks>>,
         configured' \in Permits, options' \in Permits, childOptions' \in Permits, live' \in RuleSets,
         children' = Orphaned \/ UNCHANGED children
  PROVE  ApprovalInv'
<1>1. /\ children' \in [Children -> ChildRecords]
      /\ \A child \in Children : /\ children'[child].options = children[child].options
                                 /\ children'[child].is = "none" <=> children[child].is = "none"
  BY AskParts, OrphanedIs
<1>2. ASSUME NEW who \in Askers
      PROVE  Stands(who) /\ ((Calling(who))' \/ ~Calling(who))
  BY <1>1 DEF Stands, PermitsOf, Calling, Askers
<1> QED
  BY <1>1, <1>2, AskParts, Quieter

LEMMA SettingsKeep ==
  ASSUME ApprovalInv, SetPermissions \/ CyclesPermissions \/ ClearRules
  PROVE  ApprovalInv'
<1>0. ModesSet \subseteq Modes
  BY CallsMadeAssumption
<1>1. CASE SetPermissions
  <2>1. PICK mode \in ModesSet : configured' = [configured EXCEPT !.mode = mode]
    BY <1>1 DEF SetPermissions
  <2>2. configured' \in Permits
    BY <1>0, <2>1, AskParts, ModeSets
  <2>3. /\ options' = options \/ options' = configured'
        /\ childOptions' = childOptions \/ childOptions' = configured'
        /\ children' = Orphaned \/ UNCHANGED children
        /\ UNCHANGED <<asked, screen, agreed, runOptions, running, asks, live>>
    BY <1>1 DEF SetPermissions, Rebuilt
  <2> QED
    BY <2>2, <2>3, AskParts, SettingsMove
<1>2. CASE CyclesPermissions
  <2>1. PICK mode \in ModesSet : /\ configured' = [configured EXCEPT !.mode = mode]
                                 /\ options' = [options EXCEPT !.mode = mode]
    BY <1>2 DEF CyclesPermissions
  <2>2. configured' \in Permits /\ options' \in Permits
    BY <1>0, <2>1, AskParts, ModeSets
  <2>3. UNCHANGED <<asked, screen, agreed, runOptions, running, asks, live, childOptions, children>>
    BY <1>2 DEF CyclesPermissions
  <2> QED
    BY <2>2, <2>3, AskParts, SettingsMove
<1>3. CASE ClearRules
  <2> DEFINE none == [allow |-> {}, deny |-> {}]
  <2>1. none \in RuleSets
    BY DEF RuleSets
  <2>2. configured' = [configured EXCEPT !.rules = none] /\ live' = none
    BY <1>3 DEF ClearRules
  <2> HIDE DEF none
  <2>3. configured' \in Permits /\ live' \in RuleSets
    BY <2>1, <2>2, AskParts, RulesSet
  <2>4. UNCHANGED <<asked, screen, agreed, runOptions, running, asks, options, childOptions, children>>
    BY <1>3 DEF ClearRules
  <2> QED
    BY <2>3, <2>4, AskParts, SettingsMove
<1> QED
  BY <1>1, <1>2, <1>3

LEMMA BeginsRunKeeps ==
  ASSUME ApprovalInv, BeginsRun
  PROVE  ApprovalInv'
<1>1. /\ running = "no" /\ running' = "yes" /\ runOptions' = options
      /\ UNCHANGED <<configured, live, options, childOptions, children, asks, asked, screen, agreed>>
  BY DEF BeginsRun, TakesCommands, settings
<1>2. ASSUME NEW who \in Askers
      PROVE  (Stands(who) \/ Over(who)) /\ ((Calling(who))' \/ ~Calling(who))
  <2>1. CASE who = Main
    <3>1. ~Calling(who) /\ asks[who] = NotCalling
      BY <1>1, <2>1 DEF Calling, ApprovalInv, Between
    <3> QED
      BY <1>1, <3>1 DEF Over
  <2>2. CASE who # Main
    BY <1>1, <2>2 DEF Stands, PermitsOf, Calling
  <2> QED
    BY <2>1, <2>2
<1> QED
  BY <1>1, <1>2, AskParts, Quieter

LEMMA CancelsRunKeeps ==
  ASSUME ApprovalInv, CancelsRun
  PROVE  ApprovalInv'
<1>1. /\ running = "yes" /\ running' = "cancelled"
      /\ UNCHANGED <<configured, live, options, childOptions, runOptions, children, asks, asked, screen, agreed>>
  BY DEF CancelsRun, settings
<1>2. ASSUME NEW who \in Askers
      PROVE  Stands(who) /\ ((Calling(who))' \/ ~Calling(who))
  BY <1>1 DEF Stands, PermitsOf, Calling
<1> QED
  BY <1>1, <1>2, AskParts, Quieter

(* A child takes the options its tool holds, made stricter.                *)
LEMMA DelegatesKeeps ==
  ASSUME ApprovalInv, NEW child \in Children, Delegates(child)
  PROVE  ApprovalInv'
<1>1. /\ children[child] = NoChild
      /\ UNCHANGED <<configured, live, options, childOptions, runOptions, running, asks, asked, screen, agreed>>
  BY DEF Delegates, settings
<1>2. PICK how \in {"waited", "background"}, mode \in Modes :
        children' = [children EXCEPT ![child] =
          [is |-> how, options |-> [childOptions EXCEPT !.mode = Stricter(childOptions.mode, mode)]]]
  BY DEF Delegates
<1> DEFINE permits == [childOptions EXCEPT !.mode = Stricter(childOptions.mode, mode)]
           one == [is |-> how, options |-> permits]
<1>3. permits \in Permits
  <2>1. Stricter(childOptions.mode, mode) \in Modes
    BY DEF Stricter, Modes
  <2> QED
    BY <2>1, AskParts, ModeSets
<1> HIDE DEF permits
<1>4. one \in ChildRecords /\ one.is # "none"
  BY <1>3 DEF ChildRecords
<1>5. children' = [children EXCEPT ![child] = one]
  BY <1>2 DEF permits
<1> HIDE DEF one
<1>6. /\ children' \in [Children -> ChildRecords] /\ children'[child].is # "none"
      /\ \A other \in Children \ {child} : children'[other] = children[other]
  BY <1>4, <1>5, AskParts
<1>7. ASSUME NEW who \in Askers
      PROVE  (Stands(who) \/ Over(who)) /\ ((Calling(who))' \/ ~Calling(who))
  <2>1. CASE who = child
    <3>1. ~Calling(who) /\ who # Main
      BY <1>1, <2>1, NoChildFacts, MainAssumption DEF Calling
    <3>2. asks[who] = NotCalling
      BY <3>1 DEF ApprovalInv, Between
    <3> QED
      BY <1>1, <3>1, <3>2 DEF Over
  <2>2. CASE who # child
    BY <1>1, <1>6, <2>2 DEF Stands, PermitsOf, Calling, Askers
  <2> QED
    BY <2>1, <2>2
<1> QED
  BY <1>1, <1>6, <1>7, AskParts, Quieter

LEMMA ChildEndsKeeps ==
  ASSUME ApprovalInv, NEW child \in Children, ChildEnds(child)
  PROVE  ApprovalInv'
<1>1. /\ children' = [children EXCEPT ![child] = NoChild] /\ asks' = [asks EXCEPT ![child] = NotCalling]
      /\ UNCHANGED <<configured, live, options, childOptions, runOptions, running, asked, screen, agreed>>
  BY DEF ChildEnds, settings
<1>2. /\ children' \in [Children -> ChildRecords] /\ asks' \in [Askers -> AskRecords]
      /\ asks'[child] = NotCalling
      /\ \A other \in Children \ {child} : children'[other] = children[other]
      /\ \A other \in Askers \ {child} : asks'[other] = asks[other]
  BY <1>1, AskParts, NoChildFacts, NotCallingFacts DEF Askers
<1>3. ASSUME NEW who \in Askers
      PROVE  (Stands(who) \/ Over(who)) /\ ((Calling(who))' \/ ~Calling(who) \/ Over(who))
  <2>1. CASE who = child
    BY <1>2, <2>1 DEF Over
  <2>2. CASE who # child
    BY <1>1, <1>2, <2>2 DEF Stands, PermitsOf, Calling, Askers
  <2> QED
    BY <2>1, <2>2
<1> QED
  BY <1>1, <1>2, <1>3, AskParts, Quieter

LEMMA CallEndsKeeps ==
  ASSUME ApprovalInv, NEW one \in Askers, CallEnds(one)
  PROVE  ApprovalInv'
<1>1. /\ asks' = [asks EXCEPT ![one] = NotCalling]
      /\ UNCHANGED <<configured, live, options, childOptions, runOptions, running, children, asked, screen, agreed>>
  BY DEF CallEnds, settings
<1>2. /\ asks' \in [Askers -> AskRecords] /\ asks'[one] = NotCalling
      /\ \A other \in Askers \ {one} : asks'[other] = asks[other]
  BY <1>1, AskParts, NotCallingFacts
<1>3. ASSUME NEW who \in Askers
      PROVE  (Stands(who) \/ Over(who)) /\ ((Calling(who))' \/ ~Calling(who))
  BY <1>1, <1>2 DEF Stands, Over, PermitsOf, Calling
<1> QED
  BY <1>1, <1>2, <1>3, AskParts, Quieter

(* A run takes the child it waits for with it, and no other.               *)
LEMMA RunStopsKeeps ==
  ASSUME ApprovalInv, RunStops
  PROVE  ApprovalInv'
<1>1. PICK lost \in BOOLEAN :
        /\ running' = IF lost THEN "lost" ELSE "returned"
        /\ children' = [child \in Children |->
             IF children[child].is = "waited" THEN NoChild
             ELSE IF lost THEN Orphaned[child] ELSE children[child]]
  BY DEF RunStops
<1>2. /\ asks' = [who \in Askers |->
           IF who = Main \/ (who \in Children /\ children[who].is = "waited") THEN NotCalling ELSE asks[who]]
      /\ UNCHANGED <<configured, live, options, childOptions, runOptions, asked, screen, agreed>>
  BY DEF RunStops, settings
<1>3. asks' \in [Askers -> AskRecords]
  BY <1>2, AskParts, NotCallingFacts
<1>4. /\ children' \in [Children -> ChildRecords]
      /\ \A child \in Children : children[child].is # "waited" =>
           /\ children'[child].options = children[child].options
           /\ children'[child].is = "none" <=> children[child].is = "none"
  BY <1>1, AskParts, OrphanedIs, NoChildFacts
<1>5. ASSUME NEW who \in Askers
      PROVE  (Stands(who) \/ Over(who)) /\ ((Calling(who))' \/ ~Calling(who) \/ Over(who))
  <2>1. CASE who = Main \/ (who \in Children /\ children[who].is = "waited")
    BY <1>2, <2>1 DEF Over
  <2>2. CASE ~(who = Main \/ (who \in Children /\ children[who].is = "waited"))
    BY <1>2, <1>4, <2>2 DEF Stands, PermitsOf, Calling, Askers
  <2> QED
    BY <2>1, <2>2
<1> QED
  BY <1>1, <1>2, <1>3, <1>4, <1>5, AskParts, Quieter

(* One call goes a step on.                                                *)
LEMMA OneGoes ==
  ASSUME ApprovalInv, NEW who \in Askers, NEW now \in AskRecords, Calling(who),
         asks' = [asks EXCEPT ![who] = now],
         UNCHANGED <<options, childOptions, runOptions, running, children>>,
         configured' \in Permits, live' \in RuleSets, asked' \in 0 .. MaxAsked,
         shown' \in Approval, waiting' \in Seq(Approval), channel' \in Seq(Approval),
         agreed' \subseteq Approval, agreed \subseteq agreed',
         now.at \in {"asking", "through"} =>
           ~\E rule \in PermitsOf(who).rules.deny : Fits(rule, now.call),
         now.at = "through" =>
           /\ now.by # "none"
           /\ now.by = "person" => [who |-> who, call |-> now.call, number |-> now.number] \in agreed'
           /\ now.by = "rules" /\ now.call = "compound" => "shell" \in PermitsOf(who).rules.allow
           /\ now.by = "live" => PermitsOf(who).mode = "ask"
           /\ now.by = "mode" => PermitsOf(who).mode = "auto"
  PROVE  /\ AskTyped' /\ Between' /\ (\A one \in Askers : (MayGo(one))')
         /\ asks'[who] = now /\ \A one \in Askers \ {who} : asks'[one] = asks[one]
<1>1. /\ asks' \in [Askers -> AskRecords] /\ asks'[who] = now
      /\ \A one \in Askers \ {who} : asks'[one] = asks[one]
  BY AskParts
<1>2. AskTyped'
  BY <1>1, AskParts, TypedThen
<1>3. Between'
  <2> SUFFICES ASSUME NEW one \in Askers, ~(Calling(one))' PROVE asks'[one] = NotCalling
    BY DEF Between, Askers, NotCalling
  <2>1. ~Calling(one)
    BY DEF Calling
  <2> QED
    BY <1>1, <2>1 DEF ApprovalInv, Between
<1>4. ASSUME NEW one \in Askers
      PROVE  (MayGo(one))'
  <2>1. (PermitsOf(one))' = PermitsOf(one)
    BY DEF PermitsOf
  <2>2. CASE one = who
    <3>1. asks'[one] = now /\ (Question(one))' = [who |-> who, call |-> now.call, number |-> now.number]
      BY <1>1, <2>2 DEF Question
    <3> QED
      BY <2>1, <2>2, <3>1 DEF MayGo, Fits
  <2>3. CASE one # who
    BY <1>1, <2>1, <2>3, GoStays DEF Stands
  <2> QED
    BY <2>2, <2>3
<1> QED
  BY <1>1, <1>2, <1>3, <1>4

LEMMA OthersHeld ==
  ASSUME ApprovalInv, NEW who \in Askers, UNCHANGED screen,
         \A one \in Askers \ {who} : asks'[one] = asks[one],
         asks'[who].at # "asking"
  PROVE  QuestionsAreHeld'
<1> SUFFICES ASSUME NEW one \in Askers, asks'[one].at = "asking"
             PROVE  (IsAsked(Question(one)))'
  BY DEF QuestionsAreHeld, Askers
<1>1. one # who /\ asks'[one] = asks[one]
  OBVIOUS
<1>2. IsAsked(Question(one))
  BY <1>1 DEF ApprovalInv, QuestionsAreHeld
<1>3. (Question(one))' = Question(one)
  BY <1>1 DEF Question
<1> QED
  BY <1>2, <1>3 DEF IsAsked, In, screen, NobodyAsks

LEMMA AdmitsKeeps ==
  ASSUME ApprovalInv, NEW who \in Askers, NEW call \in CallsMade, Admits(who, call)
  PROVE  ApprovalInv'
<1> DEFINE permits == PermitsOf(who)
           ruled == decide(permits.rules, call)
<1>1. /\ Calling(who) /\ call \in Calls
      /\ UNCHANGED <<configured, live, options, childOptions, runOptions, running, children, shown, waiting, agreed>>
  BY CallsMadeAssumption DEF Admits, Driven, Calling, settings
<1>2. \/ /\ ruled = "allowed" \/ (ruled = "undecided" /\ permits.mode \in {"auto", "ask"})
         /\ Goes(who, call,
                 IF ruled = "allowed" THEN "rules"
                 ELSE IF permits.mode = "auto" THEN "mode" ELSE "live")
         /\ UNCHANGED <<asked, channel>>
      \/ UNCHANGED <<asks, asked, channel>>
      \/ ruled = "undecided" /\ Sends(who, call)
  BY DEF Admits
<1>4. /\ ruled # "denied" => ~\E rule \in permits.rules.deny : Fits(rule, call)
      /\ ruled = "allowed" /\ call = "compound" => "shell" \in permits.rules.allow
  BY DecideFacts
<1> HIDE DEF ruled
<1>5. ASSUME NEW by \in {"rules", "mode", "live"},
             Goes(who, call, by), UNCHANGED <<asked, channel>>,
             ruled # "denied",
             by = "rules" => ruled = "allowed",
             by = "mode" => permits.mode = "auto",
             by = "live" => permits.mode = "ask"
      PROVE  ApprovalInv'
  <2> DEFINE now == [at |-> "through", call |-> call, by |-> by, number |-> 0]
  <2>1. now \in AskRecords /\ now.at = "through" /\ now.call = call /\ now.by = by
    BY <1>1, MaxAskedAssumption DEF AskRecords
  <2>2. asks' = [asks EXCEPT ![who] = now]
    BY <1>5 DEF Goes
  <2> HIDE DEF now
  <2>3. /\ asked' \in 0 .. MaxAsked
        /\ shown' \in Approval /\ waiting' \in Seq(Approval) /\ channel' \in Seq(Approval)
    BY <1>1, <1>5, AskParts
  <2>4. /\ ~\E rule \in permits.rules.deny : Fits(rule, now.call)
        /\ now.by # "none" /\ now.by # "person"
        /\ now.by = "rules" /\ now.call = "compound" => "shell" \in permits.rules.allow
        /\ now.by = "live" => permits.mode = "ask"
        /\ now.by = "mode" => permits.mode = "auto"
    BY <1>4, <1>5, <2>1
  <2>5. /\ AskTyped' /\ Between' /\ (\A one \in Askers : (MayGo(one))')
        /\ asks'[who] = now /\ \A one \in Askers \ {who} : asks'[one] = asks[one]
    BY <1>1, <2>1, <2>2, <2>3, <2>4, AskParts, OneGoes
  <2>6. asks'[who].at # "asking"
    BY <2>1, <2>5
  <2>7. AskedInTurn' /\ QuestionsAreHeld'
    BY <1>1, <1>5, <2>5, <2>6, ScreenStays, OthersHeld DEF screen
  <2> QED
    BY <2>5, <2>7 DEF ApprovalInv, Askers
<1>6. CASE ruled # "denied" /\ Sends(who, call)
  <2> DEFINE now == [at |-> "asking", call |-> call, by |-> "none", number |-> asked + 1]
             approval == [who |-> who, call |-> call, number |-> asked + 1]
  <2>1. /\ asked' = asked + 1 /\ asked \in Nat /\ asked + 1 \in 0 .. MaxAsked
    BY <1>6, AskParts, MaxAskedAssumption DEF Sends
  <2>2. now \in AskRecords /\ now.at = "asking" /\ now.call = call /\ now.number = asked + 1
    BY <1>1, <2>1 DEF AskRecords
  <2>3. approval \in Approval /\ approval.number = asked + 1
    BY <1>1, <2>1 DEF Approval
  <2>4. asks' = [asks EXCEPT ![who] = now] /\ channel' = Append(channel, approval)
    BY <1>6 DEF Sends
  <2> HIDE DEF now
  <2>5. /\ channel' \in Seq(Approval) /\ Len(channel') = Len(channel) + 1
        /\ channel'[Len(channel) + 1] = approval
        /\ \A i \in 1 .. Len(channel) : channel'[i] = channel[i]
    <3> HIDE DEF approval
    <3> QED
      BY <2>3, <2>4, AskParts
  <2>6. /\ asked' \in 0 .. MaxAsked
        /\ shown' \in Approval /\ waiting' \in Seq(Approval) /\ channel' \in Seq(Approval)
    BY <1>1, <2>1, <2>5, AskParts
  <2>7. now.at # "through" /\ ~\E rule \in permits.rules.deny : Fits(rule, now.call)
    BY <1>4, <1>6, <2>2
  <2>8. /\ AskTyped' /\ Between' /\ (\A one \in Askers : (MayGo(one))')
        /\ asks'[who] = now /\ \A one \in Askers \ {who} : asks'[one] = asks[one]
    BY <1>1, <2>2, <2>4, <2>6, <2>7, AskParts, OneGoes
  <2> HIDE DEF approval
  <2>9. /\ Rising(waiting) /\ Rising(channel) /\ Numbered(waiting) /\ Numbered(channel)
        /\ \A i \in 1 .. Len(waiting) : After(waiting[i].number, channel)
        /\ shown # NobodyAsks => /\ shown.number \in 1 .. asked
                                 /\ After(shown.number, waiting) /\ After(shown.number, channel)
        /\ shown = NobodyAsks => waiting = <<>>
    BY DEF ApprovalInv, AskedInTurn
  <2>10. /\ \A i \in 1 .. Len(waiting) : waiting[i].number \in 1 .. asked
         /\ \A i \in 1 .. Len(channel) : channel[i].number \in 1 .. asked
         /\ Len(waiting) \in Nat /\ Len(channel) \in Nat
    BY <2>9, AskParts DEF Numbered
  <2>11. Rising(channel)'
    <3> SUFFICES ASSUME NEW i \in 1 .. Len(channel) + 1, NEW j \in 1 .. Len(channel) + 1, i < j
                 PROVE  channel'[i].number < channel'[j].number
      BY <2>5 DEF Rising
    <3>1. i \in 1 .. Len(channel)
      BY <2>10
    <3>2. channel'[i] = channel[i] /\ channel[i].number \in 1 .. asked
      BY <2>5, <2>10, <3>1
    <3>3. CASE j = Len(channel) + 1
      BY <2>1, <2>3, <2>5, <3>2, <3>3
    <3>4. CASE j # Len(channel) + 1
      <4>1. j \in 1 .. Len(channel)
        BY <2>10, <3>4
      <4>2. channel[i].number < channel[j].number
        BY <2>9, <3>1, <4>1 DEF Rising
      <4> QED
        BY <2>5, <3>2, <4>1, <4>2
    <3> QED
      BY <3>3, <3>4
  <2>12. ASSUME NEW number \in 1 .. asked, After(number, channel)
         PROVE  \A j \in 1 .. Len(channel) + 1 : number < channel'[j].number
    <3> TAKE j \in 1 .. Len(channel) + 1
    <3>1. CASE j = Len(channel) + 1
      BY <2>1, <2>3, <2>5, <3>1
    <3>2. CASE j # Len(channel) + 1
      <4>1. j \in 1 .. Len(channel)
        BY <2>10, <3>2
      <4> QED
        BY <2>5, <2>12, <4>1 DEF After
    <3> QED
      BY <3>1, <3>2
  <2>13. Numbered(channel)' /\ Numbered(waiting)'
    <3>1. ASSUME NEW j \in 1 .. Len(channel) + 1 PROVE channel'[j].number \in 1 .. asked + 1
      <4>1. CASE j = Len(channel) + 1
        BY <2>1, <2>3, <2>5, <4>1
      <4>2. CASE j # Len(channel) + 1
        <5>1. j \in 1 .. Len(channel)
          BY <2>10, <4>2
        <5> QED
          BY <2>1, <2>5, <2>10, <5>1
      <4> QED
        BY <4>1, <4>2
    <3>2. ASSUME NEW j \in 1 .. Len(waiting) PROVE waiting[j].number \in 1 .. asked + 1
      BY <2>1, <2>10
    <3> QED
      BY <1>1, <2>1, <2>5, <3>1, <3>2 DEF Numbered
  <2>14. AskedInTurn'
    <3>1. Rising(waiting)' /\ (shown' = NobodyAsks => waiting' = <<>>)
      BY <1>1, <2>9 DEF Rising, NobodyAsks
    <3>2. \A i \in 1 .. Len(waiting') : (After(waiting[i].number, channel))'
      <4> SUFFICES ASSUME NEW i \in 1 .. Len(waiting)
                   PROVE  \A j \in 1 .. Len(channel) + 1 : waiting[i].number < channel'[j].number
        BY <1>1, <2>5 DEF After
      <4> QED
        BY <2>9, <2>10, <2>12
    <3>3. shown' # NobodyAsks =>
            /\ shown'.number \in 1 .. asked'
            /\ (After(shown.number, waiting))' /\ (After(shown.number, channel))'
      <4> SUFFICES ASSUME shown # NobodyAsks
                   PROVE  /\ shown.number \in 1 .. asked + 1
                          /\ After(shown.number, waiting)
                          /\ \A j \in 1 .. Len(channel) + 1 : shown.number < channel'[j].number
        BY <1>1, <2>1, <2>5 DEF After
      <4>1. shown.number \in 1 .. asked /\ After(shown.number, waiting) /\ After(shown.number, channel)
        BY <2>9
      <4> QED
        BY <2>1, <2>12, <4>1
    <3> QED
      BY <2>11, <2>13, <3>1, <3>2, <3>3 DEF AskedInTurn, NobodyAsks
  <2>15. QuestionsAreHeld'
    <3> SUFFICES ASSUME NEW one \in Askers, asks'[one].at = "asking"
                 PROVE  (IsAsked(Question(one)))'
      BY DEF QuestionsAreHeld, Askers
    <3>1. CASE one = who
      <4>1. (Question(one))' = approval
        BY <2>2, <2>8, <3>1 DEF Question, approval
      <4>2. \E i \in 1 .. Len(channel') : channel'[i] = approval
        BY <2>5, <2>10
      <4> QED
        BY <4>1, <4>2 DEF IsAsked, In
    <3>2. CASE one # who
      <4>1. asks'[one] = asks[one] /\ (Question(one))' = Question(one)
        BY <2>8, <3>2 DEF Question
      <4>2. IsAsked(Question(one))
        BY <4>1 DEF ApprovalInv, QuestionsAreHeld
      <4>3. ASSUME NEW i \in 1 .. Len(channel) PROVE i \in 1 .. Len(channel') /\ channel'[i] = channel[i]
        BY <2>5, <2>10
      <4> QED
        BY <1>1, <4>1, <4>2, <4>3 DEF IsAsked, In, NobodyAsks
    <3> QED
      BY <3>1, <3>2
  <2> QED
    BY <2>8, <2>14, <2>15 DEF ApprovalInv, Askers
<1>7. CASE UNCHANGED <<asks, asked, channel>>
  <2>1. ASSUME NEW one \in Askers
        PROVE  Stands(one) /\ ((Calling(one))' \/ ~Calling(one))
    BY <1>1, <1>7 DEF Stands, PermitsOf, Calling
  <2>2. UNCHANGED <<asked, screen, agreed>>
    BY <1>1, <1>7 DEF screen
  <2> QED
    BY <1>1, <1>7, <2>1, <2>2, AskParts, Quieter
<1>8. CASE /\ ruled = "allowed" \/ (ruled = "undecided" /\ permits.mode \in {"auto", "ask"})
           /\ Goes(who, call,
                   IF ruled = "allowed" THEN "rules"
                   ELSE IF permits.mode = "auto" THEN "mode" ELSE "live")
           /\ UNCHANGED <<asked, channel>>
  <2>1. CASE ruled = "allowed"
    BY <1>5, <1>8, <2>1
  <2>2. CASE ruled # "allowed" /\ permits.mode = "auto"
    BY <1>5, <1>8, <2>2
  <2>3. CASE ruled # "allowed" /\ permits.mode # "auto"
    BY <1>5, <1>8, <2>3
  <2> QED
    BY <2>1, <2>2, <2>3
<1> QED
  BY <1>2, <1>6, <1>7, <1>8

LEMMA QueueTail ==
  ASSUME NEW queue \in Seq(Approval), queue # <<>>
  PROVE  /\ Head(queue) \in Approval /\ Tail(queue) \in Seq(Approval)
         /\ Rising(queue) => Rising(Tail(queue)) /\ After(Head(queue).number, Tail(queue))
         /\ \A number : After(number, queue) => number < Head(queue).number /\ After(number, Tail(queue))
         /\ Numbered(queue) => Head(queue).number \in 1 .. asked /\ Numbered(Tail(queue))
         /\ \A approval : In(approval, queue) => approval = Head(queue) \/ In(approval, Tail(queue))
<1> DEFINE first == Head(queue)
           rest == Tail(queue)
<1>1. /\ Len(queue) \in Nat /\ Len(queue) # 0 /\ first = queue[1] /\ first \in Approval
      /\ rest \in Seq(Approval) /\ Len(rest) = Len(queue) - 1
      /\ \A i \in 1 .. Len(rest) : rest[i] = queue[i + 1]
  OBVIOUS
<1> HIDE DEF first, rest
<1>2. \A i \in 1 .. Len(rest) : i + 1 \in 1 .. Len(queue) /\ 1 < i + 1 /\ rest[i] = queue[i + 1]
  BY <1>1
<1>3. 1 \in 1 .. Len(queue)
  BY <1>1
<1>4. ASSUME Rising(queue)
      PROVE  Rising(rest) /\ After(first.number, rest)
  <2>1. \A i, j \in 1 .. Len(queue) : i < j => queue[i].number < queue[j].number
    BY <1>4 DEF Rising
  <2>2. ASSUME NEW i \in 1 .. Len(rest), NEW j \in 1 .. Len(rest), i < j
        PROVE  rest[i].number < rest[j].number
    <3>1. i + 1 < j + 1
      BY <2>2
    <3>2. queue[i + 1].number < queue[j + 1].number
      BY <1>2, <2>1, <3>1
    <3> QED
      BY <1>2, <3>2
  <2>3. ASSUME NEW i \in 1 .. Len(rest)
        PROVE  first.number < rest[i].number
    <3>1. queue[1].number < queue[i + 1].number
      BY <1>2, <1>3, <2>1
    <3> QED
      BY <1>1, <3>1
  <2> QED
    BY <2>2, <2>3 DEF Rising, After
<1>5. ASSUME NEW number, After(number, queue)
      PROVE  number < first.number /\ After(number, rest)
  BY <1>1, <1>2, <1>3, <1>5 DEF After
<1>6. ASSUME Numbered(queue)
      PROVE  first.number \in 1 .. asked /\ Numbered(rest)
  BY <1>1, <1>2, <1>3, <1>6 DEF Numbered
<1>7. ASSUME NEW approval, In(approval, queue)
      PROVE  approval = first \/ In(approval, rest)
  <2>1. PICK i \in 1 .. Len(queue) : queue[i] = approval
    BY <1>7 DEF In
  <2>2. CASE i = 1
    BY <1>1, <2>1, <2>2
  <2>3. CASE i # 1
    <3>1. i - 1 \in 1 .. Len(rest) /\ i = (i - 1) + 1
      BY <1>1, <2>3
    <3>2. rest[i - 1] = queue[(i - 1) + 1]
      BY <1>2, <3>1
    <3> QED
      BY <2>1, <3>1, <3>2 DEF In
  <2> QED
    BY <2>2, <2>3
<1> QED
  BY <1>1, <1>4, <1>5, <1>6, <1>7 DEF first, rest

LEMMA QueueAppend ==
  ASSUME NEW queue \in Seq(Approval), NEW last \in Approval
  PROVE  /\ Append(queue, last) \in Seq(Approval)
         /\ Rising(queue) /\ (\A i \in 1 .. Len(queue) : queue[i].number < last.number)
              => Rising(Append(queue, last))
         /\ \A number : After(number, queue) /\ number < last.number => After(number, Append(queue, last))
         /\ Numbered(queue) /\ last.number \in 1 .. asked => Numbered(Append(queue, last))
         /\ \A approval : In(approval, queue) \/ approval = last => In(approval, Append(queue, last))
         /\ \A i \in 1 .. Len(Append(queue, last)) :
              Append(queue, last)[i] = last \/ \E j \in 1 .. Len(queue) : Append(queue, last)[i] = queue[j]
<1> DEFINE all == Append(queue, last)
<1>1. /\ all \in Seq(Approval) /\ Len(queue) \in Nat /\ Len(all) = Len(queue) + 1
      /\ all[Len(queue) + 1] = last /\ \A i \in 1 .. Len(queue) : all[i] = queue[i]
  OBVIOUS
<1> HIDE DEF all
<1>2. \A i \in 1 .. Len(all) : i = Len(queue) + 1 \/ i \in 1 .. Len(queue)
  BY <1>1
<1>3. \A i \in 1 .. Len(all) : all[i] = last \/ \E j \in 1 .. Len(queue) : all[i] = queue[j]
  BY <1>1, <1>2
<1>4. ASSUME Rising(queue), \A i \in 1 .. Len(queue) : queue[i].number < last.number
      PROVE  Rising(all)
  <2> SUFFICES ASSUME NEW i \in 1 .. Len(all), NEW j \in 1 .. Len(all), i < j
               PROVE  all[i].number < all[j].number
    BY DEF Rising
  <2>1. i \in 1 .. Len(queue)
    BY <1>1
  <2>2. CASE j = Len(queue) + 1
    BY <1>1, <1>4, <2>1, <2>2
  <2>3. CASE j \in 1 .. Len(queue)
    BY <1>1, <1>4, <2>1, <2>3 DEF Rising
  <2> QED
    BY <1>2, <2>2, <2>3
<1>5. ASSUME NEW number, After(number, queue), number < last.number
      PROVE  After(number, all)
  BY <1>3, <1>5 DEF After
<1>6. ASSUME Numbered(queue), last.number \in 1 .. asked
      PROVE  Numbered(all)
  BY <1>3, <1>6 DEF Numbered
<1>7. ASSUME NEW approval, In(approval, queue) \/ approval = last
      PROVE  In(approval, all)
  <2>1. \A i \in 1 .. Len(queue) : i \in 1 .. Len(all)
    BY <1>1
  <2>2. Len(queue) + 1 \in 1 .. Len(all)
    BY <1>1
  <2> QED
    BY <1>1, <1>7, <2>1, <2>2 DEF In
<1> QED
  BY <1>1, <1>3, <1>4, <1>5, <1>6, <1>7 DEF all

LEMMA TurnParts ==
  ASSUME ApprovalInv
  PROVE  /\ Rising(waiting) /\ Rising(channel) /\ Numbered(waiting) /\ Numbered(channel)
         /\ \A i \in 1 .. Len(waiting) : After(waiting[i].number, channel)
         /\ shown # NobodyAsks => /\ shown.number \in 1 .. asked
                                  /\ After(shown.number, waiting) /\ After(shown.number, channel)
         /\ shown = NobodyAsks => waiting = <<>>
BY DEF ApprovalInv, AskedInTurn

LEMMA EmptyQueue ==
  /\ Rising(<<>>) /\ Numbered(<<>>) /\ \A number : After(number, <<>>)
  /\ \A approval : ~In(approval, <<>>)
<1>1. Len(<<>>) = 0
  OBVIOUS
<1> QED
  BY <1>1 DEF Rising, Numbered, After, In

LEMMA IsSomebody ==
  ASSUME NEW approval, approval.number \in 1 .. asked
  PROVE  approval # NobodyAsks
<1>1. NobodyAsks.number = 0 /\ 0 \notin 1 .. asked
  BY NotCallingFacts
<1> QED
  BY <1>1

LEMMA TakesApprovalKeeps ==
  ASSUME ApprovalInv, TakesApproval
  PROVE  ApprovalInv'
<1> DEFINE first == Head(channel)
           rest == Tail(channel)
<1>1. /\ channel # <<>> /\ channel' = rest
      /\ UNCHANGED <<configured, live, options, childOptions, runOptions, running, children, asks, asked, agreed>>
      /\ IF shown = NobodyAsks
         THEN shown' = first /\ waiting' = waiting
         ELSE waiting' = Append(waiting, first) /\ shown' = shown
  BY DEF TakesApproval, settings
<1>2. /\ first \in Approval /\ rest \in Seq(Approval)
      /\ Rising(rest) /\ After(first.number, rest)
      /\ \A number : After(number, channel) => number < first.number /\ After(number, rest)
      /\ first.number \in 1 .. asked /\ Numbered(rest)
      /\ \A approval : In(approval, channel) => approval = first \/ In(approval, rest)
  BY <1>1, AskParts, TurnParts, QueueTail
<1> HIDE DEF first, rest
<1>3. first # NobodyAsks
  BY <1>2, IsSomebody
<1>4. waiting' \in Seq(Approval) /\ shown' \in Approval
  BY <1>1, <1>2, AskParts, QueueAppend
<1>5. AskTyped'
  BY <1>1, <1>2, <1>4, AskParts, TypedThen
<1>6. Between' /\ \A who \in Askers : (MayGo(who))'
  <2>1. \A who \in Askers : Stands(who) /\ (Calling(who))' = Calling(who)
    BY <1>1 DEF Stands, PermitsOf, Calling
  <2>2. \A who \in Askers : (MayGo(who))'
    BY <1>1, <2>1, GoStays
  <2> QED
    BY <2>1, <2>2 DEF ApprovalInv, Between, Stands, Askers, NotCalling
<1>7. AskedInTurn'
  <2>1. CASE shown = NobodyAsks
    <3>1. waiting = <<>> /\ waiting' = <<>> /\ shown' = first
      BY <1>1, <2>1, TurnParts
    <3>2. Rising(waiting') /\ (Numbered(waiting))' /\ After(first.number, waiting') /\ Len(waiting') = 0
      BY <3>1, EmptyQueue DEF Numbered
    <3>3. (Numbered(channel))' /\ Rising(channel') /\ After(first.number, channel') /\ first.number \in 1 .. asked'
      BY <1>1, <1>2 DEF Numbered
    <3> QED
      BY <1>3, <3>1, <3>2, <3>3 DEF AskedInTurn, Rising, After, NobodyAsks
  <2>2. CASE shown # NobodyAsks
    <3>1. waiting' = Append(waiting, first) /\ shown' = shown
      BY <1>1, <2>2
    <3>2. /\ Rising(waiting) /\ Numbered(waiting) /\ After(shown.number, waiting)
          /\ shown.number \in 1 .. asked /\ shown.number < first.number /\ After(shown.number, rest)
          /\ \A i \in 1 .. Len(waiting) : waiting[i].number < first.number /\ After(waiting[i].number, rest)
      BY <1>2, <2>2, TurnParts
    <3>3. /\ Rising(waiting') /\ Numbered(waiting') /\ After(shown.number, waiting')
          /\ \A i \in 1 .. Len(waiting') :
               waiting'[i] = first \/ \E j \in 1 .. Len(waiting) : waiting'[i] = waiting[j]
      BY <1>2, <3>1, <3>2, AskParts, QueueAppend
    <3>4. \A i \in 1 .. Len(waiting') : After(waiting'[i].number, rest)
      BY <1>2, <3>2, <3>3
    <3>5. (Numbered(waiting))' /\ (Numbered(channel))'
      BY <1>1, <1>2, <3>3 DEF Numbered
    <3>6. Rising(channel') /\ After(shown'.number, waiting') /\ After(shown'.number, channel')
          /\ shown'.number \in 1 .. asked'
      BY <1>1, <1>2, <3>1, <3>2, <3>3
    <3> QED
      BY <1>1, <2>2, <3>1, <3>3, <3>4, <3>5, <3>6 DEF AskedInTurn, Rising, After, NobodyAsks
  <2> QED
    BY <2>1, <2>2
<1>8. QuestionsAreHeld'
  <2> SUFFICES ASSUME NEW one \in Askers, asks'[one].at = "asking"
               PROVE  (IsAsked(Question(one)))'
    BY DEF QuestionsAreHeld, Askers
  <2>1. IsAsked(Question(one)) /\ (Question(one))' = Question(one)
    BY <1>1 DEF ApprovalInv, QuestionsAreHeld, Question
  <2>2. CASE shown = NobodyAsks
    <3>1. ~In(Question(one), waiting) /\ shown' = first
      BY <1>1, <2>2, TurnParts, EmptyQueue
    <3>2. Question(one) = first \/ In(Question(one), rest)
      BY <1>2, <2>1, <2>2, <3>1 DEF IsAsked
    <3> QED
      BY <1>1, <1>3, <2>1, <3>1, <3>2 DEF IsAsked, In, NobodyAsks
  <2>3. CASE shown # NobodyAsks
    <3>1. waiting' = Append(waiting, first) /\ shown' = shown
      BY <1>1, <2>3
    <3>2. \A approval : In(approval, waiting) \/ approval = first => In(approval, waiting')
      BY <1>2, <3>1, AskParts, QueueAppend
    <3>3. \/ shown = Question(one) \/ In(Question(one), waiting') \/ In(Question(one), channel')
      BY <1>1, <1>2, <2>1, <3>2 DEF IsAsked
    <3> QED
      BY <2>1, <2>3, <3>1, <3>3 DEF IsAsked, In, NobodyAsks
  <2> QED
    BY <2>2, <2>3
<1> QED
  BY <1>5, <1>6, <1>7, <1>8 DEF ApprovalInv, Askers

(* The next prompt, or none, takes the place of the one that is answered.  *)
LEMMA NextIsShown ==
  ASSUME ApprovalInv, shown # NobodyAsks, ShowsNext, UNCHANGED <<asked, channel>>
  PROVE  /\ AskedInTurn' /\ shown' \in Approval /\ waiting' \in Seq(Approval)
         /\ \A approval : IsAsked(approval) /\ approval # shown => (IsAsked(approval))'
<1>1. CASE waiting = <<>>
  <2>1. shown' = NobodyAsks /\ waiting' = <<>>
    BY <1>1 DEF ShowsNext
  <2>2. Rising(waiting') /\ (Numbered(waiting))' /\ Len(waiting') = 0
    BY <2>1, EmptyQueue DEF Numbered
  <2>3. (Rising(channel))' /\ (Numbered(channel))'
    BY TurnParts DEF Rising, Numbered
  <2>4. AskedInTurn'
    BY <2>1, <2>2, <2>3 DEF AskedInTurn, Rising, NobodyAsks
  <2>5. waiting' \in Seq(Approval) /\ shown' \in Approval
    BY <2>1, NotCallingFacts
  <2>6. \A approval : IsAsked(approval) /\ approval # shown => (IsAsked(approval))'
    BY <1>1, EmptyQueue DEF IsAsked, In
  <2> QED
    BY <2>4, <2>5, <2>6
<1>2. CASE waiting # <<>>
  <2> DEFINE first == Head(waiting)
             rest == Tail(waiting)
  <2>1. shown' = first /\ waiting' = rest
    BY <1>2 DEF ShowsNext
  <2>2. /\ first \in Approval /\ rest \in Seq(Approval)
        /\ Rising(rest) /\ After(first.number, rest)
        /\ first.number \in 1 .. asked /\ Numbered(rest)
        /\ \A approval : In(approval, waiting) => approval = first \/ In(approval, rest)
    BY <1>2, AskParts, TurnParts, QueueTail
  <2>3. /\ Len(waiting) \in Nat /\ first = waiting[1] /\ 1 \in 1 .. Len(waiting)
        /\ \A i \in 1 .. Len(rest) : i + 1 \in 1 .. Len(waiting) /\ rest[i] = waiting[i + 1]
    BY <1>2, AskParts
  <2> HIDE DEF first, rest
  <2>4. /\ After(first.number, channel) /\ Rising(channel) /\ Numbered(channel)
        /\ \A i \in 1 .. Len(rest) : After(rest[i].number, channel)
    BY <2>3, TurnParts
  <2>5. first # NobodyAsks
    BY <2>2, IsSomebody
  <2>6. (Numbered(waiting))' /\ (Numbered(channel))' /\ Rising(waiting') /\ Rising(channel')
        /\ After(shown'.number, waiting') /\ After(shown'.number, channel') /\ shown'.number \in 1 .. asked'
    BY <2>1, <2>2, <2>4 DEF Numbered
  <2>7. \A i \in 1 .. Len(waiting') : After(waiting'[i].number, channel')
    BY <2>1, <2>4
  <2>8. AskedInTurn'
    BY <2>1, <2>5, <2>6, <2>7 DEF AskedInTurn, Rising, After, NobodyAsks
  <2>9. ASSUME NEW approval, IsAsked(approval), approval # shown
        PROVE  (IsAsked(approval))'
    <3>1. approval = first \/ In(approval, rest) \/ In(approval, channel)
      BY <2>2, <2>9 DEF IsAsked
    <3> QED
      BY <2>1, <2>5, <3>1 DEF IsAsked, In, NobodyAsks
  <2> QED
    BY <2>1, <2>2, <2>8, <2>9
<1> QED
  BY <1>1, <1>2

LEMMA AllowingIs ==
  ASSUME NEW rules \in RuleSets, NEW call
  PROVE  Allowing(rules, rule_for(call)) \in RuleSets
<1> DEFINE allow == rules.allow \cup {rule_for(call)}
<1>1. rule_for(call) \in Rules
  BY DEF rule_for, Rules
<1>2. allow \in SUBSET Rules
  BY <1>1 DEF RuleSets
<1>3. Allowing(rules, rule_for(call)) = [rules EXCEPT !.allow = allow]
  BY DEF Allowing
<1> HIDE DEF allow
<1> QED
  BY <1>2, <1>3 DEF RuleSets

LEMMA AnswersKeep ==
  ASSUME ApprovalInv, NEW key \in Keys, AnswersWith(key)
  PROVE  ApprovalInv'
<1> DEFINE who == shown.who
           yes == key # "n"
<1>1. /\ shown # NobodyAsks /\ Hears(shown, yes) /\ ShowsNext
      /\ agreed' = IF yes THEN agreed \union {shown} ELSE agreed
      /\ UNCHANGED <<options, childOptions, runOptions, running, children, asked, channel>>
  BY DEF AnswersWith
<1>2. who \in Askers
  BY AskParts DEF Approval
<1>3. configured' \in Permits /\ live' \in RuleSets
  <2>1. CASE key = "a"
    <3> DEFINE rules == Allowing(configured.rules, rule_for(shown.call))
    <3>1. live' = Allowing(live, rule_for(shown.call)) /\ configured' = [configured EXCEPT !.rules = rules]
      BY <2>1, AskParts DEF AnswersWith, Permits
    <3>2. rules \in RuleSets /\ live' \in RuleSets
      BY <3>1, AskParts, PermitFacts, AllowingIs
    <3> HIDE DEF rules
    <3> QED
      BY <3>1, <3>2, AskParts, RulesSet
  <2>2. CASE key # "a"
    BY <2>2, AskParts DEF AnswersWith
  <2> QED
    BY <2>1, <2>2
<1>4. /\ AskedInTurn' /\ shown' \in Approval /\ waiting' \in Seq(Approval)
      /\ \A approval : IsAsked(approval) /\ approval # shown => (IsAsked(approval))'
  BY <1>1, NextIsShown
<1>5. agreed' \subseteq Approval /\ agreed \subseteq agreed' /\ (yes => shown \in agreed')
  BY <1>1, AskParts
<1> DEFINE heard == asks[who].at = "asking" /\ asks[who].number = shown.number
           now == IF yes THEN [asks[who] EXCEPT !.at = "through", !.by = "person"] ELSE NotCalling
<1>6. asks' = IF heard THEN [asks EXCEPT ![who] = now] ELSE asks
  BY <1>1, <1>2, AskParts DEF Hears
<1>7. /\ now \in AskRecords /\ now.at \in {"none", "through"}
      /\ yes => now.at = "through" /\ now.by = "person" /\ now.call = asks[who].call
                 /\ now.number = asks[who].number
      /\ ~yes => now.at = "none"
  <2>1. CASE yes
    BY <1>2, <2>1, AskerParts DEF AskRecords
  <2>2. CASE ~yes
    BY <2>2, NotCallingFacts
  <2> QED
    BY <2>1, <2>2
<1>8. \A one \in Askers : asks[one].at = "asking" /\ Question(one).number = shown.number => Question(one) = shown
  <2> SUFFICES ASSUME NEW one \in Askers, asks[one].at = "asking", Question(one).number = shown.number
               PROVE  Question(one) = shown
    OBVIOUS
  <2>1. IsAsked(Question(one)) /\ shown.number \in Nat
    BY <1>1, TurnParts DEF ApprovalInv, QuestionsAreHeld
  <2>2. ~In(Question(one), waiting)
    <3> SUFFICES ASSUME NEW i \in 1 .. Len(waiting), waiting[i] = Question(one) PROVE FALSE
      BY DEF In
    <3>1. shown.number < waiting[i].number
      BY <1>1, TurnParts DEF After
    <3> QED
      BY <2>1, <3>1
  <2>3. ~In(Question(one), channel)
    <3> SUFFICES ASSUME NEW i \in 1 .. Len(channel), channel[i] = Question(one) PROVE FALSE
      BY DEF In
    <3>1. shown.number < channel[i].number
      BY <1>1, TurnParts DEF After
    <3> QED
      BY <2>1, <3>1
  <2> QED
    BY <2>1, <2>2, <2>3 DEF IsAsked
<1> HIDE DEF now, heard
<1>9. CASE ~heard
  <2>1. UNCHANGED asks
    BY <1>6, <1>9
  <2>2. ASSUME NEW one \in Askers
        PROVE  Stands(one) /\ (Calling(one))' = Calling(one)
    BY <1>1, <2>1 DEF Stands, PermitsOf, Calling
  <2>3. AskTyped'
    BY <1>1, <1>3, <1>4, <1>5, <2>1, AskParts, TypedThen
  <2>4. Between'
    BY <2>1, <2>2 DEF ApprovalInv, Between, Askers, NotCalling
  <2>5. QuestionsAreHeld'
    <3> SUFFICES ASSUME NEW one \in Askers, asks'[one].at = "asking"
                 PROVE  (IsAsked(Question(one)))'
      BY DEF QuestionsAreHeld, Askers
    <3>1. IsAsked(Question(one)) /\ (Question(one))' = Question(one)
      BY <2>1 DEF ApprovalInv, QuestionsAreHeld, Question
    <3>2. Question(one) # shown
      <4>1. Question(one).who = one /\ Question(one).number = asks[one].number
        BY DEF Question
      <4> QED
        BY <1>9, <2>1, <4>1 DEF heard
    <3> QED
      BY <1>4, <3>1, <3>2
  <2>6. \A one \in Askers : (MayGo(one))'
    BY <1>5, <2>2, GoStays
  <2> QED
    BY <1>4, <2>3, <2>4, <2>5, <2>6 DEF ApprovalInv, Askers
<1>10. CASE heard
  <2>1. asks' = [asks EXCEPT ![who] = now] /\ asks[who].at = "asking" /\ asks[who].number = shown.number
    BY <1>6, <1>10 DEF heard
  <2>2. Calling(who)
    BY <1>2, <2>1, NotCallingFacts DEF ApprovalInv, Between
  <2>3. Question(who).who = who /\ Question(who).number = asks[who].number /\ Question(who).call = asks[who].call
    BY DEF Question
  <2>4. Question(who) = shown
    BY <1>2, <1>8, <2>1, <2>3
  <2>5. ~\E rule \in PermitsOf(who).rules.deny : Fits(rule, asks[who].call)
    BY <1>2, <2>1 DEF ApprovalInv, MayGo
  <2> HIDE DEF who
  <2>6. now.at \in {"asking", "through"} =>
          ~\E rule \in PermitsOf(who).rules.deny : Fits(rule, now.call)
    BY <1>7, <2>5
  <2>7. now.at = "through" =>
          now.by = "person" /\ [who |-> who, call |-> now.call, number |-> now.number] \in agreed'
    BY <1>5, <1>7, <2>4 DEF Question
  <2>8. /\ AskTyped' /\ Between' /\ (\A one \in Askers : (MayGo(one))')
        /\ asks'[who] = now /\ \A one \in Askers \ {who} : asks'[one] = asks[one]
    BY <1>1, <1>2, <1>3, <1>4, <1>5, <1>7, <2>1, <2>2, <2>6, <2>7, AskParts, OneGoes
  <2>9. QuestionsAreHeld'
    <3> SUFFICES ASSUME NEW one \in Askers, asks'[one].at = "asking"
                 PROVE  (IsAsked(Question(one)))'
      BY DEF QuestionsAreHeld, Askers
    <3>1. one # who /\ asks'[one] = asks[one]
      BY <1>7, <2>8
    <3>2. IsAsked(Question(one)) /\ (Question(one))' = Question(one) /\ Question(one).who = one
      BY <3>1 DEF ApprovalInv, QuestionsAreHeld, Question
    <3> QED
      BY <1>4, <2>3, <2>4, <3>1, <3>2
  <2> QED
    BY <1>4, <2>8, <2>9 DEF ApprovalInv, Askers
<1> QED
  BY <1>9, <1>10

(* The approvals in the order they will be answered are those three parts, *)
(* one after the other.                                                    *)
LEMMA ConcatRises ==
  ASSUME NEW one \in Seq(Approval), NEW other \in Seq(Approval), Rising(one), Rising(other),
         \A i \in 1 .. Len(one) : After(one[i].number, other)
  PROVE  /\ one \o other \in Seq(Approval) /\ Rising(one \o other)
         /\ \A number : After(number, one) /\ After(number, other) => After(number, one \o other)
         /\ \A approval : In(approval, one) \/ In(approval, other) => In(approval, one \o other)
         /\ \A i \in 1 .. Len(one \o other) :
              \/ \E j \in 1 .. Len(one) : (one \o other)[i] = one[j]
              \/ \E j \in 1 .. Len(other) : (one \o other)[i] = other[j]
<1> DEFINE all == one \o other
<1>1. /\ all \in Seq(Approval) /\ Len(one) \in Nat /\ Len(other) \in Nat
      /\ Len(all) = Len(one) + Len(other)
      /\ \A i \in 1 .. Len(one) : all[i] = one[i]
      /\ \A i \in 1 .. Len(other) : all[Len(one) + i] = other[i]
  OBVIOUS
<1> HIDE DEF all
<1>2. \A i \in 1 .. Len(all) : i \in 1 .. Len(one) \/ (i - Len(one) \in 1 .. Len(other) /\ i = Len(one) + (i - Len(one)))
  BY <1>1
<1>3. \A i \in 1 .. Len(all) : i \in 1 .. Len(one) \/ (i - Len(one) \in 1 .. Len(other) /\ all[i] = other[i - Len(one)])
  BY <1>1, <1>2
<1>4. \A i \in 1 .. Len(all) : \/ \E j \in 1 .. Len(one) : all[i] = one[j]
                              \/ \E j \in 1 .. Len(other) : all[i] = other[j]
  BY <1>1, <1>3
<1>5. Rising(all)
  <2> SUFFICES ASSUME NEW i \in 1 .. Len(all), NEW j \in 1 .. Len(all), i < j
               PROVE  all[i].number < all[j].number
    BY DEF Rising
  <2>1. CASE j \in 1 .. Len(one)
    <3>1. i \in 1 .. Len(one)
      BY <1>1, <2>1
    <3> QED
      BY <1>1, <2>1, <3>1 DEF Rising
  <2>2. CASE j - Len(one) \in 1 .. Len(other) /\ all[j] = other[j - Len(one)]
    <3>1. CASE i \in 1 .. Len(one)
      BY <1>1, <2>2, <3>1 DEF After
    <3>2. CASE i - Len(one) \in 1 .. Len(other) /\ all[i] = other[i - Len(one)]
      <4>1. i - Len(one) < j - Len(one)
        BY <1>1
      <4>2. other[i - Len(one)].number < other[j - Len(one)].number
        BY <2>2, <3>2, <4>1 DEF Rising
      <4> QED
        BY <2>2, <3>2, <4>2
    <3> QED
      BY <1>3, <3>1, <3>2
  <2> QED
    BY <1>3, <2>1, <2>2
<1>6. ASSUME NEW number, After(number, one), After(number, other)
      PROVE  After(number, all)
  BY <1>4, <1>6 DEF After
<1>7. ASSUME NEW approval, In(approval, one) \/ In(approval, other)
      PROVE  In(approval, all)
  <2>1. \A i \in 1 .. Len(one) : i \in 1 .. Len(all)
    BY <1>1
  <2>2. \A i \in 1 .. Len(other) : Len(one) + i \in 1 .. Len(all)
    BY <1>1
  <2> QED
    BY <1>1, <1>7, <2>1, <2>2 DEF In
<1> QED
  BY <1>1, <1>4, <1>5, <1>6, <1>7 DEF all

(* Every question is among the unanswered approvals, which are in order.   *)
LEMMA UnansweredIs ==
  ASSUME ApprovalInv
  PROVE  /\ Unanswered \in Seq(Approval) /\ Rising(Unanswered)
         /\ \A approval : IsAsked(approval) => In(approval, Unanswered)
<1> DEFINE here == IF shown = NobodyAsks THEN <<>> ELSE <<shown>>
           queue == here \o waiting
<1>2. here \in Seq(Approval) /\ Rising(here)
  <2>1. CASE shown = NobodyAsks
    BY <2>1, EmptyQueue
  <2>2. CASE shown # NobodyAsks
    <3>1. here = <<shown>> /\ shown \in Approval
      BY <2>2, AskParts
    <3>2. here \in Seq(Approval) /\ Len(here) = 1
      BY <3>1
    <3> QED
      BY <3>2 DEF Rising
  <2> QED
    BY <2>1, <2>2
<1>3. /\ \A i \in 1 .. Len(here) : here[i] = shown /\ shown # NobodyAsks
      /\ shown # NobodyAsks => In(shown, here)
      /\ here = <<>> <=> shown = NobodyAsks
  <2>1. CASE shown = NobodyAsks
    <3>1. here = <<>> /\ Len(here) = 0
      BY <2>1
    <3> QED
      BY <2>1, <3>1
  <2>2. CASE shown # NobodyAsks
    <3>1. here = <<shown>> /\ shown \in Approval
      BY <2>2, AskParts
    <3>2. Len(here) = 1 /\ here[1] = shown
      BY <3>1
    <3>3. here # <<>>
      BY <3>2
    <3> QED
      BY <2>2, <3>2, <3>3 DEF In
  <2> QED
    BY <2>1, <2>2
<1> HIDE DEF here
<1>4. \A i \in 1 .. Len(here) : After(here[i].number, waiting) /\ After(here[i].number, channel)
  BY <1>3, TurnParts
<1>5. /\ queue \in Seq(Approval) /\ Rising(queue)
      /\ \A approval : In(approval, here) \/ In(approval, waiting) => In(approval, queue)
      /\ \A i \in 1 .. Len(queue) : \/ \E j \in 1 .. Len(here) : queue[i] = here[j]
                                    \/ \E j \in 1 .. Len(waiting) : queue[i] = waiting[j]
  BY <1>2, <1>4, AskParts, TurnParts, ConcatRises
<1> HIDE DEF queue
<1>6. \A i \in 1 .. Len(queue) : After(queue[i].number, channel)
  BY <1>4, <1>5, TurnParts
<1>7. Unanswered = queue \o channel
  <2>1. here \o waiting \o channel = queue \o channel
    BY DEF queue
  <2> QED
    BY <2>1 DEF Unanswered, here
<1>8. /\ Unanswered \in Seq(Approval) /\ Rising(Unanswered)
      /\ \A approval : In(approval, queue) \/ In(approval, channel) => In(approval, Unanswered)
  BY <1>5, <1>6, <1>7, AskParts, TurnParts, ConcatRises
<1>9. DOMAIN Unanswered = 1 .. Len(Unanswered)
  BY <1>8
<1> QED
  BY <1>3, <1>5, <1>8 DEF IsAsked

(* Dropping prompts ends the calls that wait for them and no other.        *)
LEMMA UnheardIs ==
  ASSUME ApprovalInv, NEW prompts \in Seq(Approval)
  PROVE  /\ Unheard(prompts) \in [Askers -> AskRecords]
         /\ \A who \in Askers :
              /\ Unheard(prompts)[who] \in {NotCalling, asks[who]}
              /\ Unheard(prompts)[who].at = "asking" =>
                   Unheard(prompts)[who] = asks[who] /\ ~In(Question(who), prompts)
<1> DEFINE Drops(who) == /\ asks[who].at = "asking"
                         /\ \E i \in DOMAIN prompts : prompts[i].who = who /\ prompts[i].number = asks[who].number
<1>1. Unheard(prompts) = [who \in Askers |-> IF Drops(who) THEN NotCalling ELSE asks[who]]
  BY DEF Unheard
<1>2. DOMAIN prompts = 1 .. Len(prompts)
  OBVIOUS
<1>3. ASSUME NEW who \in Askers, asks[who].at = "asking", In(Question(who), prompts)
      PROVE  Drops(who)
  <2>1. PICK i \in 1 .. Len(prompts) : prompts[i] = Question(who)
    BY <1>3 DEF In
  <2>2. Question(who).who = who /\ Question(who).number = asks[who].number
    BY DEF Question
  <2> QED
    BY <1>2, <1>3, <2>1, <2>2
<1> HIDE DEF Drops
<1>4. ASSUME NEW who \in Askers
      PROVE  /\ Unheard(prompts)[who] \in {NotCalling, asks[who]}
             /\ Unheard(prompts)[who].at = "asking" =>
                  Unheard(prompts)[who] = asks[who] /\ ~In(Question(who), prompts)
  <2>1. CASE Drops(who)
    BY <1>1, <2>1, NotCallingFacts
  <2>2. CASE ~Drops(who)
    BY <1>1, <1>3, <2>2
  <2> QED
    BY <2>1, <2>2
<1> QED
  BY <1>1, <1>4, AskParts, NotCallingFacts

(* Prompts are dropped, and whoever waits for another is still asked.      *)
LEMMA DropsKeep ==
  ASSUME ApprovalInv, NEW prompts \in Seq(Approval), asks' = Unheard(prompts),
         UNCHANGED <<configured, live, runOptions, children, asked, agreed>>,
         options' \in Permits, childOptions' \in Permits,
         running' \in {"no", "yes", "cancelled", "returned", "lost"},
         running \in {"yes", "cancelled"} => running' \in {"yes", "cancelled"},
         shown' = NobodyAsks, waiting' = <<>>, channel' \in {channel, <<>>},
         \A who \in Askers : asks[who].at = "asking" =>
           In(Question(who), prompts) \/ (UNCHANGED channel /\ In(Question(who), channel))
  PROVE  ApprovalInv'
<1>1. /\ asks' \in [Askers -> AskRecords]
      /\ \A who \in Askers :
           /\ asks'[who] \in {NotCalling, asks[who]}
           /\ asks'[who].at = "asking" => asks'[who] = asks[who] /\ ~In(Question(who), prompts)
  BY UnheardIs
<1>2. waiting' \in Seq(Approval) /\ shown' \in Approval /\ channel' \in Seq(Approval)
  <2>1. <<>> \in Seq(Approval)
    OBVIOUS
  <2> QED
    BY <2>1, AskParts, NotCallingFacts
<1>3. AskTyped'
  BY <1>1, <1>2, AskParts, TypedThen
<1>4. \A who \in Askers : (Stands(who) \/ Over(who)) /\ ((Calling(who))' \/ ~Calling(who))
  BY <1>1 DEF Stands, Over, PermitsOf, Calling
<1>5. Between'
  <2> SUFFICES ASSUME NEW who \in Askers, ~(Calling(who))' PROVE asks'[who] = NotCalling
    BY DEF Between, Askers, NotCalling
  <2>1. asks[who] = NotCalling
    BY <1>4 DEF ApprovalInv, Between
  <2> QED
    BY <1>1, <2>1
<1>6. AskedInTurn'
  <2>1. Rising(waiting') /\ (Numbered(waiting))' /\ Len(waiting') = 0
    BY EmptyQueue DEF Numbered
  <2>2. (Rising(channel))' /\ (Numbered(channel))'
    <3>1. CASE channel' = channel
      BY <3>1, TurnParts DEF Rising, Numbered
    <3>2. CASE channel' = <<>>
      BY <3>2, EmptyQueue DEF Rising, Numbered
    <3> QED
      BY <3>1, <3>2
  <2> QED
    BY <2>1, <2>2 DEF AskedInTurn, Rising, NobodyAsks
<1>7. QuestionsAreHeld'
  <2> SUFFICES ASSUME NEW who \in Askers, asks'[who].at = "asking"
               PROVE  (IsAsked(Question(who)))'
    BY DEF QuestionsAreHeld, Askers
  <2>1. asks'[who] = asks[who] /\ ~In(Question(who), prompts)
    BY <1>1
  <2>2. (Question(who))' = Question(who) /\ UNCHANGED channel /\ In(Question(who), channel)
    BY <2>1 DEF Question
  <2> QED
    BY <2>2 DEF IsAsked, In
<1> QED
  BY <1>3, <1>4, <1>5, <1>6, <1>7, GoStays DEF ApprovalInv, Askers

LEMMA InterruptsKeeps ==
  ASSUME ApprovalInv, Interrupts
  PROVE  ApprovalInv'
<1> DEFINE here == <<shown>>
           prompts == here \o waiting
<1>1. /\ shown # NobodyAsks /\ running' = IF running = "yes" THEN "cancelled" ELSE running
      /\ asks' = Unheard(prompts) /\ shown' = NobodyAsks /\ waiting' = <<>>
      /\ UNCHANGED <<configured, live, options, childOptions, runOptions, children, asked, channel, agreed>>
  BY DEF Interrupts, settings
<1>2. here \in Seq(Approval) /\ Len(here) = 1 /\ here[1] = shown
  BY AskParts
<1>3. Rising(here) /\ In(shown, here) /\ \A i \in 1 .. Len(here) : After(here[i].number, waiting)
  <2>1. After(shown.number, waiting)
    BY <1>1, TurnParts
  <2>2. \A i \in 1 .. Len(here) : i = 1
    BY <1>2
  <2>3. 1 \in 1 .. Len(here)
    BY <1>2
  <2> HIDE DEF here
  <2> QED
    BY <1>2, <2>1, <2>2, <2>3 DEF Rising, In
<1> HIDE DEF here
<1>4. /\ prompts \in Seq(Approval)
      /\ \A approval : In(approval, here) \/ In(approval, waiting) => In(approval, prompts)
  BY <1>2, <1>3, AskParts, TurnParts, ConcatRises
<1> HIDE DEF prompts
<1>5. \A who \in Askers : asks[who].at = "asking" => In(Question(who), prompts) \/ In(Question(who), channel)
  BY <1>3, <1>4 DEF ApprovalInv, QuestionsAreHeld, IsAsked
<1>6. running' \in {"no", "yes", "cancelled", "returned", "lost"}
      /\ (running \in {"yes", "cancelled"} => running' \in {"yes", "cancelled"})
  BY <1>1, AskParts
<1> QED
  BY <1>1, <1>4, <1>5, <1>6, AskParts, DropsKeep

(* The end of a run drops every prompt, and nobody waits for one of them.  *)
LEMMA FinishedKeeps ==
  ASSUME ApprovalInv, Finished
  PROVE  ApprovalInv'
<1>1. /\ running \in {"returned", "lost"} /\ running' = "no"
      /\ asks' = Unheard(Unanswered)
      /\ channel' = <<>> /\ shown' = NobodyAsks /\ waiting' = <<>>
      /\ options' \in {options, configured} /\ childOptions' \in {childOptions, configured}
      /\ UNCHANGED <<configured, live, runOptions, children, asked, agreed>>
  BY DEF Finished
<1>2. /\ Unanswered \in Seq(Approval)
      /\ \A who \in Askers : asks[who].at = "asking" => In(Question(who), Unanswered)
  BY UnansweredIs DEF ApprovalInv, QuestionsAreHeld
<1> QED
  BY <1>1, <1>2, AskParts, DropsKeep

LEMMA ApprovalStep == ApprovalInv /\ [ApprovalsNext]_approvalsVars => ApprovalInv'
<1> SUFFICES ASSUME ApprovalInv, [ApprovalsNext]_approvalsVars
             PROVE  ApprovalInv'
  OBVIOUS
<1>1. CASE UNCHANGED approvalsVars
  <2>1. UNCHANGED <<configured, live, options, childOptions, runOptions, running, children, asks, asked, screen, agreed>>
    BY <1>1 DEF approvalsVars, settings
  <2> QED
    BY <2>1, AskParts, SettingsMove
<1>2. CASE ApprovalsNext
  BY <1>2, SettingsKeep, BeginsRunKeeps, DelegatesKeeps, ChildEndsKeeps, AdmitsKeeps, CallEndsKeeps,
     TakesApprovalKeeps, AnswersKeep, InterruptsKeeps, CancelsRunKeeps, RunStopsKeeps, FinishedKeeps
     DEF ApprovalsNext
<1> QED
  BY <1>1, <1>2

LEMMA ApprovalHolds == ApprovalInv => ApprovalsTypeOK /\ ApprovalsHeard
<1> SUFFICES ASSUME ApprovalInv
             PROVE  ApprovalsTypeOK /\ ApprovalsHeard
  OBVIOUS
<1>1. ApprovalsTypeOK
  BY AskParts DEF ApprovalsTypeOK, AskRecords, ChildRecords
<1>2. /\ Unanswered \in Seq(Approval) /\ Rising(Unanswered)
      /\ \A approval : IsAsked(approval) => In(approval, Unanswered)
  BY UnansweredIs
<1>3. DOMAIN Unanswered = 1 .. Len(Unanswered)
  BY <1>2
<1>4. AskIsHeld
  <2> SUFFICES ASSUME NEW who \in Askers, asks[who].at = "asking"
               PROVE  \E i \in DOMAIN Unanswered : Unanswered[i] = Question(who)
    BY DEF AskIsHeld
  <2>1. IsAsked(Question(who))
    BY DEF ApprovalInv, QuestionsAreHeld
  <2> QED
    BY <1>2, <1>3, <2>1 DEF In
<1>5. AnsweredInTurn
  BY <1>2, <1>3, TurnParts DEF AnsweredInTurn, Rising
<1>6. LetThrough
  <2>1. \A who \in Askers : MayGo(who)
    BY DEF ApprovalInv
  <2> QED
    BY <2>1 DEF LetThrough, MayGo
<1> QED
  BY <1>1, <1>4, <1>5, <1>6 DEF ApprovalsHeard

-----------------------------------------------------------------------------

(* The plan.                                                               *)
PathItems == PlanCalls \union {"user"}
TodoCalls == PlanLists \union {"malformed"}
OpenPlans == [current : PlanLists \union {"none"}, quiet : 0 .. Patience - 1]

(* Every beginning of a path has a last list and a last todo call, when it *)
(* has one at all.                                                         *)
Among(path, n, kind) == {i \in 1 .. n : path[i] \in kind}
HasLast(S) == S = {} \/ \E m \in S : \A j \in S : j <= m
Lasts(path) ==
  \A n \in 0 .. Len(path) : HasLast(Among(path, n, PlanLists)) /\ HasLast(Among(path, n, TodoCalls))

LEMMA KindFacts ==
  /\ PlanLists \subseteq PathItems /\ PlanLists \subseteq TodoCalls /\ TodoCalls \subseteq PathItems
  /\ "user" \notin TodoCalls /\ "other" \notin TodoCalls /\ "malformed" \notin PlanLists
  /\ "malformed" \in TodoCalls /\ "none" \notin PlanLists /\ "user" \in PathItems
  /\ PlanCalls = TodoCalls \union {"other"} /\ PlanCalls \subseteq PathItems
  /\ "user" \notin PlanLists /\ "other" \notin PlanLists
BY PlanAssumption DEF PlanLists, PathItems, TodoCalls, PlanCalls

LEMMA LastAppend ==
  ASSUME NEW path \in Seq(PathItems), NEW x \in PathItems, NEW kind, NEW n \in 0 .. Len(path) + 1,
         \A k \in 0 .. Len(path) : HasLast(Among(path, k, kind))
  PROVE  HasLast(Among(Append(path, x), n, kind))
<1> DEFINE next == Append(path, x)
<1>1. \A i \in 1 .. Len(path) : next[i] = path[i]
  OBVIOUS
<1>2. next[Len(path) + 1] = x /\ Len(path) \in Nat
  OBVIOUS
<1> HIDE DEF next
<1>3. CASE n \in 0 .. Len(path)
  <2>1. Among(next, n, kind) = Among(path, n, kind)
    BY <1>1, <1>2, <1>3 DEF Among
  <2> QED
    BY <1>3, <2>1 DEF next
<1>4. CASE n = Len(path) + 1
  <2>1. CASE x \in kind
    <3>1. n \in Among(next, n, kind)
      BY <1>2, <1>4, <2>1 DEF Among
    <3>2. \A j \in Among(next, n, kind) : j <= n
      BY <1>2, <1>4 DEF Among
    <3> QED
      BY <3>1, <3>2 DEF HasLast, next
  <2>2. CASE x \notin kind
    <3>1. Among(next, n, kind) = Among(path, Len(path), kind)
      BY <1>1, <1>2, <1>4, <2>2 DEF Among
    <3>2. HasLast(Among(path, Len(path), kind))
      BY <1>2
    <3> QED
      BY <3>1, <3>2 DEF next
  <2> QED
    BY <2>1, <2>2
<1> QED
  BY <1>2, <1>3, <1>4

LEMMA LastsAppend ==
  ASSUME NEW path \in Seq(PathItems), NEW x \in PathItems, Lasts(path)
  PROVE  Lasts(Append(path, x))
<1>1. Len(Append(path, x)) = Len(path) + 1 /\ Len(path) \in Nat
  OBVIOUS
<1>2. /\ \A k \in 0 .. Len(path) : HasLast(Among(path, k, PlanLists))
      /\ \A k \in 0 .. Len(path) : HasLast(Among(path, k, TodoCalls))
  BY DEF Lasts
<1>3. \A n \in 0 .. Len(path) + 1 : HasLast(Among(Append(path, x), n, PlanLists))
  BY <1>2, LastAppend
<1>4. \A n \in 0 .. Len(path) + 1 : HasLast(Among(Append(path, x), n, TodoCalls))
  BY <1>2, LastAppend
<1> QED
  BY <1>1, <1>3, <1>4 DEF Lasts

LEMMA LastsPrefix ==
  ASSUME NEW path \in Seq(PathItems), NEW k \in 0 .. Len(path), Lasts(path)
  PROVE  /\ SubSeq(path, 1, k) \in Seq(PathItems) /\ Len(SubSeq(path, 1, k)) = k
         /\ \A i \in 1 .. k : SubSeq(path, 1, k)[i] = path[i]
         /\ Lasts(SubSeq(path, 1, k))
<1> DEFINE next == SubSeq(path, 1, k)
<1>1. /\ next \in Seq(PathItems) /\ Len(next) = k /\ \A i \in 1 .. k : next[i] = path[i]
      /\ Len(path) \in Nat /\ k \in Nat
  OBVIOUS
<1> HIDE DEF next
<1>2. ASSUME NEW n \in 0 .. k
      PROVE  /\ Among(next, n, PlanLists) = Among(path, n, PlanLists)
             /\ Among(next, n, TodoCalls) = Among(path, n, TodoCalls)
             /\ n \in 0 .. Len(path)
  BY <1>1 DEF Among
<1>3. Lasts(next)
  BY <1>1, <1>2 DEF Lasts
<1> QED
  BY <1>1, <1>3 DEF next

(* The list that a session shows is the last one of its path.              *)
LEMMA SessionPlanIs ==
  ASSUME NEW path \in Seq(PathItems), NEW m \in 1 .. Len(path), path[m] \in PlanLists,
         \A j \in 1 .. Len(path) : path[j] \in PlanLists => j <= m
  PROVE  session_plan(path) = path[m]
<1> DEFINE lists == {i \in 1 .. Len(path) : path[i] \in PlanLists}
           last == CHOOSE i \in lists : \A j \in lists : j <= i
<1>1. m \in lists /\ \A j \in lists : j <= m /\ j \in Nat
  OBVIOUS
<1>2. last \in lists /\ \A j \in lists : j <= last
  BY <1>1
<1> HIDE DEF last
<1>3. last = m
  BY <1>1, <1>2
<1>4. session_plan(path) = IF lists = {} THEN "none" ELSE path[last]
  BY DEF session_plan, last
<1> HIDE DEF lists
<1> QED
  BY <1>1, <1>3, <1>4

LEMMA NoSessionPlan ==
  ASSUME NEW path \in Seq(PathItems), \A j \in 1 .. Len(path) : path[j] \notin PlanLists
  PROVE  session_plan(path) = "none"
BY DEF session_plan

LEMMA SessionPlanCases ==
  ASSUME NEW path \in Seq(PathItems), Lasts(path)
  PROVE  \/ \A j \in 1 .. Len(path) : path[j] \notin PlanLists
         \/ \E m \in 1 .. Len(path) : path[m] \in PlanLists /\
              \A j \in 1 .. Len(path) : path[j] \in PlanLists => j <= m
<1>1. HasLast(Among(path, Len(path), PlanLists))
  BY DEF Lasts
<1> QED
  BY <1>1 DEF HasLast, Among

LEMMA SessionPlanTyped ==
  ASSUME NEW path \in Seq(PathItems), Lasts(path)
  PROVE  session_plan(path) \in PlanLists \union {"none"}
BY SessionPlanCases, SessionPlanIs, NoSessionPlan

LEMMA SessionPlanAppend ==
  ASSUME NEW path \in Seq(PathItems), NEW x \in PathItems, Lasts(path)
  PROVE  session_plan(Append(path, x)) = IF x \in PlanLists THEN x ELSE session_plan(path)
<1> DEFINE next == Append(path, x)
<1>1. /\ next \in Seq(PathItems) /\ Len(next) = Len(path) + 1 /\ Len(path) \in Nat
      /\ \A i \in 1 .. Len(path) : next[i] = path[i]
      /\ next[Len(path) + 1] = x
  OBVIOUS
<1> HIDE DEF next
<1>2. CASE x \in PlanLists
  <2>1. Len(next) \in 1 .. Len(next) /\ next[Len(next)] = x /\ \A j \in 1 .. Len(next) : j <= Len(next)
    BY <1>1
  <2> QED
    BY <1>1, <1>2, <2>1, SessionPlanIs DEF next
<1>3. CASE x \notin PlanLists
  <2>1. CASE \A j \in 1 .. Len(path) : path[j] \notin PlanLists
    <3>1. \A j \in 1 .. Len(next) : next[j] \notin PlanLists
      BY <1>1, <1>3, <2>1
    <3> QED
      BY <1>1, <1>3, <2>1, <3>1, NoSessionPlan DEF next
  <2>2. CASE \E m \in 1 .. Len(path) : path[m] \in PlanLists /\
               \A j \in 1 .. Len(path) : path[j] \in PlanLists => j <= m
    <3>1. PICK m \in 1 .. Len(path) : path[m] \in PlanLists /\
            \A j \in 1 .. Len(path) : path[j] \in PlanLists => j <= m
      BY <2>2
    <3>2. /\ m \in 1 .. Len(next) /\ next[m] = path[m]
          /\ \A j \in 1 .. Len(next) : next[j] \in PlanLists => j <= m
      BY <1>1, <1>3, <3>1
    <3>3. session_plan(path) = path[m]
      BY <3>1, SessionPlanIs
    <3>4. session_plan(next) = next[m]
      BY <1>1, <3>1, <3>2, SessionPlanIs
    <3> QED
      BY <1>3, <3>2, <3>3, <3>4 DEF next
  <2> QED
    BY <2>1, <2>2, SessionPlanCases
<1> QED
  BY <1>2, <1>3

(* What the run begins with.                                               *)
LEMMA OpenedTyped ==
  ASSUME NEW list \in PlanLists \union {"none"}
  PROVE  opened(list) \in OpenPlans /\ opened(list).quiet = 0 /\ NoPlan \in OpenPlans
         /\ NoPlan.quiet = 0 /\ NoPlan.current = "none"
BY PlanAssumption DEF opened, OpenPlans, NoPlan

LEMMA RecalledIs ==
  ASSUME NEW path \in Seq(PathItems), planFrom \in Nat \ {0}, NEW m \in planFrom .. Len(path),
         path[m] \in TodoCalls, \A j \in planFrom .. Len(path) : path[j] \in TodoCalls => j <= m
  PROVE  recalled(path) = IF path[m] = "malformed" THEN NoPlan ELSE opened(path[m])
<1> DEFINE todos == {i \in planFrom .. Len(path) : path[i] \in TodoCalls}
           last == CHOOSE i \in todos : \A j \in todos : j <= i
<1>1. m \in todos /\ \A j \in todos : j <= m /\ j \in Nat
  OBVIOUS
<1>2. last \in todos /\ \A j \in todos : j <= last
  BY <1>1
<1> HIDE DEF last
<1>3. last = m
  BY <1>1, <1>2
<1>4. recalled(path) = IF todos = {} \/ path[last] = "malformed" THEN NoPlan ELSE opened(path[last])
  BY DEF recalled, last, TodoCalls
<1> HIDE DEF todos
<1> QED
  BY <1>1, <1>3, <1>4

LEMMA RecalledTyped ==
  ASSUME NEW path \in Seq(PathItems), Lasts(path), planFrom \in Nat \ {0}
  PROVE  recalled(path) \in OpenPlans /\ recalled(path).quiet = 0
<1>1. HasLast(Among(path, Len(path), TodoCalls)) /\ Len(path) \in Nat
  BY DEF Lasts
<1>2. CASE \A i \in planFrom .. Len(path) : path[i] \notin TodoCalls
  <2>1. recalled(path) = NoPlan
    BY <1>2 DEF recalled, TodoCalls
  <2> QED
    BY <2>1, OpenedTyped
<1>3. CASE \E i \in planFrom .. Len(path) : path[i] \in TodoCalls
  <2>1. PICK i \in planFrom .. Len(path) : path[i] \in TodoCalls
    BY <1>3
  <2>2. i \in Among(path, Len(path), TodoCalls)
    BY <2>1, <1>1 DEF Among
  <2>3. PICK m \in Among(path, Len(path), TodoCalls) :
          \A j \in Among(path, Len(path), TodoCalls) : j <= m
    BY <1>1, <2>2 DEF HasLast
  <2>4. m \in planFrom .. Len(path) /\ path[m] \in TodoCalls
    BY <1>1, <2>1, <2>2, <2>3 DEF Among
  <2>5. \A j \in planFrom .. Len(path) : path[j] \in TodoCalls => j <= m
    BY <1>1, <2>3 DEF Among
  <2>6. recalled(path) = IF path[m] = "malformed" THEN NoPlan ELSE opened(path[m])
    BY <2>4, <2>5, RecalledIs
  <2>7. path[m] # "malformed" => path[m] \in PlanLists
    BY <2>4 DEF TodoCalls
  <2> QED
    BY <2>6, <2>7, OpenedTyped
<1> QED
  BY <1>2, <1>3

PlanTyped ==
  /\ planPath \in Seq(PathItems) /\ Len(planPath) <= MaxPlanPath
  /\ planFrom \in 1 .. MaxPlanPath
  /\ onScreen \in PlanLists \union {"none"} /\ openPlan \in OpenPlans
  /\ planRun \in BOOLEAN /\ screenLags \in BOOLEAN
  /\ quietCalls \in 0 .. MaxPlanPath /\ reminders \in Nat /\ reminders <= quietCalls
  /\ planRun => quietCalls <= Len(planPath)

ScreenFollows == ~screenLags => onScreen = session_plan(planPath)

(* The run's open plan is the last list, if nothing came after it that     *)
(* could have changed it.                                                  *)
RunFollows(path, from, plan) ==
  \A i \in from .. Len(path) :
    path[i] \in PlanLists /\ (\A j \in i + 1 .. Len(path) : path[j] \in {"user", "other"})
      => plan.current = opened(path[i]).current

CountsQuiet == openPlan.current # "none" => quietCalls = reminders * Patience + openPlan.quiet

PlanInv ==
  /\ PlanTyped /\ Lasts(planPath) /\ ScreenFollows
  /\ planRun => RunFollows(planPath, planFrom, openPlan)
  /\ CountsQuiet

LEMMA PlanParts ==
  ASSUME PlanInv
  PROVE  /\ planPath \in Seq(PathItems) /\ Len(planPath) \in Nat /\ Len(planPath) <= MaxPlanPath
         /\ planFrom \in 1 .. MaxPlanPath /\ planFrom \in Nat \ {0}
         /\ onScreen \in PlanLists \union {"none"} /\ openPlan \in OpenPlans
         /\ openPlan.quiet \in 0 .. Patience - 1 /\ openPlan.current \in PlanLists \union {"none"}
         /\ planRun \in BOOLEAN /\ screenLags \in BOOLEAN
         /\ quietCalls \in 0 .. MaxPlanPath /\ quietCalls \in Nat
         /\ reminders \in Nat /\ reminders <= quietCalls
         /\ planRun => quietCalls <= Len(planPath)
         /\ Lasts(planPath) /\ ScreenFollows /\ CountsQuiet
         /\ planRun => RunFollows(planPath, planFrom, openPlan)
         /\ Patience \in Nat /\ Patience > 0 /\ MaxPlanPath \in Nat /\ MaxPlanPath > 0
BY PlanAssumption DEF PlanInv, PlanTyped, OpenPlans

LEMMA PlanInitInv == PlanInit => PlanInv
<1> SUFFICES ASSUME PlanInit PROVE PlanInv
  OBVIOUS
<1>1. planPath \in Seq(PathItems) /\ Len(planPath) = 0
  BY DEF PlanInit
<1>2. PlanTyped
  <2>1. /\ planFrom = 1 /\ onScreen = "none" /\ openPlan = NoPlan /\ quietCalls = 0
        /\ reminders = 0 /\ planRun = FALSE /\ screenLags = FALSE
    BY DEF PlanInit
  <2>2. NoPlan \in OpenPlans
    BY OpenedTyped
  <2>3. /\ planFrom \in 1 .. MaxPlanPath /\ quietCalls \in 0 .. MaxPlanPath /\ reminders \in Nat
        /\ reminders <= quietCalls /\ Len(planPath) <= MaxPlanPath
    BY <1>1, <2>1, PlanAssumption
  <2>4. planRun \in BOOLEAN /\ screenLags \in BOOLEAN /\ ~planRun
    BY <2>1
  <2> QED
    BY <1>1, <2>1, <2>2, <2>3, <2>4 DEF PlanTyped
<1>3. Lasts(planPath)
  BY <1>1 DEF Lasts, HasLast, Among
<1>4. ScreenFollows
  <2>1. \A j \in 1 .. Len(planPath) : planPath[j] \notin PlanLists
    BY <1>1
  <2>2. session_plan(planPath) = "none"
    BY <1>1, <2>1, NoSessionPlan
  <2> QED
    BY <2>2 DEF PlanInit, ScreenFollows
<1>5. CountsQuiet
  BY OpenedTyped DEF PlanInit, CountsQuiet
<1> QED
  BY <1>2, <1>3, <1>4, <1>5 DEF PlanInit, PlanInv

LEMMA PlanPromptedKeeps == PlanInv /\ PlanPrompted => PlanInv'
<1> SUFFICES ASSUME PlanInv, PlanPrompted PROVE PlanInv'
  OBVIOUS
<1> DEFINE next == Append(planPath, "user")
<1>1. /\ planPath' = next /\ Len(planPath) < MaxPlanPath /\ planRun' = TRUE
      /\ openPlan' = recalled(planPath) /\ quietCalls' = 0 /\ reminders' = 0
      /\ UNCHANGED <<planFrom, onScreen, screenLags>>
  BY DEF PlanPrompted
<1>2. /\ next \in Seq(PathItems) /\ Len(next) = Len(planPath) + 1
      /\ \A i \in 1 .. Len(planPath) : next[i] = planPath[i]
      /\ next[Len(planPath) + 1] = "user"
  BY PlanParts, KindFacts
<1>3. Lasts(next) /\ session_plan(next) = session_plan(planPath)
  BY PlanParts, KindFacts, LastsAppend, SessionPlanAppend
<1>4. openPlan' \in OpenPlans /\ openPlan'.quiet = 0
  BY <1>1, PlanParts, RecalledTyped
<1> HIDE DEF next
<1>5. PlanTyped'
  BY <1>1, <1>2, <1>4, PlanParts DEF PlanTyped
<1>6. ScreenFollows'
  BY <1>1, <1>3, PlanParts DEF ScreenFollows
<1>7. CountsQuiet'
  BY <1>1, <1>4, PlanParts DEF CountsQuiet
<1>8. RunFollows(next, planFrom, openPlan')
  <2>1. ASSUME NEW i \in planFrom .. Len(next), next[i] \in PlanLists,
               \A j \in i + 1 .. Len(next) : next[j] \in {"user", "other"}
        PROVE  openPlan'.current = opened(next[i]).current
    <3>1. i \in planFrom .. Len(planPath) /\ next[i] = planPath[i]
      BY <1>2, <2>1, PlanParts, KindFacts
    <3>2. \A j \in planFrom .. Len(planPath) : planPath[j] \in TodoCalls => j <= i
      BY <1>2, <2>1, <3>1, PlanParts, KindFacts, SMTT(30)
    <3>3. planPath[i] \in TodoCalls /\ planPath[i] # "malformed"
      BY <2>1, <3>1, KindFacts
    <3>4. recalled(planPath) = opened(planPath[i])
      BY <3>1, <3>2, <3>3, PlanParts, RecalledIs
    <3> QED
      BY <1>1, <3>1, <3>4
  <2> QED
    BY <2>1 DEF RunFollows
<1> QED
  BY <1>1, <1>3, <1>5, <1>6, <1>7, <1>8 DEF PlanInv

(* A call that is no list leaves an open plan open until it is quiet for   *)
(* too long.                                                               *)
LEMMA QuietGoesOn ==
  ASSUME NEW P \in Nat, P > 0, NEW q \in 0 .. P - 1, NEW r \in Nat
  PROVE  /\ (q + 1) % P \in 0 .. P - 1
         /\ q + 1 = P => (q + 1) % P = 0 /\ r * P + q + 1 = (r + 1) * P + 0
         /\ q + 1 # P => (q + 1) % P = q + 1 /\ r * P + q + 1 = r * P + (q + 1)
<1>1. CASE q + 1 = P
  BY <1>1
<1>2. CASE q + 1 # P
  BY <1>2
<1> QED
  BY <1>1, <1>2

LEMMA QuietIs ==
  ASSUME NEW P \in Nat, P > 0, NEW q \in 0 .. P - 1, NEW r \in Nat, NEW n \in Nat, n = r * P + q
  PROVE  r = n \div P /\ q = n % P
OBVIOUS

(* A path with one more call, and the open plan that is left of it.        *)
LEMMA FollowsOn ==
  ASSUME NEW path \in Seq(PathItems), NEW x \in PathItems, NEW from \in Nat \ {0},
         NEW plan, NEW after, RunFollows(path, from, plan),
         x \in PlanLists => after.current = opened(x).current,
         x = "other" => after.current = plan.current
  PROVE  x # "user" => RunFollows(Append(path, x), from, after)
<1> SUFFICES ASSUME x # "user" PROVE RunFollows(Append(path, x), from, after)
  OBVIOUS
<1> DEFINE next == Append(path, x)
<1>1. /\ Len(next) = Len(path) + 1 /\ Len(path) \in Nat
      /\ \A i \in 1 .. Len(path) : next[i] = path[i]
      /\ next[Len(path) + 1] = x
  OBVIOUS
<1> HIDE DEF next
<1>2. ASSUME NEW i \in from .. Len(next), next[i] \in PlanLists,
             \A j \in i + 1 .. Len(next) : next[j] \in {"user", "other"}
      PROVE  after.current = opened(next[i]).current
  <2>1. CASE i = Len(path) + 1
    BY <1>1, <1>2, <2>1
  <2>2. CASE i # Len(path) + 1
    <3>1. i \in from .. Len(path) /\ next[i] = path[i] /\ x = "other"
      BY <1>1, <1>2, <2>2
    <3>2. \A j \in i + 1 .. Len(path) : path[j] \in {"user", "other"}
      BY <1>1, <1>2, <3>1
    <3>3. plan.current = opened(path[i]).current
      BY <1>2, <3>1, <3>2 DEF RunFollows
    <3> QED
      BY <3>1, <3>3
  <2> QED
    BY <2>1, <2>2
<1> QED
  BY <1>2 DEF RunFollows, next

LEMMA PlanCallKeeps == PlanInv /\ PlanCall => PlanInv'
<1> SUFFICES ASSUME PlanInv, PlanCall PROVE PlanInv'
  OBVIOUS
<1>1. PICK call \in PlanCalls, refused \in BOOLEAN :
        LET seen == observe(openPlan, call)
            runsTool == ~refused /\ call \in PlanLists
        IN  /\ planPath' = Append(planPath, call)
            /\ openPlan' = seen.plan
            /\ onScreen' = IF runsTool THEN call ELSE onScreen
            /\ quietCalls' = IF call = "other" THEN quietCalls + 1 ELSE 0
            /\ reminders' = IF call = "other" THEN reminders + (IF seen.reminds THEN 1 ELSE 0) ELSE 0
            /\ screenLags' = (~runsTool /\ (screenLags \/ call \in PlanLists))
  BY DEF PlanCall
<1> DEFINE next == Append(planPath, call)
           seen == observe(openPlan, call)
<1>2. /\ planPath' = next /\ openPlan' = seen.plan /\ planRun' = planRun /\ planRun
      /\ Len(planPath) < MaxPlanPath /\ planFrom' = planFrom
      /\ quietCalls' = IF call = "other" THEN quietCalls + 1 ELSE 0
      /\ reminders' = IF call = "other" THEN reminders + (IF seen.reminds THEN 1 ELSE 0) ELSE 0
  BY <1>1 DEF PlanCall
<1>3. /\ next \in Seq(PathItems) /\ Len(next) = Len(planPath) + 1 /\ call \in PathItems
      /\ call # "user"
  BY PlanParts, KindFacts
<1>4. /\ Lasts(next)
      /\ session_plan(next) = IF call \in PlanLists THEN call ELSE session_plan(planPath)
  BY <1>3, PlanParts, LastsAppend, SessionPlanAppend
<1>5. /\ call \in PlanLists => seen.plan = opened(call)
      /\ call \notin PlanLists /\ (call = "malformed" \/ openPlan.current = "none") =>
           seen.plan = NoPlan /\ seen.reminds = FALSE
      /\ call = "other" /\ openPlan.current # "none" =>
           /\ seen.plan = [openPlan EXCEPT !.quiet = (openPlan.quiet + 1) % Patience]
           /\ seen.reminds = (openPlan.quiet + 1 = Patience)
  BY KindFacts DEF observe
<1>6. call \in PlanLists \/ call = "malformed" \/ call = "other"
  BY KindFacts DEF TodoCalls
<1> HIDE DEF next, seen
<1>7. CASE call \in PlanLists
  <2>1. opened(call) \in OpenPlans /\ opened(call).quiet = 0 /\ call # "other"
    BY <1>7, OpenedTyped, KindFacts
  <2>2. /\ openPlan' \in OpenPlans /\ quietCalls' = 0 /\ reminders' = 0 /\ openPlan'.quiet = 0
        /\ openPlan' = opened(call)
    BY <1>2, <1>5, <1>7, <2>1
  <2>3. /\ onScreen' \in PlanLists \union {"none"} /\ screenLags' \in BOOLEAN
        /\ ~screenLags' => onScreen' = call
    BY <1>1, <1>7, PlanParts
  <2>4. PlanTyped'
    BY <1>2, <1>3, <2>2, <2>3, PlanParts DEF PlanTyped
  <2>5. ScreenFollows'
    BY <1>2, <1>4, <1>7, <2>3 DEF ScreenFollows
  <2>6. CountsQuiet'
    BY <2>2, PlanParts DEF CountsQuiet
  <2>7. RunFollows(next, planFrom, openPlan')
    BY <1>2, <1>3, <2>1, <2>2, PlanParts, FollowsOn DEF next
  <2> QED
    BY <1>2, <1>4, <2>4, <2>5, <2>6, <2>7 DEF PlanInv
<1>8. CASE call \notin PlanLists
  <2>0. /\ onScreen' = onScreen /\ screenLags' = screenLags
    BY <1>1, <1>8, PlanParts
  <2>1. ScreenFollows'
    BY <1>2, <1>4, <1>8, <2>0, PlanParts DEF ScreenFollows
  <2>2. CASE call = "malformed" \/ openPlan.current = "none"
    <3>1. /\ openPlan' = NoPlan /\ seen.reminds = FALSE /\ NoPlan \in OpenPlans
          /\ NoPlan.current = "none"
      BY <1>2, <1>5, <1>8, <2>2, OpenedTyped
    <3>2. CountsQuiet'
      BY <3>1 DEF CountsQuiet
    <3>3. /\ quietCalls' \in 0 .. MaxPlanPath /\ reminders' \in Nat /\ reminders' <= quietCalls'
          /\ quietCalls' <= Len(next)
      BY <1>2, <1>3, <3>1, PlanParts
    <3>4. PlanTyped'
      BY <1>2, <1>3, <2>0, <3>1, <3>3, PlanParts DEF PlanTyped
    <3>5. call = "other" => openPlan'.current = openPlan.current
      BY <2>2, <3>1
    <3>6. RunFollows(next, planFrom, openPlan')
      BY <1>2, <1>3, <1>8, <3>5, PlanParts, FollowsOn DEF next
    <3> QED
      BY <1>2, <1>4, <2>1, <3>2, <3>4, <3>6 DEF PlanInv
  <2>3. CASE call = "other" /\ openPlan.current # "none"
    <3> DEFINE quiet == (openPlan.quiet + 1) % Patience
    <3>0. /\ Patience \in Nat /\ Patience > 0
          /\ openPlan.quiet \in 0 .. Patience - 1 /\ reminders \in Nat
      BY PlanParts
    <3>1. /\ quiet \in 0 .. Patience - 1
          /\ openPlan.quiet + 1 = Patience =>
               quiet = 0 /\ reminders * Patience + openPlan.quiet + 1 = (reminders + 1) * Patience + 0
          /\ openPlan.quiet + 1 # Patience =>
               /\ quiet = openPlan.quiet + 1
               /\ reminders * Patience + openPlan.quiet + 1 = reminders * Patience + (openPlan.quiet + 1)
      BY <3>0, QuietGoesOn, Zenon
    <3>2. /\ openPlan' = [openPlan EXCEPT !.quiet = quiet]
          /\ quietCalls' = quietCalls + 1
          /\ reminders' = reminders + (IF openPlan.quiet + 1 = Patience THEN 1 ELSE 0)
      BY <1>2, <1>5, <2>3
    <3>3. quietCalls = reminders * Patience + openPlan.quiet
      BY <2>3, PlanParts DEF CountsQuiet
    <3> HIDE DEF quiet
    <3>4. openPlan' \in OpenPlans /\ openPlan'.quiet = quiet /\ openPlan'.current = openPlan.current
      BY <3>1, <3>2, PlanParts DEF OpenPlans
    <3>5. quietCalls' = reminders' * Patience + openPlan'.quiet
      <4>1. CASE openPlan.quiet + 1 = Patience
        <5>1. reminders' = reminders + 1 /\ openPlan'.quiet = 0
          BY <3>1, <3>2, <3>4, <4>1
        <5> QED
          BY <3>1, <3>2, <3>3, <4>1, <5>1, PlanParts
      <4>2. CASE openPlan.quiet + 1 # Patience
        <5>1. reminders' = reminders /\ openPlan'.quiet = openPlan.quiet + 1
          BY <3>1, <3>2, <3>4, <4>2, PlanParts
        <5> QED
          BY <3>1, <3>2, <3>3, <4>2, <5>1, PlanParts
      <4> QED
        BY <4>1, <4>2
    <3>6. CountsQuiet'
      BY <3>5 DEF CountsQuiet
    <3>7. /\ quietCalls' \in 0 .. MaxPlanPath /\ reminders' \in Nat /\ reminders' <= quietCalls'
          /\ quietCalls' <= Len(next)
      BY <1>2, <1>3, <3>2, PlanParts
    <3>8. PlanTyped'
      BY <1>2, <1>3, <2>0, <3>4, <3>7, PlanParts DEF PlanTyped
    <3>9. RunFollows(next, planFrom, openPlan')
      BY <1>2, <1>3, <1>8, <3>4, PlanParts, FollowsOn DEF next
    <3> QED
      BY <1>2, <1>4, <2>1, <3>6, <3>8, <3>9 DEF PlanInv
  <2> QED
    BY <1>6, <1>8, <2>2, <2>3
<1> QED
  BY <1>7, <1>8

LEMMA PlanRunEndsKeeps == PlanInv /\ PlanRunEnds => PlanInv'
<1> SUFFICES ASSUME PlanInv, PlanRunEnds PROVE PlanInv'
  OBVIOUS
<1>1. /\ planRun' = FALSE /\ openPlan' = NoPlan
      /\ UNCHANGED <<planFrom, onScreen, quietCalls, reminders>>
  BY DEF PlanRunEnds
<1>2. NoPlan \in OpenPlans /\ NoPlan.current = "none" /\ CountsQuiet'
  BY <1>1, OpenedTyped DEF CountsQuiet
<1>3. CASE UNCHANGED <<planPath, screenLags>>
  <2>1. ScreenFollows' /\ Lasts(planPath')
    BY <1>1, <1>3, PlanParts DEF ScreenFollows
  <2>2. PlanTyped'
    BY <1>1, <1>2, <1>3, PlanParts DEF PlanTyped
  <2> QED
    BY <1>1, <1>2, <2>1, <2>2 DEF PlanInv
<1>4. CASE \E list \in PlanLists :
             /\ Len(planPath) < MaxPlanPath
             /\ planPath' = Append(planPath, list)
             /\ screenLags' = TRUE
  <2>1. PICK list \in PlanLists :
          /\ Len(planPath) < MaxPlanPath
          /\ planPath' = Append(planPath, list)
          /\ screenLags' = TRUE
    BY <1>4
  <2>2. /\ planPath' \in Seq(PathItems) /\ Len(planPath') = Len(planPath) + 1 /\ list \in PathItems
    BY <2>1, PlanParts, KindFacts
  <2>3. Lasts(planPath')
    BY <2>1, <2>2, PlanParts, LastsAppend
  <2>4. ScreenFollows'
    BY <2>1 DEF ScreenFollows
  <2>5. PlanTyped'
    <3>1. Len(planPath') <= MaxPlanPath /\ planRun' = FALSE
      BY <1>1, <2>1, <2>2, PlanParts
    <3>2. planFrom' = planFrom /\ onScreen' = onScreen /\ quietCalls' = quietCalls /\ reminders' = reminders
      BY <1>1
    <3>3. screenLags' \in BOOLEAN /\ planRun' \in BOOLEAN /\ (planRun' => quietCalls' <= Len(planPath'))
      BY <2>1, <3>1, Zenon
    <3> QED
      BY <1>1, <1>2, <2>2, <3>1, <3>2, <3>3, PlanParts DEF PlanTyped
  <2> QED
    BY <1>1, <1>2, <2>3, <2>4, <2>5 DEF PlanInv
<1> QED
  BY <1>3, <1>4 DEF PlanRunEnds

LEMMA PlanCompactedKeeps == PlanInv /\ PlanCompacted => PlanInv'
<1> SUFFICES ASSUME PlanInv, PlanCompacted PROVE PlanInv'
  OBVIOUS
<1>1. /\ planFrom' \in planFrom + 1 .. Len(planPath) /\ planRun
      /\ UNCHANGED <<planPath, onScreen, openPlan, planRun, quietCalls, reminders, screenLags>>
  BY DEF PlanCompacted
<1>2. planFrom' \in 1 .. MaxPlanPath /\ planFrom <= planFrom' /\ planFrom' \in Nat
  BY <1>1, PlanParts
<1>3. RunFollows(planPath, planFrom', openPlan)
  BY <1>1, <1>2, PlanParts DEF RunFollows
<1>4. PlanTyped'
  BY <1>1, <1>2, PlanParts DEF PlanTyped
<1>5. ScreenFollows' /\ CountsQuiet' /\ Lasts(planPath')
  BY <1>1, PlanParts DEF ScreenFollows, CountsQuiet
<1> QED
  BY <1>1, <1>3, <1>4, <1>5 DEF PlanInv

(* The screen is read from a path whose beginnings the session had.        *)
LEMMA ReadsPlanKeeps ==
  ASSUME PlanInv, NEW path \in Seq(PathItems), Lasts(path), Len(path) \in Nat, Len(path) <= MaxPlanPath,
         ~planRun, ReadsPlan(path, planFrom)
  PROVE  PlanInv'
<1>1. /\ planPath' = path /\ planFrom' = planFrom /\ onScreen' = session_plan(path) /\ screenLags' = FALSE
      /\ UNCHANGED <<openPlan, planRun, quietCalls, reminders>>
  BY DEF ReadsPlan
<1>2. PlanTyped'
  BY <1>1, PlanParts, SessionPlanTyped DEF PlanTyped
<1>3. ScreenFollows' /\ CountsQuiet'
  BY <1>1, PlanParts DEF ScreenFollows, CountsQuiet
<1> QED
  BY <1>1, <1>2, <1>3 DEF PlanInv

LEMMA ResumedKeeps == PlanInv /\ Resumed => PlanInv'
BY PlanParts, ReadsPlanKeeps DEF Resumed

LEMMA RewoundKeeps == PlanInv /\ Rewound => PlanInv'
<1> SUFFICES ASSUME PlanInv, Rewound PROVE PlanInv'
  OBVIOUS
<1>1. PICK i \in planFrom .. Len(planPath) : ReadsPlan(SubSeq(planPath, 1, i - 1), planFrom)
  BY DEF Rewound
<1>2. i - 1 \in 0 .. Len(planPath)
  BY PlanParts
<1> DEFINE path == SubSeq(planPath, 1, i - 1)
<1>3. path \in Seq(PathItems) /\ Len(path) = i - 1 /\ Lasts(path)
  BY <1>2, PlanParts, LastsPrefix
<1>4. Len(path) \in Nat /\ Len(path) <= MaxPlanPath /\ ~planRun /\ ReadsPlan(path, planFrom)
  BY <1>1, <1>2, <1>3, PlanParts DEF Rewound
<1> HIDE DEF path
<1> QED
  BY <1>3, <1>4, ReadsPlanKeeps

LEMMA NewSessionKeeps == PlanInv /\ NewSession => PlanInv'
<1> SUFFICES ASSUME PlanInv, NewSession PROVE PlanInv'
  OBVIOUS
<1>1. /\ planPath' \in Seq(PathItems) /\ Len(planPath') = 0 /\ planFrom' = 1 /\ screenLags' = TRUE
      /\ UNCHANGED <<onScreen, openPlan, planRun, quietCalls, reminders>> /\ ~planRun
  BY DEF NewSession
<1>2. PlanTyped'
  BY <1>1, PlanParts DEF PlanTyped
<1>3. Lasts(planPath')
  BY <1>1 DEF Lasts, HasLast, Among
<1>4. ScreenFollows' /\ CountsQuiet'
  BY <1>1, PlanParts DEF ScreenFollows, CountsQuiet
<1> QED
  BY <1>1, <1>2, <1>3, <1>4 DEF PlanInv

LEMMA PlanStep == PlanInv /\ [PlanNext]_planVars => PlanInv'
<1> SUFFICES ASSUME PlanInv, [PlanNext]_planVars PROVE PlanInv'
  OBVIOUS
<1>1. CASE UNCHANGED planVars
  BY <1>1 DEF planVars, PlanInv, PlanTyped, ScreenFollows, CountsQuiet
<1>2. CASE PlanNext
  BY <1>2, PlanPromptedKeeps, PlanCallKeeps, PlanRunEndsKeeps, PlanCompactedKeeps, ResumedKeeps,
     RewoundKeeps, NewSessionKeeps DEF PlanNext
<1> QED
  BY <1>1, <1>2

LEMMA PlanHolds == PlanInv => PlanTypeOK /\ PlanIsOne
<1> SUFFICES ASSUME PlanInv PROVE PlanTypeOK /\ PlanIsOne
  OBVIOUS
<1>1. PlanTypeOK
  BY PlanParts DEF PlanTypeOK
<1>2. ASSUME planRun, NEW i \in planFrom .. Len(planPath), planPath[i] \in PlanLists,
             \A j \in i + 1 .. Len(planPath) : planPath[j] \in {"user", "other"}
      PROVE  openPlan.current = opened(session_plan(planPath)).current
  <2>1. i \in 1 .. Len(planPath) /\ \A j \in 1 .. Len(planPath) : planPath[j] \in PlanLists => j <= i
    BY <1>2, PlanParts, KindFacts
  <2>2. session_plan(planPath) = planPath[i]
    BY <1>2, <2>1, PlanParts, SessionPlanIs
  <2> QED
    BY <1>2, <2>2, PlanParts DEF RunFollows
<1>3. openPlan.current # "none" =>
        reminders = quietCalls \div Patience /\ openPlan.quiet = quietCalls % Patience
  BY PlanParts, QuietIs DEF CountsQuiet
<1>4. ~screenLags => onScreen = session_plan(planPath)
  BY PlanParts DEF ScreenFollows
<1> QED
  BY <1>1, <1>2, <1>3, <1>4 DEF PlanIsOne

-----------------------------------------------------------------------------

(* Providers.                                                              *)
SentTypes == [pieces : 0 .. MaxPieces, parts : [Made -> 0 .. Parts], opened : 0 .. MaxMade]
MadeTypes == [id : Made, parts : Seq(Made \X (1 .. Parts))]

ReplyTyped ==
  /\ chain \in Chains /\ index \in 1 .. Len(chain) /\ attempt \in 1 .. Retries + 1
  /\ stage \in {"sending", "streaming", "replied", "failed"} /\ numbers \in BOOLEAN
  /\ sent \in SentTypes
  /\ text \in Seq(Told) /\ buffer \in Seq(Told) /\ emitted \in Seq(Told)
  /\ made \in Seq(MadeTypes)
  /\ ended \in {"no", "stop", "length"}
  /\ attempts \in [1 .. Len(chain) -> Nat]

(* What is put together is what was sent.                                  *)
PartsOf(c, n) == [k \in 1 .. n |-> Part(c, k)]
Mark == IF ended = "length" THEN <<Tells("cut off")>> ELSE <<>>

CallsAreMade ==
  /\ Len(made) = sent.opened
  /\ \A c \in 1 .. sent.opened : made[c].id = c /\ made[c].parts = PartsOf(c, sent.parts[c])
  /\ \A c \in Made : c > sent.opened => sent.parts[c] = 0
  /\ ended = "stop" => \A c \in 1 .. sent.opened : sent.parts[c] \in {0, Parts}
  /\ ended = "no" /\ Kind \notin {"chat", "messages"} => sent.opened = 0

Assembled ==
  /\ CallsAreMade
  /\ text = Pieces(sent.pieces) \o Mark
  /\ stage = "sending" =>
       sent = NothingSent /\ text = <<>> /\ made = <<>> /\ ended = "no"

(* What is emitted of it is in the buffer, if another provider may follow. *)
EmittedSoFar ==
  /\ stage \in {"sending", "streaming"} =>
       /\ HasFallback => emitted = <<>> /\ Shows(buffer, text)
       /\ ~HasFallback => buffer = <<>> /\ Shows(emitted, text)
  /\ stage = "failed" /\ HasFallback => emitted = <<>>

AttemptsCounted ==
  /\ \A i \in DOMAIN attempts :
       /\ attempts[i] <= Retries + 1
       /\ i > index => attempts[i] = 0
  /\ stage = "sending" => attempts[index] = attempt - 1

ReturnedWhole ==
  stage = "replied" =>
    /\ ended # "no" /\ reply = Returned /\ Shows(emitted, text)

ProvidersInv ==
  ReplyTyped /\ Assembled /\ EmittedSoFar /\ AttemptsCounted /\ ReturnedWhole

LEMMA ProviderBounds ==
  /\ Retries \in Nat /\ MaxPieces \in Nat \ {0} /\ MaxMade \in Nat /\ Parts \in Nat \ {0}
  /\ Made = 1 .. MaxMade
  /\ \A one \in Chains : one \in Seq(Kinds) /\ Len(one) \in Nat \ {0}
<1>1. \A one \in Chains : one \in Seq(Kinds) /\ one # <<>>
  BY ChainsAssumption
<1>2. \A one \in Seq(Kinds) : one # <<>> => Len(one) \in Nat \ {0}
  OBVIOUS
<1> QED
  BY <1>1, <1>2, RepliesAssumption DEF Made

LEMMA NothingSentFacts ==
  /\ NothingSent \in SentTypes /\ NothingSent.pieces = 0 /\ NothingSent.opened = 0
  /\ \A c \in Made : NothingSent.parts[c] = 0
  /\ Pieces(0) = <<>> /\ Pieces(0) \o <<>> = <<>>
<1>1. [c \in Made |-> 0] \in [Made -> 0 .. Parts]
  BY ProviderBounds
<1>2. NothingSent \in SentTypes /\ NothingSent.pieces = 0 /\ NothingSent.opened = 0
      /\ NothingSent.parts = [c \in Made |-> 0]
  BY <1>1, ProviderBounds DEF NothingSent, SentTypes
<1>3. Pieces(0) = <<>>
  <2>1. 1 .. 0 = {}
    OBVIOUS
  <2> QED
    BY <2>1 DEF Pieces
<1> QED
  BY <1>2, <1>3

(* Nothing shown, and a notice or a piece more.                            *)
LEMMA ShowsNothing == Shows(<<>>, <<>>)
<1>1. Len(<<>>) = 0 /\ 0 \in 0 .. 0
  OBVIOUS
<1>2. \E k \in 0 .. Len(<<>>) :
         /\ Len(<<>>) = k + Len(<<>>)
         /\ \A i \in 1 .. k : (<<>>)[i].what \in {"retry", "fallback"}
         /\ \A i \in 1 .. Len(<<>>) : (<<>>)[k + i] = (<<>>)[i]
  <2> WITNESS 0 \in 0 .. Len(<<>>)
  <2> QED
    BY <1>1
<1> QED
  BY <1>2 DEF Shows

LEMMA ShowsPiece ==
  ASSUME NEW given \in Seq(Told), NEW spoken \in Seq(Told), NEW piece \in Told,
         Shows(given, spoken)
  PROVE  Shows(Append(given, piece), Append(spoken, piece))
<1>1. PICK k \in 0 .. Len(given) :
         /\ Len(given) = k + Len(spoken)
         /\ \A i \in 1 .. k : given[i].what \in {"retry", "fallback"}
         /\ \A i \in 1 .. Len(spoken) : given[k + i] = spoken[i]
  BY DEF Shows
<1> DEFINE all == Append(given, piece)
           now == Append(spoken, piece)
<1>2. /\ Len(given) \in Nat /\ Len(all) = Len(given) + 1 /\ all[Len(given) + 1] = piece
      /\ \A i \in 1 .. Len(given) : all[i] = given[i]
      /\ Len(spoken) \in Nat /\ Len(now) = Len(spoken) + 1 /\ now[Len(spoken) + 1] = piece
      /\ \A i \in 1 .. Len(spoken) : now[i] = spoken[i]
  OBVIOUS
<1> HIDE DEF all, now
<1>3. k \in Nat /\ k \in 0 .. Len(all) /\ Len(all) = k + Len(now)
  BY <1>1, <1>2
<1>4. \A i \in 1 .. k : all[i].what \in {"retry", "fallback"}
  BY <1>1, <1>2
<1>5. ASSUME NEW i \in 1 .. Len(now)
      PROVE  all[k + i] = now[i]
  <2>1. CASE i = Len(spoken) + 1
    <3>1. k + i = Len(given) + 1
      BY <1>1, <1>2, <1>3, <2>1
    <3> QED
      BY <1>2, <2>1, <3>1
  <2>2. CASE i \in 1 .. Len(spoken)
    <3>1. k + i \in 1 .. Len(given)
      BY <1>1, <1>2, <1>3, <2>2
    <3> QED
      BY <1>1, <1>2, <2>2, <3>1
  <2> QED
    BY <1>2, <2>1, <2>2
<1> QED
  BY <1>3, <1>4, <1>5 DEF Shows, all, now

LEMMA ShowsNotice ==
  ASSUME NEW given \in Seq(Told), NEW notice \in Told, notice.what \in {"retry", "fallback"},
         Shows(given, <<>>)
  PROVE  Shows(Append(given, notice), <<>>)
<1> DEFINE none == <<>>
<1>0. Len(none) = 0
  OBVIOUS
<1>1. PICK k \in 0 .. Len(given) :
         /\ Len(given) = k + Len(none)
         /\ \A i \in 1 .. k : given[i].what \in {"retry", "fallback"}
  BY DEF Shows
<1> DEFINE all == Append(given, notice)
<1>2. /\ Len(given) \in Nat /\ Len(all) = Len(given) + 1 /\ all[Len(given) + 1] = notice
      /\ \A i \in 1 .. Len(given) : all[i] = given[i]
  OBVIOUS
<1> HIDE DEF all, none
<1>3. k = Len(given) /\ Len(all) = (k + 1) + Len(none) /\ k + 1 \in 0 .. Len(all)
  BY <1>0, <1>1, <1>2
<1>4. \A i \in 1 .. k + 1 : all[i].what \in {"retry", "fallback"}
  BY <1>1, <1>2, <1>3
<1>5. \A i \in 1 .. Len(none) : all[(k + 1) + i] = none[i]
  BY <1>0
<1>6. Shows(all, none)
  BY <1>3, <1>4, <1>5 DEF Shows
<1> QED
  BY <1>6 DEF all, none

(* A notice before what was emitted.                                       *)
LEMMA ShowsAfterNotice ==
  ASSUME NEW given \in Seq(Told), NEW spoken \in Seq(Told), NEW notice \in Told,
         notice.what \in {"retry", "fallback"}, Shows(given, spoken)
  PROVE  Shows(<<notice>> \o given, spoken)
<1>1. PICK k \in 0 .. Len(given) :
         /\ Len(given) = k + Len(spoken)
         /\ \A i \in 1 .. k : given[i].what \in {"retry", "fallback"}
         /\ \A i \in 1 .. Len(spoken) : given[k + i] = spoken[i]
  BY DEF Shows
<1> DEFINE all == <<notice>> \o given
<1>2. /\ Len(given) \in Nat /\ Len(spoken) \in Nat /\ Len(all) = Len(given) + 1 /\ all[1] = notice
      /\ \A i \in 1 .. Len(given) : all[i + 1] = given[i]
  OBVIOUS
<1> HIDE DEF all
<1>3. k \in Nat /\ k + 1 \in 0 .. Len(all) /\ Len(all) = (k + 1) + Len(spoken)
  BY <1>1, <1>2
<1>4. ASSUME NEW i \in 1 .. k + 1
      PROVE  all[i].what \in {"retry", "fallback"}
  <2>1. CASE i = 1
    BY <1>2, <2>1
  <2>2. CASE i # 1
    <3>1. i - 1 \in 1 .. k /\ i - 1 \in 1 .. Len(given) /\ (i - 1) + 1 = i
      BY <1>2, <1>3, <2>2
    <3>2. all[(i - 1) + 1] = given[i - 1]
      BY <1>2, <3>1
    <3> QED
      BY <1>1, <3>1, <3>2
  <2> QED
    BY <2>1, <2>2
<1>5. ASSUME NEW i \in 1 .. Len(spoken)
      PROVE  all[(k + 1) + i] = spoken[i]
  <2>1. k + i \in 1 .. Len(given) /\ (k + i) + 1 = (k + 1) + i
    BY <1>1, <1>2, <1>3
  <2>2. all[(k + i) + 1] = given[k + i]
    BY <1>2, <2>1
  <2> QED
    BY <1>1, <2>1, <2>2
<1> QED
  BY <1>3, <1>4, <1>5 DEF Shows, all

LEMMA ProvidersInitInv == ProvidersInit => ProvidersInv
<1> SUFFICES ASSUME ProvidersInit
             PROVE  ProvidersInv
  OBVIOUS
<1>1. /\ chain \in Chains /\ index = 1 /\ attempt = 1 /\ stage = "sending" /\ numbers \in BOOLEAN
      /\ sent = NothingSent /\ text = <<>> /\ made = <<>> /\ ended = "no"
      /\ buffer = <<>> /\ emitted = <<>> /\ attempts = [i \in 1 .. Len(chain) |-> 0]
  BY DEF ProvidersInit
<1>2. Len(chain) \in Nat \ {0} /\ Retries \in Nat
  BY <1>1, ProviderBounds
<1>3. ReplyTyped
  <2>1. <<>> \in Seq(Told) /\ <<>> \in Seq(MadeTypes)
    OBVIOUS
  <2>2. index \in 1 .. Len(chain) /\ attempt \in 1 .. Retries + 1
        /\ attempts \in [1 .. Len(chain) -> Nat]
    BY <1>1, <1>2
  <2> QED
    BY <1>1, <2>1, <2>2, NothingSentFacts DEF ReplyTyped
<1>4. Assembled
  <2>1. Len(made) = 0 /\ Mark = <<>>
    BY <1>1 DEF Mark
  <2> QED
    BY <1>1, <2>1, NothingSentFacts DEF Assembled, CallsAreMade
<1>5. EmittedSoFar /\ AttemptsCounted /\ ReturnedWhole
  BY <1>1, <1>2, ShowsNothing DEF EmittedSoFar, AttemptsCounted, ReturnedWhole
<1> QED
  BY <1>3, <1>4, <1>5 DEF ProvidersInv

LEMMA SentParts ==
  ASSUME ProvidersInv
  PROVE  /\ sent.pieces \in 0 .. MaxPieces /\ sent.opened \in 0 .. MaxMade
         /\ sent.parts \in [Made -> 0 .. Parts]
         /\ sent = [pieces |-> sent.pieces, parts |-> sent.parts, opened |-> sent.opened]
         /\ index \in Nat \ {0} /\ Len(chain) \in Nat \ {0} /\ chain \in Chains
         /\ attempt \in Nat \ {0} /\ attempt <= Retries + 1 /\ index <= Len(chain)
BY ProviderBounds, SMTT(30) DEF ProvidersInv, ReplyTyped, SentTypes

LEMMA PieceIsTold ==
  ASSUME ProvidersInv
  PROVE  /\ \A n \in 1 .. MaxPieces : Piece(n) \in Told
         /\ Tells("retry") \in Told /\ Tells("retry").what = "retry"
         /\ Tells("fallback") \in Told /\ Tells("fallback").what = "fallback"
         /\ Tells("cut off") \in Told
<1>1. index \in 1 .. Len(chain) /\ 0 \in 0 .. MaxPieces
  BY ProviderBounds DEF ProvidersInv, ReplyTyped
<1>2. \A n \in 1 .. MaxPieces : n \in 0 .. MaxPieces
  BY ProviderBounds
<1> QED
  BY <1>1, <1>2 DEF Piece, Tells, Told

(* Something is emitted, and is text or comes before any.                  *)
LEMMA EmitsKeeps ==
  ASSUME ProvidersInv, stage \in {"sending", "streaming"}, NEW one \in Told,
         Emits(<<one>>), chain' = chain,
         \/ text' = Append(text, one)
         \/ one.what = "retry" /\ text = <<>> /\ text' = <<>>
  PROVE  /\ buffer' \in Seq(Told) /\ emitted' \in Seq(Told) /\ text' \in Seq(Told)
         /\ HasFallback => emitted' = <<>> /\ Shows(buffer', text')
         /\ ~HasFallback => buffer' = <<>> /\ Shows(emitted', text')
<1>1. /\ text \in Seq(Told) /\ buffer \in Seq(Told) /\ emitted \in Seq(Told)
      /\ HasFallback => emitted = <<>> /\ Shows(buffer, text)
      /\ ~HasFallback => buffer = <<>> /\ Shows(emitted, text)
  BY DEF ProvidersInv, ReplyTyped, EmittedSoFar
<1>2. /\ buffer \o <<one>> = Append(buffer, one) /\ Append(buffer, one) \in Seq(Told)
      /\ emitted \o <<one>> = Append(emitted, one) /\ Append(emitted, one) \in Seq(Told)
      /\ Append(text, one) \in Seq(Told) /\ <<>> \in Seq(Told)
  BY <1>1
<1>3. CASE HasFallback
  <2>1. buffer' = Append(buffer, one) /\ emitted' = emitted
    BY <1>2, <1>3 DEF Emits
  <2> QED
    BY <1>1, <1>2, <1>3, <2>1, ShowsPiece, ShowsNotice
<1>4. CASE ~HasFallback
  <2>1. emitted' = Append(emitted, one) /\ buffer' = buffer
    BY <1>2, <1>4 DEF Emits
  <2> QED
    BY <1>1, <1>2, <1>4, <2>1, ShowsPiece, ShowsNotice
<1> QED
  BY <1>3, <1>4

(* A provider failed: the next starts over, or the request has failed.     *)
LEMMA ProviderFailsKeeps ==
  ASSUME ProvidersInv, ProviderFails, stage \in {"sending", "streaming"},
         attempts' \in [1 .. Len(chain) -> Nat],
         \A i \in 1 .. Len(chain) : /\ attempts'[i] <= Retries + 1
                                    /\ i > index => attempts'[i] = 0
  PROVE  ProvidersInv'
<1>1. /\ chain' = chain /\ numbers' = numbers /\ emitted' = emitted /\ buffer' = <<>>
      /\ sent' = NothingSent /\ text' = <<>> /\ made' = <<>> /\ ended' = "no"
  BY DEF ProviderFails, StartsOver
<1>2. \/ /\ index < Len(chain)
         /\ index' = index + 1 /\ attempt' = 1 /\ stage' = "sending"
      \/ stage' = "failed" /\ index' = index /\ attempt' = attempt
  BY DEF ProviderFails
<1>3. /\ chain \in Chains /\ index \in 1 .. Len(chain) /\ attempt \in 1 .. Retries + 1
      /\ numbers \in BOOLEAN /\ emitted \in Seq(Told) /\ Len(chain) \in Nat \ {0}
  BY SentParts DEF ProvidersInv, ReplyTyped
<1>4. ReplyTyped'
  <2>1. <<>> \in Seq(Told) /\ <<>> \in Seq(MadeTypes)
    OBVIOUS
  <2>2. index' \in 1 .. Len(chain) /\ attempt' \in 1 .. Retries + 1
    BY <1>2, <1>3, ProviderBounds
  <2>3. Told' = Told
    BY <1>1 DEF Told
  <2>4. stage' \in {"sending", "streaming", "replied", "failed"}
    BY <1>2
  <2> QED
    BY <1>1, <1>3, <2>1, <2>2, <2>3, <2>4, NothingSentFacts DEF ReplyTyped
<1>5. Assembled'
  <2>1. Len(made') = 0 /\ Mark' = <<>>
    BY <1>1 DEF Mark
  <2>2. (Pieces(sent.pieces))' = <<>>
    <3>1. sent'.pieces = 0
      BY <1>1, NothingSentFacts
    <3>2. 1 .. 0 = {}
      OBVIOUS
    <3> QED
      BY <3>1, <3>2 DEF Pieces
  <2>3. CallsAreMade'
    BY <1>1, <2>1, NothingSentFacts DEF CallsAreMade
  <2> QED
    BY <1>1, <2>1, <2>2, <2>3, NothingSentFacts DEF Assembled
<1>6. EmittedSoFar'
  <2>1. HasFallback' = HasFallback
    BY <1>1 DEF HasFallback
  <2>2. HasFallback => emitted = <<>>
    BY DEF ProvidersInv, EmittedSoFar
  <2>3. stage' = "sending" => HasFallback
    BY <1>2, <1>3 DEF HasFallback
  <2>4. stage' # "streaming"
    BY <1>2
  <2> QED
    BY <1>1, <1>2, <2>1, <2>2, <2>3, <2>4, ShowsNothing DEF EmittedSoFar
<1>7. AttemptsCounted'
  <2>1. DOMAIN attempts' = 1 .. Len(chain)
    OBVIOUS
  <2> QED
    BY <1>2, <1>3, <2>1 DEF AttemptsCounted
<1>8. ReturnedWhole'
  BY <1>2 DEF ReturnedWhole
<1> QED
  BY <1>4, <1>5, <1>6, <1>7, <1>8 DEF ProvidersInv

(* A request more is sent.                                                 *)
LEMMA AsksFacts ==
  ASSUME ProvidersInv, Asks
  PROVE  /\ attempts' \in [1 .. Len(chain) -> Nat] /\ stage = "sending"
         /\ \A i \in 1 .. Len(chain) : /\ attempts'[i] <= Retries + 1
                                       /\ i > index => attempts'[i] = 0
         /\ attempts'[index] = attempt
         /\ sent = NothingSent /\ text = <<>> /\ made = <<>> /\ ended = "no"
<1>1. /\ stage = "sending" /\ attempts' = [attempts EXCEPT ![index] = attempts[index] + 1]
      /\ attempts \in [1 .. Len(chain) -> Nat] /\ index \in 1 .. Len(chain)
      /\ attempts[index] = attempt - 1 /\ attempt \in 1 .. Retries + 1
  BY DEF Asks, ProvidersInv, ReplyTyped, AttemptsCounted
<1>2. Retries \in Nat /\ Len(chain) \in Nat
  BY ProviderBounds, SentParts
<1>3. attempts'[index] = attempt /\ attempt \in Nat /\ attempt <= Retries + 1
  BY <1>1, <1>2
<1>4. attempts' \in [1 .. Len(chain) -> Nat]
  BY <1>1
<1>5. \A i \in 1 .. Len(chain) : i # index => attempts'[i] = attempts[i]
  BY <1>1
<1>6. \A i \in 1 .. Len(chain) : attempts[i] <= Retries + 1 /\ (i > index => attempts[i] = 0)
  BY <1>1 DEF ProvidersInv, AttemptsCounted
<1>7. \A i \in 1 .. Len(chain) : /\ attempts'[i] <= Retries + 1
                                 /\ i > index => attempts'[i] = 0
  BY <1>1, <1>2, <1>3, <1>5, <1>6
<1> QED
  BY <1>1, <1>3, <1>4, <1>7 DEF ProvidersInv, Assembled

LEMMA AcceptedKeeps == ProvidersInv /\ Accepted => ProvidersInv'
<1> SUFFICES ASSUME ProvidersInv, Accepted
             PROVE  ProvidersInv'
  OBVIOUS
<1>1. /\ Asks /\ stage' = "streaming"
      /\ UNCHANGED <<chain, index, attempt, numbers, sent, text, made, ended, buffer, emitted, reply>>
  BY DEF Accepted, assembly
<1>2. ReplyTyped'
  BY <1>1, AsksFacts DEF ProvidersInv, ReplyTyped, Told
<1>3. Assembled'
  BY <1>1 DEF ProvidersInv, Assembled, CallsAreMade, Mark, Pieces, Piece, Tells, PartsOf, Part,
     Kind
<1>4. EmittedSoFar'
  BY <1>1, AsksFacts DEF ProvidersInv, EmittedSoFar, HasFallback
<1>5. AttemptsCounted'
  <2>1. DOMAIN attempts' = 1 .. Len(chain)
    BY <1>1, AsksFacts
  <2> QED
    BY <1>1, <2>1, AsksFacts DEF AttemptsCounted
<1>6. ReturnedWhole'
  BY <1>1 DEF ReturnedWhole
<1> QED
  BY <1>2, <1>3, <1>4, <1>5, <1>6 DEF ProvidersInv

LEMMA FailsForNowKeeps == ProvidersInv /\ FailsForNow => ProvidersInv'
<1> SUFFICES ASSUME ProvidersInv, FailsForNow
             PROVE  ProvidersInv'
  OBVIOUS
<1>0. Asks
  BY DEF FailsForNow
<1>1. CASE ProviderFails
  BY <1>0, <1>1, AsksFacts, ProviderFailsKeeps
<1>2. CASE ~ProviderFails
  <2>1. /\ attempt < Retries + 1 /\ attempt' = attempt + 1 /\ Emits(<<Tells("retry")>>)
        /\ UNCHANGED <<chain, index, stage, numbers, sent, text, made, ended, reply>>
    BY <1>2 DEF FailsForNow, MayRetry, assembly
  <2>2. /\ buffer' \in Seq(Told) /\ emitted' \in Seq(Told)
        /\ HasFallback => emitted' = <<>> /\ Shows(buffer', text')
        /\ ~HasFallback => buffer' = <<>> /\ Shows(emitted', text')
    <3>1. /\ Tells("retry") \in Told /\ Tells("retry").what = "retry" /\ stage = "sending"
          /\ text = <<>> /\ text' = <<>> /\ chain' = chain
      BY <1>0, <2>1, PieceIsTold, AsksFacts
    <3> QED
      BY <2>1, <3>1, EmitsKeeps
  <2>3. attempt' \in 1 .. Retries + 1
    BY <2>1, ProviderBounds, SentParts
  <2>4. ReplyTyped'
    <3>1. Told' = Told
      BY <2>1 DEF Told
    <3> QED
      BY <1>0, <2>1, <2>2, <2>3, <3>1, AsksFacts DEF ProvidersInv, ReplyTyped
  <2>5. Assembled'
    BY <2>1 DEF ProvidersInv, Assembled, CallsAreMade, Mark, Pieces, Piece, Tells, PartsOf,
       Part, Kind
  <2>6. EmittedSoFar'
    <3>1. stage' = "sending" /\ HasFallback' = HasFallback
      BY <1>0, <2>1, AsksFacts DEF HasFallback
    <3> QED
      BY <2>2, <3>1 DEF EmittedSoFar
  <2>7. AttemptsCounted'
    <3>1. DOMAIN attempts' = 1 .. Len(chain)
      BY <1>0, AsksFacts
    <3>2. attempts'[index] = attempt' - 1
      BY <1>0, <2>1, AsksFacts, SentParts
    <3> QED
      BY <1>0, <2>1, <3>1, <3>2, AsksFacts DEF AttemptsCounted
  <2>8. ReturnedWhole'
    BY <1>0, <2>1, AsksFacts DEF ReturnedWhole
  <2> QED
    BY <2>4, <2>5, <2>6, <2>7, <2>8 DEF ProvidersInv
<1> QED
  BY <1>1, <1>2

LEMMA FailsForGoodKeeps == ProvidersInv /\ FailsForGood => ProvidersInv'
BY AsksFacts, ProviderFailsKeeps DEF FailsForGood

LEMMA StreamFailsKeeps == ProvidersInv /\ StreamFails => ProvidersInv'
<1> SUFFICES ASSUME ProvidersInv, StreamFails
             PROVE  ProvidersInv'
  OBVIOUS
<1>1. attempts' = attempts /\ stage = "streaming" /\ ProviderFails
  BY DEF StreamFails
<1>2. attempts \in [1 .. Len(chain) -> Nat] /\ DOMAIN attempts = 1 .. Len(chain)
  BY DEF ProvidersInv, ReplyTyped
<1> QED
  BY <1>1, <1>2, ProviderFailsKeeps DEF ProvidersInv, AttemptsCounted

(* The stream goes on.                                                     *)
LEMMA StreamGoesOn ==
  ASSUME ProvidersInv, stage = "streaming",
         UNCHANGED <<chain, index, attempt, stage, numbers, attempts>>,
         sent' \in SentTypes, made' \in Seq(MadeTypes), ended' \in {"no", "stop", "length"},
         CallsAreMade', text' = (Pieces(sent.pieces) \o Mark)', text' \in Seq(Told),
         buffer' \in Seq(Told), emitted' \in Seq(Told),
         HasFallback => emitted' = <<>> /\ Shows(buffer', text'),
         ~HasFallback => buffer' = <<>> /\ Shows(emitted', text')
  PROVE  ProvidersInv'
<1>1. ReplyTyped'
  <2>1. Told' = Told
    BY DEF Told
  <2> QED
    BY <2>1 DEF ProvidersInv, ReplyTyped
<1>2. Assembled'
  BY DEF Assembled
<1>3. EmittedSoFar'
  BY DEF EmittedSoFar, HasFallback
<1>4. AttemptsCounted' /\ ReturnedWhole'
  BY DEF ProvidersInv, AttemptsCounted, ReturnedWhole
<1> QED
  BY <1>1, <1>2, <1>3, <1>4 DEF ProvidersInv

(* What is emitted and the text stay, and the calls are put together.      *)
LEMMA TextStays ==
  ASSUME ProvidersInv, stage = "streaming",
         UNCHANGED <<chain, index, attempt, stage, numbers, attempts, text, buffer, emitted>>,
         sent' \in SentTypes, sent'.pieces = sent.pieces, made' \in Seq(MadeTypes),
         ended = "no", ended' \in {"no", "stop"}, CallsAreMade'
  PROVE  ProvidersInv'
<1>1. /\ text = Pieces(sent.pieces) \o Mark /\ text \in Seq(Told)
      /\ buffer \in Seq(Told) /\ emitted \in Seq(Told)
      /\ HasFallback => emitted = <<>> /\ Shows(buffer, text)
      /\ ~HasFallback => buffer = <<>> /\ Shows(emitted, text)
  BY DEF ProvidersInv, Assembled, ReplyTyped, EmittedSoFar
<1>2. Mark = <<>> /\ Mark' = <<>>
  BY DEF Mark
<1>3. (Pieces(sent.pieces))' = Pieces(sent.pieces)
  BY DEF Pieces, Piece
<1>4. (Pieces(sent.pieces) \o Mark)' = Pieces(sent.pieces) \o Mark
  BY <1>2, <1>3
<1> QED
  BY <1>1, <1>4, StreamGoesOn

LEMMA CallsStay ==
  ASSUME ProvidersInv, sent'.opened = sent.opened, sent'.parts = sent.parts, made' = made,
         ended' # "stop", ended = "no", UNCHANGED <<chain, index>>
  PROVE  CallsAreMade'
BY DEF ProvidersInv, Assembled, CallsAreMade, PartsOf, Part, Kind

LEMMA PiecesMore ==
  ASSUME NEW n \in Nat
  PROVE  Pieces(n + 1) = Append(Pieces(n), Piece(n + 1))
<1> DEFINE S == {Piece(k) : k \in Nat}
<1>1. Pieces(n) \in Seq(S) /\ Len(Pieces(n)) = n
  BY DEF Pieces
<1>2. Pieces(n + 1) \in Seq(S) /\ Len(Pieces(n + 1)) = n + 1
  BY DEF Pieces
<1>3. Piece(n + 1) \in S
  OBVIOUS
<1>4. \A k \in 1 .. n : Pieces(n)[k] = Piece(k)
  BY DEF Pieces
<1>5. \A k \in 1 .. n + 1 : Pieces(n + 1)[k] = Piece(k)
  BY DEF Pieces
<1> DEFINE more == Append(Pieces(n), Piece(n + 1))
<1> HIDE DEF S
<1>6. more \in Seq(S) /\ Len(more) = n + 1 /\ more[n + 1] = Piece(n + 1)
      /\ \A k \in 1 .. n : more[k] = Pieces(n)[k]
  BY <1>1, <1>3
<1> HIDE DEF more
<1>7. \A k \in 1 .. n + 1 : Pieces(n + 1)[k] = more[k]
  BY <1>4, <1>5, <1>6
<1>8. Pieces(n + 1) = more
  BY <1>2, <1>6, <1>7, SeqEqual
<1> QED
  BY <1>8 DEF more

LEMMA PieceKeeps == ProvidersInv /\ PieceArrives => ProvidersInv'
<1> SUFFICES ASSUME ProvidersInv, PieceArrives
             PROVE  ProvidersInv'
  OBVIOUS
<1> DEFINE n == sent.pieces + 1
<1>1. /\ stage = "streaming" /\ ended = "no" /\ sent.pieces < MaxPieces
      /\ sent' = [sent EXCEPT !.pieces = n] /\ text' = Append(text, Piece(n))
      /\ Emits(<<Piece(n)>>)
      /\ UNCHANGED <<chain, index, attempt, stage, numbers, made, ended, reply, attempts>>
  BY DEF PieceArrives, Streaming
<1>2. n \in 1 .. MaxPieces /\ n \in 0 .. MaxPieces /\ sent.pieces \in Nat
  BY <1>1, SentParts, ProviderBounds
<1>3. Piece(n) \in Told
  BY <1>2, PieceIsTold
<1>4. /\ sent' \in SentTypes /\ sent'.pieces = n
      /\ sent'.parts = sent.parts /\ sent'.opened = sent.opened
  BY <1>1, <1>2, SentParts DEF SentTypes
<1>5. text = Pieces(sent.pieces) \o Mark /\ text \in Seq(Told)
  BY DEF ProvidersInv, Assembled, ReplyTyped
<1>6. Mark = <<>> /\ Mark' = <<>>
  BY <1>1 DEF Mark
<1>7. (Pieces(sent.pieces))' = Append(Pieces(sent.pieces), Piece(n))
  <2>1. (Pieces(sent.pieces))' = Pieces(n)
    BY <1>1, <1>4 DEF Pieces, Piece
  <2> QED
    BY <1>2, <2>1, PiecesMore
<1>8. text' = (Pieces(sent.pieces) \o Mark)'
  <2>1. text = Pieces(sent.pieces)
    <3>1. Pieces(sent.pieces) \in Seq({Piece(k) : k \in Nat})
      BY <1>2 DEF Pieces
    <3> QED
      BY <1>5, <1>6, <3>1
  <2>2. text' = (Pieces(sent.pieces))'
    BY <1>1, <1>7, <2>1
  <2>3. text' \in Seq(Told)
    BY <1>1, <1>3, <1>5
  <2>4. (Pieces(sent.pieces))' \o <<>> = (Pieces(sent.pieces))'
    BY <2>2, <2>3
  <2> QED
    BY <1>6, <2>2, <2>4
<1>9. CallsAreMade'
  BY <1>1, <1>4, CallsStay
<1>10. /\ buffer' \in Seq(Told) /\ emitted' \in Seq(Told) /\ text' \in Seq(Told)
       /\ HasFallback => emitted' = <<>> /\ Shows(buffer', text')
       /\ ~HasFallback => buffer' = <<>> /\ Shows(emitted', text')
  BY <1>1, <1>3, EmitsKeeps
<1>11. made' \in Seq(MadeTypes) /\ ended' \in {"no", "stop", "length"}
  BY <1>1 DEF ProvidersInv, ReplyTyped
<1> QED
  BY <1>1, <1>4, <1>8, <1>9, <1>10, <1>11, StreamGoesOn

(* A chat reply that is cut off says so.                                   *)
LEMMA CutOffKeeps == ProvidersInv /\ CutOff => ProvidersInv'
<1> SUFFICES ASSUME ProvidersInv, CutOff
             PROVE  ProvidersInv'
  OBVIOUS
<1> DEFINE note == Tells("cut off")
<1>1. /\ stage = "streaming" /\ ended = "no" /\ ended' = "length"
      /\ text' = Append(text, note) /\ Emits(<<note>>)
      /\ UNCHANGED <<chain, index, attempt, stage, numbers, reply, attempts, sent, made>>
  BY DEF CutOff, EndsWith, Streaming
<1>2. note \in Told
  BY PieceIsTold
<1>3. text = Pieces(sent.pieces) \o Mark /\ text \in Seq(Told) /\ sent \in SentTypes
      /\ made \in Seq(MadeTypes)
  BY DEF ProvidersInv, Assembled, ReplyTyped
<1>4. Mark = <<>> /\ Mark' = <<note>>
  BY <1>1 DEF Mark, Tells
<1>5. text = Pieces(sent.pieces)
  <2>1. Pieces(sent.pieces) \in Seq({Piece(k) : k \in Nat})
    BY SentParts DEF Pieces
  <2>2. Pieces(sent.pieces) \o <<>> = Pieces(sent.pieces)
    BY <2>1
  <2> QED
    BY <1>3, <1>4, <2>2
<1>6. (Pieces(sent.pieces))' = text
  BY <1>1, <1>5 DEF Pieces, Piece
<1> HIDE DEF note
<1>7. text' = (Pieces(sent.pieces) \o Mark)'
  <2>1. text \o <<note>> = Append(text, note)
    BY <1>2, <1>3
  <2> QED
    BY <1>1, <1>4, <1>6, <2>1
<1>8. CallsAreMade'
  BY <1>1, CallsStay
<1>9. /\ buffer' \in Seq(Told) /\ emitted' \in Seq(Told) /\ text' \in Seq(Told)
      /\ HasFallback => emitted' = <<>> /\ Shows(buffer', text')
      /\ ~HasFallback => buffer' = <<>> /\ Shows(emitted', text')
  BY <1>1, <1>2, EmitsKeeps
<1> QED
  BY <1>1, <1>3, <1>7, <1>8, <1>9, StreamGoesOn

LEMMA StreamEndsKeeps == ProvidersInv /\ StreamEnds => ProvidersInv'
<1> SUFFICES ASSUME ProvidersInv, StreamEnds
             PROVE  ProvidersInv'
  OBVIOUS
<1>1. /\ stage = "streaming" /\ ended = "no" /\ ended' = "stop"
      /\ \A c \in 1 .. sent.opened : sent.parts[c] \in {0, Parts}
      /\ UNCHANGED <<chain, index, attempt, stage, numbers, reply, attempts, sent, text, made,
                     buffer, emitted>>
  BY DEF StreamEnds, EndsWith, Streaming
<1>2. sent \in SentTypes /\ made \in Seq(MadeTypes)
  BY DEF ProvidersInv, ReplyTyped
<1>3. CallsAreMade'
  BY <1>1 DEF ProvidersInv, Assembled, CallsAreMade, PartsOf, Part
<1> QED
  BY <1>1, <1>2, <1>3, TextStays

LEMMA CallFacts ==
  ASSUME ProvidersInv
  PROVE  /\ made \in Seq(MadeTypes) /\ Len(made) = sent.opened
         /\ \A c \in 1 .. sent.opened :
              /\ c \in Made /\ made[c] \in MadeTypes /\ made[c].id = c
              /\ made[c].parts = PartsOf(c, sent.parts[c])
         /\ \A c \in Made : sent.parts[c] \in 0 .. Parts /\ (c > sent.opened => sent.parts[c] = 0)
         /\ sent.opened \in Nat
<1>1. made \in Seq(MadeTypes) /\ Len(made) = sent.opened /\ sent.opened \in 0 .. MaxMade
      /\ sent.parts \in [Made -> 0 .. Parts]
  BY SentParts DEF ProvidersInv, ReplyTyped, Assembled, CallsAreMade
<1>2. \A c \in 1 .. sent.opened : c \in Made
  BY <1>1, ProviderBounds
<1>3. \A c \in 1 .. sent.opened : made[c] \in MadeTypes
  BY <1>1
<1> QED
  BY <1>1, <1>2, <1>3, ProviderBounds DEF ProvidersInv, Assembled, CallsAreMade

LEMMA PartsFacts ==
  ASSUME NEW c \in Made, NEW n \in 0 .. Parts
  PROVE  /\ PartsOf(c, n) \in Seq(Made \X (1 .. Parts)) /\ Len(PartsOf(c, n)) = n
         /\ PartsOf(c, 0) = <<>>
         /\ n < Parts => PartsOf(c, n) \o <<Part(c, n + 1)>> = PartsOf(c, n + 1)
<1> DEFINE S == Made \X (1 .. Parts)
<1>0. Parts \in Nat /\ n \in Nat
  BY ProviderBounds
<1>1. \A k \in 1 .. Parts : Part(c, k) \in S
  BY DEF Part
<1>2. ASSUME NEW m \in 0 .. Parts
      PROVE  /\ PartsOf(c, m) \in Seq(S) /\ Len(PartsOf(c, m)) = m
             /\ \A k \in 1 .. m : PartsOf(c, m)[k] = Part(c, k)
  <2>1. \A k \in 1 .. m : Part(c, k) \in S
    BY <1>0, <1>1
  <2> HIDE DEF S
  <2> QED
    BY <1>0, <2>1 DEF PartsOf
<1>3. PartsOf(c, 0) = <<>>
  <2>1. 1 .. 0 = {}
    OBVIOUS
  <2> QED
    BY <2>1 DEF PartsOf
<1>4. ASSUME n < Parts
      PROVE  PartsOf(c, n) \o <<Part(c, n + 1)>> = PartsOf(c, n + 1)
  <2> DEFINE was == PartsOf(c, n)
             one == Part(c, n + 1)
             now == PartsOf(c, n + 1)
             all == was \o <<one>>
  <2>1. n + 1 \in 0 .. Parts /\ n + 1 \in 1 .. Parts
    BY <1>0, <1>4
  <2>2. one \in S
    BY <1>1, <2>1
  <2>3. was \in Seq(S) /\ Len(was) = n /\ \A k \in 1 .. n : was[k] = Part(c, k)
    BY <1>2
  <2>4. now \in Seq(S) /\ Len(now) = n + 1 /\ \A k \in 1 .. n + 1 : now[k] = Part(c, k)
    BY <1>2, <2>1
  <2> HIDE DEF S, was, one, now
  <2>5. /\ all \in Seq(S) /\ Len(all) = n + 1 /\ all[n + 1] = one
        /\ \A k \in 1 .. n : all[k] = was[k]
    BY <1>0, <2>2, <2>3
  <2>6. one = Part(c, n + 1)
    BY DEF one
  <2> HIDE DEF all
  <2>7. \A k \in 1 .. n + 1 : all[k] = now[k]
    BY <1>0, <2>3, <2>4, <2>5, <2>6
  <2>8. all = now
    BY <2>4, <2>5, <2>7, SeqEqual
  <2> QED
    BY <2>8 DEF all, was, one, now
<1> QED
  BY <1>2, <1>3, <1>4 DEF S

(* A call is named.                                                        *)
LEMMA OpensKeeps == ProvidersInv /\ CallOpens => ProvidersInv'
<1> SUFFICES ASSUME ProvidersInv, CallOpens
             PROVE  ProvidersInv'
  OBVIOUS
<1> DEFINE c == sent.opened + 1
           call == [id |-> c, parts |-> <<>>]
<1>1. /\ stage = "streaming" /\ ended = "no" /\ sent.opened < MaxMade
      /\ Kind \in {"chat", "messages"}
      /\ sent' = [sent EXCEPT !.opened = c] /\ Placed(c, TRUE, <<>>)
      /\ UNCHANGED <<chain, index, attempt, stage, numbers, text, ended, buffer, emitted, attempts>>
  BY DEF CallOpens, Streaming, Untouched
<1>2. c \in Made /\ c \in 0 .. MaxMade /\ c \in Nat /\ sent.opened \in Nat
  BY <1>1, SentParts, ProviderBounds
<1>3. /\ sent' \in SentTypes /\ sent'.pieces = sent.pieces
      /\ sent'.parts = sent.parts /\ sent'.opened = c
  BY <1>1, <1>2, SentParts DEF SentTypes
<1>4. Slot(c, TRUE) = c
  <2>1. CASE Kind = "messages" \/ numbers
    BY <2>1 DEF Slot
  <2>2. CASE ~(Kind = "messages" \/ numbers) /\ made = <<>>
    <3>1. c = 1
      BY <2>2, CallFacts
    <3> QED
      BY <2>2, <3>1 DEF Slot
  <2>3. CASE ~(Kind = "messages" \/ numbers) /\ made # <<>>
    <3>1. Len(made) \in 1 .. sent.opened /\ Len(made) + 1 = c
      BY <2>3, CallFacts
    <3>2. made[Len(made)].id # c
      BY <1>2, <3>1, CallFacts
    <3> QED
      BY <2>3, <3>1, <3>2 DEF Slot
  <2> QED
    BY <2>1, <2>2, <2>3
<1>5. made' = Append(made, call)
  <2>1. c \notin DOMAIN made
    BY <1>2, CallFacts
  <2>2. <<>> \o <<>> = <<>>
    OBVIOUS
  <2> QED
    BY <1>1, <1>4, <2>1, <2>2 DEF Placed
<1>6. call \in MadeTypes /\ call.id = c /\ call.parts = <<>>
  BY <1>2 DEF MadeTypes
<1> DEFINE next == Append(made, call)
<1>7. /\ next \in Seq(MadeTypes) /\ Len(next) = c /\ next[c] = call
      /\ \A d \in 1 .. sent.opened : next[d] = made[d]
  BY <1>2, <1>6, CallFacts
<1> HIDE DEF next, call
<1>8. made' = next
  BY <1>5 DEF next
<1>9. ASSUME NEW d \in 1 .. c
      PROVE  next[d].id = d /\ next[d].parts = PartsOf(d, sent.parts[d])
  <2>1. CASE d = c
    <3>1. sent.parts[c] = 0 /\ PartsOf(c, 0) = <<>>
      <4>1. 0 \in 0 .. Parts
        BY ProviderBounds
      <4>2. c > sent.opened
        BY <1>2
      <4>3. sent.parts[c] = 0
        BY <1>2, <4>2, CallFacts
      <4>4. PartsOf(c, 0) = <<>>
        BY <1>2, <4>1, PartsFacts
      <4> QED
        BY <4>3, <4>4
    <3> HIDE DEF c
    <3> QED
      BY <1>6, <1>7, <2>1, <3>1
  <2>2. CASE d # c
    <3>1. d \in 1 .. sent.opened
      BY <1>2, <2>2
    <3> QED
      BY <1>7, <3>1, CallFacts
  <2> QED
    BY <2>1, <2>2
<1>10. CallsAreMade'
  <2>1. \A d \in 1 .. sent'.opened : made'[d].id = d /\ made'[d].parts = (PartsOf(d, sent.parts[d]))'
    BY <1>3, <1>8, <1>9 DEF PartsOf, Part
  <2>2. Kind' = Kind
    BY <1>1 DEF Kind
  <2>3. \A d \in Made : d > c => sent.parts[d] = 0
    BY <1>2, CallFacts, ProviderBounds
  <2> QED
    BY <1>1, <1>3, <1>7, <1>8, <2>1, <2>2, <2>3 DEF CallsAreMade
<1> HIDE DEF c
<1> QED
  BY <1>1, <1>3, <1>7, <1>8, <1>10, TextStays

(* A part of a call's arguments.                                           *)
LEMMA PartKeeps == ASSUME ProvidersInv, NEW c \in Made, PartArrives(c) PROVE ProvidersInv'
<1> DEFINE n == sent.parts[c]
           call == [id |-> c, parts |-> PartsOf(c, n + 1)]
           next == [made EXCEPT ![c] = call]
           parts == [sent.parts EXCEPT ![c] = n + 1]
<1>1. /\ stage = "streaming" /\ ended = "no" /\ c <= sent.opened /\ n < Parts
      /\ ~numbers /\ Kind = "chat" => c = sent.opened
      /\ Placed(c, FALSE, <<Part(c, n + 1)>>)
      /\ UNCHANGED <<chain, index, attempt, stage, numbers, text, ended, buffer, emitted, attempts>>
  BY DEF PartArrives, Streaming, Untouched
<1>2. c \in 1 .. sent.opened /\ sent.opened \in Nat /\ n \in 0 .. Parts /\ n \in Nat
  BY <1>1, ProviderBounds, CallFacts
<1>3. n + 1 \in 0 .. Parts
  BY <1>1, <1>2, ProviderBounds
<1>4. sent' = [sent EXCEPT !.parts = parts]
  BY DEF PartArrives
<1>5. parts \in [Made -> 0 .. Parts] /\ parts[c] = n + 1 /\ \A d \in Made : d # c => parts[d] = sent.parts[d]
  BY <1>3, SentParts
<1> HIDE DEF parts
<1>6. /\ sent' \in SentTypes /\ sent'.pieces = sent.pieces
      /\ sent'.parts = parts /\ sent'.opened = sent.opened
  BY <1>4, <1>5, SentParts DEF SentTypes
<1>7. Slot(c, FALSE) = c
  <2>1. CASE Kind = "messages" \/ numbers
    BY <2>1 DEF Slot
  <2>2. CASE ~(Kind = "messages" \/ numbers)
    <3>1. Kind = "chat"
      <4>1. Kind \in {"chat", "messages"}
        BY <1>1, <1>2 DEF ProvidersInv, Assembled, CallsAreMade
      <4> QED
        BY <2>2, <4>1
    <3>2. made # <<>> /\ Len(made) = c
      BY <1>1, <1>2, <2>2, <3>1, CallFacts
    <3> QED
      BY <2>2, <3>2 DEF Slot
  <2> QED
    BY <2>1, <2>2
<1>8. /\ made[c] \in MadeTypes /\ made[c].id = c /\ made[c].parts = PartsOf(c, n)
      /\ c \in DOMAIN made
  BY <1>2, CallFacts
<1>9. PartsOf(c, n) \o <<Part(c, n + 1)>> = PartsOf(c, n + 1)
      /\ PartsOf(c, n + 1) \in Seq(Made \X (1 .. Parts))
  BY <1>1, <1>2, <1>3, PartsFacts
<1>10. made' = next
  BY <1>1, <1>7, <1>8, <1>9 DEF Placed
<1>11. call \in MadeTypes /\ call.id = c /\ call.parts = PartsOf(c, n + 1)
  BY <1>9 DEF MadeTypes
<1> HIDE DEF call, n
<1>12. /\ next \in Seq(MadeTypes) /\ Len(next) = sent.opened /\ next[c] = call
       /\ \A d \in 1 .. sent.opened : d # c => next[d] = made[d]
  BY <1>2, <1>11, CallFacts
<1> HIDE DEF next
<1>13. ASSUME NEW d \in 1 .. sent.opened
       PROVE  next[d].id = d /\ next[d].parts = PartsOf(d, parts[d])
  <2>1. CASE d = c
    BY <1>5, <1>11, <1>12, <2>1
  <2>2. CASE d # c
    BY <1>5, <1>12, <2>2, CallFacts
  <2> QED
    BY <2>1, <2>2
<1>14. CallsAreMade'
  <2>1. \A d \in 1 .. sent'.opened : made'[d].id = d /\ made'[d].parts = (PartsOf(d, sent.parts[d]))'
    BY <1>6, <1>10, <1>13 DEF PartsOf, Part
  <2>2. Kind' = Kind
    BY <1>1 DEF Kind
  <2>3. ASSUME NEW d \in Made, d > sent.opened
        PROVE  parts[d] = 0
    <3>1. d \in Nat /\ c <= sent.opened /\ c \in Nat
      BY <1>2, ProviderBounds
    <3>2. d # c
      BY <1>2, <2>3, <3>1
    <3>3. sent.parts[d] = 0
      BY <2>3, CallFacts
    <3> QED
      BY <1>5, <3>2, <3>3
  <2>4. Kind \notin {"chat", "messages"} => sent.opened = 0
    BY <1>1 DEF ProvidersInv, Assembled, CallsAreMade
  <2> QED
    BY <1>1, <1>6, <1>10, <1>12, <2>1, <2>2, <2>3, <2>4 DEF CallsAreMade
<1> QED
  BY <1>1, <1>6, <1>10, <1>12, <1>14, TextStays

(* A reply that arrives at once has its calls whole.                       *)
CallsAtOnce(n) == [c \in 1 .. n |-> WholeCall(c)]
PartsAtOnce(n) == [c \in Made |-> IF c <= n THEN Parts ELSE 0]

LEMMA WholeCalls ==
  ASSUME NEW n \in 0 .. MaxMade
  PROVE  LET calls == CallsAtOnce(n)
             parts == PartsAtOnce(n)
         IN
         /\ calls \in Seq(MadeTypes) /\ Len(calls) = n
         /\ parts \in [Made -> 0 .. Parts]
         /\ \A c \in 1 .. n : /\ calls[c].id = c /\ calls[c].parts = PartsOf(c, parts[c])
                              /\ parts[c] \in {0, Parts}
         /\ \A c \in Made : c > n => parts[c] = 0
<1> DEFINE calls == CallsAtOnce(n)
           parts == PartsAtOnce(n)
<1>1. n \in Nat /\ Parts \in Nat /\ Parts \in 0 .. Parts /\ 0 \in 0 .. Parts
      /\ \A c \in 1 .. n : c \in Made /\ c <= n
  BY ProviderBounds
<1>2. \A c \in 1 .. n : WholeCall(c) \in MadeTypes /\ WholeCall(c).id = c
                         /\ WholeCall(c).parts = PartsOf(c, Parts)
  <2>1. \A c \in 1 .. n : PartsOf(c, Parts) \in Seq(Made \X (1 .. Parts))
    BY <1>1, PartsFacts
  <2>2. \A c \in 1 .. n : WholeCall(c) = [id |-> c, parts |-> PartsOf(c, Parts)]
    BY DEF WholeCall, PartsOf
  <2> QED
    BY <1>1, <2>1, <2>2 DEF MadeTypes
<1>3. \A c \in Made : parts[c] = IF c <= n THEN Parts ELSE 0
  BY DEF PartsAtOnce
<1>4. parts \in [Made -> 0 .. Parts]
  BY <1>1 DEF PartsAtOnce
<1>5. \A c \in Made : c > n => parts[c] = 0
  BY <1>1, <1>3, ProviderBounds
<1>6. calls \in Seq(MadeTypes) /\ Len(calls) = n
  BY <1>1, <1>2 DEF CallsAtOnce
<1>7. \A c \in 1 .. n : calls[c] = WholeCall(c) /\ parts[c] = Parts
  BY <1>1, <1>3 DEF CallsAtOnce
<1> QED
  BY <1>2, <1>4, <1>5, <1>6, <1>7

LEMMA CompletesKeeps == ASSUME ProvidersInv, NEW n \in 0 .. MaxMade, Completes(n) PROVE ProvidersInv'
<1> DEFINE parts == PartsAtOnce(n)
           calls == CallsAtOnce(n)
<1>1. /\ stage = "streaming" /\ ended = "no" /\ ended' = "stop"
      /\ sent' = [sent EXCEPT !.opened = n, !.parts = parts] /\ made' = calls
      /\ UNCHANGED <<chain, index, attempt, stage, numbers, attempts, text, buffer, emitted>>
  BY DEF Completes, EndsWith, Streaming, PartsAtOnce, CallsAtOnce
<1>2. /\ calls \in Seq(MadeTypes) /\ Len(calls) = n
      /\ parts \in [Made -> 0 .. Parts]
      /\ \A c \in 1 .. n : /\ calls[c].id = c /\ calls[c].parts = PartsOf(c, parts[c])
                           /\ parts[c] \in {0, Parts}
      /\ \A c \in Made : c > n => parts[c] = 0
  BY WholeCalls
<1> HIDE DEF parts, calls
<1>3. /\ sent' \in SentTypes /\ sent'.pieces = sent.pieces
      /\ sent'.parts = parts /\ sent'.opened = n
  BY <1>1, <1>2, SentParts DEF SentTypes
<1>4. CallsAreMade'
  <2>1. \A d \in 1 .. sent'.opened : made'[d].id = d /\ made'[d].parts = (PartsOf(d, sent.parts[d]))'
    BY <1>1, <1>2, <1>3 DEF PartsOf, Part
  <2> QED
    BY <1>1, <1>2, <1>3, <2>1 DEF CallsAreMade
<1> QED
  BY <1>1, <1>2, <1>3, <1>4, TextStays

LEMMA BodyKeeps == ASSUME ProvidersInv, NEW n \in 0 .. MaxMade, BodyArrives(n) PROVE ProvidersInv'
<1> DEFINE parts == PartsAtOnce(n)
           calls == CallsAtOnce(n)
           one == Piece(1)
<1>1. /\ stage = "streaming" /\ ended = "no" /\ ended' = "stop" /\ sent = NothingSent
      /\ sent' = [pieces |-> 1, opened |-> n, parts |-> parts] /\ made' = calls
      /\ text' = <<one>> /\ Emits(<<one>>)
      /\ UNCHANGED <<chain, index, attempt, stage, numbers, attempts>>
  BY DEF BodyArrives, EndsWith, Streaming, PartsAtOnce, CallsAtOnce
<1>2. /\ calls \in Seq(MadeTypes) /\ Len(calls) = n
      /\ parts \in [Made -> 0 .. Parts]
      /\ \A c \in 1 .. n : /\ calls[c].id = c /\ calls[c].parts = PartsOf(c, parts[c])
                           /\ parts[c] \in {0, Parts}
      /\ \A c \in Made : c > n => parts[c] = 0
  BY WholeCalls
<1>3. 1 \in 1 .. MaxPieces /\ 1 \in 0 .. MaxPieces
  BY ProviderBounds
<1>4. one \in Told
  BY <1>3, PieceIsTold
<1>5. Pieces(1) = <<one>>
  <2>1. Pieces(1) = Append(Pieces(0), Piece(1))
    <3>1. 0 \in Nat /\ 0 + 1 = 1
      OBVIOUS
    <3>2. Pieces(0 + 1) = Append(Pieces(0), Piece(0 + 1))
      BY <3>1, PiecesMore
    <3> QED
      BY <3>1, <3>2
  <2>2. Append(<<>>, one) = <<one>>
    OBVIOUS
  <2> QED
    BY <2>1, <2>2, NothingSentFacts
<1>6. text = <<>> /\ Mark' = <<>>
  <2>1. Mark = <<>> /\ Mark' = <<>>
    BY <1>1 DEF Mark
  <2> QED
    BY <1>1, <2>1, NothingSentFacts DEF ProvidersInv, Assembled
<1>7. (Pieces(sent.pieces))' = <<one>>
  BY <1>1, <1>5 DEF Pieces, Piece
<1> HIDE DEF parts, calls, one
<1>8. /\ sent' \in SentTypes /\ sent'.parts = parts /\ sent'.opened = n
  BY <1>1, <1>2, <1>3 DEF SentTypes
<1>9. CallsAreMade'
  <2>1. \A d \in 1 .. sent'.opened : made'[d].id = d /\ made'[d].parts = (PartsOf(d, sent.parts[d]))'
    BY <1>1, <1>2, <1>8 DEF PartsOf, Part
  <2> QED
    BY <1>1, <1>2, <1>8, <2>1 DEF CallsAreMade
<1>10. text' = Append(text, one)
  BY <1>1, <1>6
<1>11. /\ buffer' \in Seq(Told) /\ emitted' \in Seq(Told) /\ text' \in Seq(Told)
       /\ HasFallback => emitted' = <<>> /\ Shows(buffer', text')
       /\ ~HasFallback => buffer' = <<>> /\ Shows(emitted', text')
  BY <1>1, <1>4, <1>10, EmitsKeeps
<1>12. text' = (Pieces(sent.pieces) \o Mark)'
  <2>1. <<one>> \o <<>> = <<one>>
    OBVIOUS
  <2> QED
    BY <1>1, <1>6, <1>7, <2>1
<1> QED
  BY <1>1, <1>2, <1>8, <1>9, <1>11, <1>12, StreamGoesOn

(* A reply is returned, and told with what its provider emitted.           *)
LEMMA ReturnsKeeps == ProvidersInv /\ Returns => ProvidersInv'
<1> SUFFICES ASSUME ProvidersInv, Returns
             PROVE  ProvidersInv'
  OBVIOUS
<1>1. attempts' = attempts /\ stage = "streaming" /\ ended # "no"
  BY DEF Returns
<1>2. attempts \in [1 .. Len(chain) -> Nat] /\ DOMAIN attempts = 1 .. Len(chain)
  BY DEF ProvidersInv, ReplyTyped
<1>3. CASE ProviderFails
  BY <1>1, <1>2, <1>3, ProviderFailsKeeps DEF ProvidersInv, AttemptsCounted
<1>4. CASE ~ProviderFails
  <2> DEFINE note == Tells("fallback")
             all == emitted \o (IF index > 1 THEN <<note>> ELSE <<>>) \o buffer
  <2>1. /\ reply' = Returned /\ stage' = "replied" /\ emitted' = all /\ buffer' = <<>>
        /\ UNCHANGED <<chain, index, attempt, numbers, sent, text, made, ended>>
    BY <1>4 DEF Returns, assembly
  <2>2. /\ text \in Seq(Told) /\ buffer \in Seq(Told) /\ emitted \in Seq(Told)
        /\ note \in Told /\ note.what = "fallback"
        /\ HasFallback => emitted = <<>> /\ Shows(buffer, text)
        /\ ~HasFallback => buffer = <<>> /\ Shows(emitted, text)
    BY <1>1, PieceIsTold DEF ProvidersInv, ReplyTyped, EmittedSoFar
  <2>3. all \in Seq(Told) /\ Shows(all, text)
    <3> HIDE DEF note
    <3>1. CASE HasFallback /\ index > 1
      <4>1. all = <<note>> \o buffer
        <5>1. emitted = <<>> /\ <<>> \o <<note>> = <<note>>
          BY <2>2, <3>1
        <5> QED
          BY <3>1, <5>1
      <4>2. <<note>> \o buffer \in Seq(Told)
        BY <2>2
      <4>3. Shows(<<note>> \o buffer, text)
        BY <2>2, <3>1, ShowsAfterNotice
      <4> QED
        BY <4>1, <4>2, <4>3
    <3>2. CASE HasFallback /\ ~(index > 1)
      <4>1. emitted = <<>> /\ <<>> \o <<>> = <<>> /\ <<>> \o buffer = buffer
        BY <2>2, <3>2
      <4>2. all = buffer
        BY <3>2, <4>1
      <4> QED
        BY <2>2, <3>2, <4>2
    <3>3. CASE ~HasFallback
      <4>1. ~(index > 1)
        BY <3>3, SentParts DEF HasFallback
      <4>2. buffer = <<>> /\ emitted \o <<>> = emitted
        BY <2>2, <3>3
      <4>3. all = emitted
        BY <4>1, <4>2
      <4> QED
        BY <2>2, <3>3, <4>3
    <3> QED
      BY <3>1, <3>2, <3>3
  <2> HIDE DEF all, note
  <2>4. ReplyTyped'
    <3>1. Told' = Told /\ <<>> \in Seq(Told)
      BY <2>1 DEF Told
    <3> QED
      BY <1>1, <2>1, <2>3, <3>1 DEF ProvidersInv, ReplyTyped
  <2>5. Assembled'
    BY <2>1 DEF ProvidersInv, Assembled, CallsAreMade, Mark, Pieces, Piece, Tells, PartsOf, Part,
                Kind
  <2>6. EmittedSoFar' /\ AttemptsCounted'
    BY <1>1, <2>1 DEF ProvidersInv, EmittedSoFar, AttemptsCounted
  <2>7. ReturnedWhole'
    <3>1. Returned' = Returned
      BY <2>1 DEF Returned
    <3> QED
      BY <1>1, <2>1, <2>3, <3>1 DEF ReturnedWhole
  <2> QED
    BY <2>4, <2>5, <2>6, <2>7 DEF ProvidersInv
<1> QED
  BY <1>3, <1>4

LEMMA ProvidersStayKeeps == ProvidersInv /\ UNCHANGED providersVars => ProvidersInv'
<1> SUFFICES ASSUME ProvidersInv, UNCHANGED providersVars
             PROVE  ProvidersInv'
  OBVIOUS
<1>1. UNCHANGED <<chain, index, attempt, stage, numbers, sent, text, made, ended, buffer, emitted,
                  reply, attempts>>
  BY DEF providersVars, assembly
<1>2. ReplyTyped'
  BY <1>1 DEF ProvidersInv, ReplyTyped, Told
<1>3. Assembled'
  BY <1>1 DEF ProvidersInv, Assembled, CallsAreMade, Mark, Pieces, Piece, Tells, PartsOf, Part,
              Kind
<1>4. EmittedSoFar' /\ AttemptsCounted'
  BY <1>1 DEF ProvidersInv, EmittedSoFar, AttemptsCounted, HasFallback
<1>5. ReturnedWhole'
  <2>1. Returned' = Returned
    BY <1>1 DEF Returned
  <2> QED
    BY <1>1, <2>1 DEF ProvidersInv, ReturnedWhole
<1> QED
  BY <1>2, <1>3, <1>4, <1>5 DEF ProvidersInv

LEMMA ProvidersStep == ProvidersInv /\ [ProvidersNext]_providersVars => ProvidersInv'
<1> SUFFICES ASSUME ProvidersInv, [ProvidersNext]_providersVars
             PROVE  ProvidersInv'
  OBVIOUS
<1>1. CASE Accepted \/ FailsForNow \/ FailsForGood \/ StreamFails
  BY <1>1, AcceptedKeeps, FailsForNowKeeps, FailsForGoodKeeps, StreamFailsKeeps
<1>2. CASE PieceArrives \/ CutOff \/ StreamEnds \/ CallOpens \/ Returns
  BY <1>2, PieceKeeps, CutOffKeeps, StreamEndsKeeps, OpensKeeps, ReturnsKeeps
<1>3. ASSUME NEW c \in Made, PartArrives(c)
      PROVE  ProvidersInv'
  BY <1>3, PartKeeps
<1>4. ASSUME NEW n \in 0 .. MaxMade, Completes(n) \/ BodyArrives(n)
      PROVE  ProvidersInv'
  BY <1>4, CompletesKeeps, BodyKeeps
<1>5. CASE UNCHANGED providersVars
  BY <1>5, ProvidersStayKeeps
<1> QED
  BY <1>1, <1>2, <1>3, <1>4, <1>5 DEF ProvidersNext, ReplyEnded

LEMMA CallsReturned == ASSUME ProvidersInv, stage = "replied" PROVE CallsAreTheirOwn
<1>1. reply = Returned /\ ended # "no"
  BY DEF ProvidersInv, ReturnedWhole
<1> DEFINE one(c) == [id |-> made[c].id, parts |-> made[c].parts,
                      arguments |-> Arguments(made[c].parts)]
           calls == [c \in DOMAIN made |-> one(c)]
<1>2. reply.calls = calls
  BY <1>1 DEF Returned
<1>3. DOMAIN made = 1 .. sent.opened /\ sent.opened \in Nat
  BY CallFacts
<1>4. Len(calls) = sent.opened
  <2>1. calls \in Seq({one(c) : c \in Nat})
    BY <1>3
  <2> QED
    BY <1>3, <2>1
<1>5. ASSUME NEW c \in 1 .. sent.opened
      PROVE  /\ calls[c].id = c
             /\ calls[c].parts = [k \in 1 .. sent.parts[c] |-> Part(c, k)]
             /\ calls[c].arguments = "invalid" => ended = "length"
  <2>1. calls[c] = one(c)
    BY <1>3
  <2>2. made[c].id = c /\ made[c].parts = PartsOf(c, sent.parts[c]) /\ c \in Made
        /\ sent.parts[c] \in 0 .. Parts
    BY CallFacts
  <2>3. calls[c].arguments = Arguments(PartsOf(c, sent.parts[c]))
    BY <2>1, <2>2
  <2>4. ASSUME ended = "stop"
        PROVE  calls[c].arguments # "invalid"
    <3>1. sent.parts[c] \in {0, Parts}
      BY <2>4 DEF ProvidersInv, Assembled, CallsAreMade
    <3>2. CASE sent.parts[c] = 0
      <4>1. PartsOf(c, 0) = <<>> /\ Len(<<>>) # Parts
        BY <2>2, <3>2, PartsFacts, ProviderBounds
      <4>2. Arguments(<<>>) = "{}"
        BY <4>1 DEF Arguments
      <4> QED
        BY <2>3, <3>2, <4>1, <4>2
    <3>3. CASE sent.parts[c] = Parts
      <4> DEFINE whole == PartsOf(c, Parts)
      <4>1. Len(whole) = Parts
        BY <2>2, <3>3, PartsFacts
      <4>2. whole # <<>>
        BY <4>1, ProviderBounds
      <4> HIDE DEF whole
      <4>3. Arguments(whole) = "whole"
        BY <4>1, <4>2 DEF Arguments
      <4> QED
        BY <2>3, <3>3, <4>3 DEF whole
    <3> QED
      BY <3>1, <3>2, <3>3
  <2>5. ended \in {"no", "stop", "length"}
    BY DEF ProvidersInv, ReplyTyped
  <2>6. calls[c].id = c
    BY <2>1, <2>2
  <2>7. calls[c].parts = PartsOf(c, sent.parts[c])
    BY <2>1, <2>2
  <2>8. calls[c].arguments = "invalid" => ended = "length"
    BY <1>1, <2>4, <2>5
  <2> HIDE DEF calls
  <2> QED
    BY <2>6, <2>7, <2>8 DEF PartsOf
<1> HIDE DEF calls
<1> QED
  BY <1>2, <1>4, <1>5 DEF CallsAreTheirOwn

LEMMA ProvidersHold == ProvidersInv => ProvidersTypeOK /\ ReplyIsWhole
<1> SUFFICES ASSUME ProvidersInv
             PROVE  ProvidersTypeOK /\ ReplyIsWhole
  OBVIOUS
<1>1. ProvidersTypeOK
  BY DEF ProvidersInv, ReplyTyped, ProvidersTypeOK, SentTypes, MadeTypes
<1>2. ASSUME stage = "replied"
      PROVE  /\ ended # "no"
             /\ reply.text = Pieces(sent.pieces) \o (IF ended = "length" THEN <<Tells("cut off")>>
                                                                         ELSE <<>>)
             /\ Shows(emitted, reply.text)
             /\ CallsAreTheirOwn
  <2>1. ended # "no" /\ reply = Returned /\ Shows(emitted, text)
    BY <1>2 DEF ProvidersInv, ReturnedWhole
  <2>2. reply.text = text
    BY <2>1 DEF Returned
  <2>3. text = Pieces(sent.pieces) \o Mark
    BY DEF ProvidersInv, Assembled
  <2> QED
    BY <1>2, <2>1, <2>2, <2>3, CallsReturned DEF Mark
<1>3. stage = "failed" /\ HasFallback => emitted = <<>>
  BY DEF ProvidersInv, EmittedSoFar
<1>4. \A i \in DOMAIN attempts : attempts[i] <= Retries + 1 /\ (i > index => attempts[i] = 0)
  BY DEF ProvidersInv, AttemptsCounted
<1> QED
  BY <1>1, <1>2, <1>3, <1>4 DEF ReplyIsWhole

-----------------------------------------------------------------------------

(* The RPC server.                                                         *)
RpcLines == [kind : {"reply", "event", "close"}, number : 0 .. MaxRequests]
IsOwed(request) == request.named \/ request.method = "malformed"

(* What was said answers the requests that were decided: a reply is one of *)
(* theirs, each has its own and no second, and no event follows it.        *)
AnswersAll(lines, decided) ==
  /\ \A i \in 1 .. Len(lines) :
       lines[i].kind = "reply" => \E r \in decided : IsOwed(r) /\ lines[i].number = r.number
  /\ \A r \in decided : IsOwed(r) => \E i \in 1 .. Len(lines) : lines[i] = Line("reply", r.number)
AnswersOnce(lines) ==
  /\ \A i, j \in 1 .. Len(lines) :
       lines[i].kind = "reply" /\ lines[j].kind = "reply" /\ lines[i].number = lines[j].number => i = j
  /\ \A i, j \in 1 .. Len(lines) :
       lines[i].kind = "reply" /\ lines[j].kind = "event" /\ i < j => lines[i].number # lines[j].number
SaidFor(lines, decided) ==
  lines \in Seq(RpcLines) /\ AnswersAll(lines, decided) /\ AnswersOnce(lines)

LEMMA LineFacts ==
  ASSUME NEW kind \in {"reply", "event", "close"}, NEW n \in 0 .. MaxRequests
  PROVE  /\ Line(kind, n) \in RpcLines /\ Line(kind, n).kind = kind /\ Line(kind, n).number = n
BY DEF Line, RpcLines

LEMMA AppendFacts ==
  ASSUME NEW lines \in Seq(RpcLines), NEW line \in RpcLines
  PROVE  /\ Append(lines, line) \in Seq(RpcLines) /\ Len(Append(lines, line)) = Len(lines) + 1
         /\ Len(lines) \in Nat
         /\ \A i \in 1 .. Len(lines) : Append(lines, line)[i] = lines[i] /\ lines[i] \in RpcLines
         /\ Append(lines, line)[Len(lines) + 1] = line
         /\ lines \o <<line>> = Append(lines, line)
OBVIOUS

(* A line that is no reply may follow unless it is an event of a request   *)
(* that was decided.                                                       *)
LEMMA SaysMore ==
  ASSUME NEW lines, NEW decided, SaidFor(lines, decided), NEW kind \in {"event", "close"},
         NEW n \in 0 .. MaxRequests, kind = "event" => \A r \in decided : r.number # n
  PROVE  SaidFor(Append(lines, Line(kind, n)), decided)
<1> DEFINE line == Line(kind, n)
           next == Append(lines, line)
<1>1. line \in RpcLines /\ line.kind = kind /\ line.number = n /\ line.kind # "reply"
  BY LineFacts
<1> HIDE DEF line
<1>2. lines \in Seq(RpcLines) /\ AnswersAll(lines, decided) /\ AnswersOnce(lines)
  BY DEF SaidFor
<1>3. /\ next \in Seq(RpcLines) /\ Len(next) = Len(lines) + 1 /\ Len(lines) \in Nat
      /\ \A i \in 1 .. Len(lines) : next[i] = lines[i]
      /\ next[Len(lines) + 1] = line
  BY <1>1, <1>2, AppendFacts
<1> HIDE DEF next
<1>4. AnswersAll(next, decided)
  BY <1>1, <1>2, <1>3 DEF AnswersAll
<1>5. \A i \in 1 .. Len(lines) : lines[i].kind = "reply" /\ kind = "event" => lines[i].number # n
  BY <1>2 DEF AnswersAll
<1>6. AnswersOnce(next)
  BY <1>1, <1>2, <1>3, <1>5, SMTT(30) DEF AnswersOnce
<1> QED
  BY <1>3, <1>4, <1>6 DEF SaidFor, next, line

(* A request is decided, and answered when it is to be.                    *)
LEMMA AnswersRequest ==
  ASSUME NEW lines, NEW decided, SaidFor(lines, decided), NEW request \in Requests,
         \A r \in decided : r.number # request.number
  PROVE  SaidFor(lines \o Answers(request), decided \union {request})
<1>0. request.number \in 1 .. MaxRequests /\ request.number \in 0 .. MaxRequests
  BY RpcAssumption DEF Requests
<1>1. lines \in Seq(RpcLines) /\ AnswersAll(lines, decided) /\ AnswersOnce(lines)
  BY DEF SaidFor
<1>2. CASE ~IsOwed(request)
  <2>1. Answers(request) = <<>>
    BY <1>2 DEF Answers, IsOwed
  <2>2. lines \o Answers(request) = lines
    BY <1>1, <2>1
  <2>3. AnswersAll(lines, decided \union {request})
    BY <1>1, <1>2 DEF AnswersAll
  <2> QED
    BY <1>1, <2>2, <2>3 DEF SaidFor
<1>3. CASE IsOwed(request)
  <2> DEFINE line == Line("reply", request.number)
             next == Append(lines, line)
  <2>1. Answers(request) = <<line>>
    BY <1>3 DEF Answers, IsOwed
  <2>2. line \in RpcLines /\ line.kind = "reply" /\ line.number = request.number
    BY <1>0, LineFacts
  <2>3. line = Line("reply", request.number)
    OBVIOUS
  <2> HIDE DEF line
  <2>4. /\ next \in Seq(RpcLines) /\ Len(next) = Len(lines) + 1 /\ Len(lines) \in Nat
        /\ \A i \in 1 .. Len(lines) : next[i] = lines[i]
        /\ next[Len(lines) + 1] = line /\ lines \o <<line>> = next
    BY <1>1, <2>2, AppendFacts
  <2> HIDE DEF next
  <2>5. \A i \in 1 .. Len(lines) : lines[i].kind = "reply" => lines[i].number # request.number
    BY <1>1 DEF AnswersAll
  <2>6. AnswersAll(next, decided \union {request})
    BY <1>1, <1>3, <2>2, <2>3, <2>4, SMTT(30) DEF AnswersAll
  <2>7. AnswersOnce(next)
    <3>1. ASSUME NEW i \in 1 .. Len(next), NEW j \in 1 .. Len(next), next[i].kind = "reply",
                 next[j].kind = "reply", next[i].number = next[j].number
          PROVE  i = j
      <4>1. CASE i \in 1 .. Len(lines) /\ j \in 1 .. Len(lines)
        BY <1>1, <2>4, <3>1, <4>1 DEF AnswersOnce
      <4>2. CASE i = Len(lines) + 1 /\ j \in 1 .. Len(lines)
        BY <2>2, <2>4, <2>5, <3>1, <4>2
      <4>3. CASE i \in 1 .. Len(lines) /\ j = Len(lines) + 1
        BY <2>2, <2>4, <2>5, <3>1, <4>3
      <4> QED
        BY <2>4, <4>1, <4>2, <4>3
    <3>2. ASSUME NEW i \in 1 .. Len(next), NEW j \in 1 .. Len(next), next[i].kind = "reply",
                 next[j].kind = "event", i < j
          PROVE  next[i].number # next[j].number
      <4>1. i \in 1 .. Len(lines) /\ j \in 1 .. Len(lines)
        BY <2>2, <2>4, <3>2
      <4> QED
        BY <1>1, <2>4, <3>2, <4>1 DEF AnswersOnce
    <3> QED
      BY <3>1, <3>2 DEF AnswersOnce
  <2> QED
    BY <2>1, <2>4, <2>6, <2>7 DEF SaidFor
<1> QED
  BY <1>2, <1>3

RpcServers ==
  [step : {"idle", "running", "saving", "closing", "closed", "down"},
   prompt : Requests \union {NoRequest}, stopping : BOOLEAN, inputOpen : BOOLEAN,
   steerOpen : BOOLEAN, steered : 0 .. RpcCapacity, cancelled : BOOLEAN, events : Nat]
RpcInputs == [lines : Seq(Requests), sent : 0 .. MaxRequests, open : BOOLEAN]

RpcTyped ==
  /\ rpcInput \in RpcInputs /\ rpcServer \in RpcServers
  /\ rpcOut \in Seq(RpcLines) /\ rpcWritten \in Seq(RpcLines)
  /\ rpcRead \subseteq Requests

(* Lines are numbered as they were sent and read in that order.            *)
ReadOnce == \A r, s \in rpcRead : r.number = s.number => r = s
ReadInOrder ==
  /\ ReadOnce
  /\ Len(rpcInput.lines) <= rpcInput.sent
  /\ \A i \in 1 .. Len(rpcInput.lines) :
       rpcInput.lines[i].number = rpcInput.sent - Len(rpcInput.lines) + i
  /\ \A r \in rpcRead : r.number <= rpcInput.sent - Len(rpcInput.lines)

(* The prompt of the run under way is the one request read and not decided.*)
PromptIsRead ==
  /\ rpcServer.step = "idle" => rpcServer.prompt = NoRequest
  /\ rpcServer.prompt = NoRequest \/ rpcServer.prompt \in rpcRead
  /\ rpcServer.step \in {"running", "saving"} => rpcServer.prompt \in rpcRead
  /\ SaidFor(Said, rpcRead \ {rpcServer.prompt})

(* Nothing is read after a shutdown.                                       *)
ShutdownIsLast ==
  \A first \in rpcRead :
    first.method = "shutdown" =>
      /\ \A later \in rpcRead : later.number <= first.number
      /\ rpcServer.step # "idle"
      /\ rpcServer.step \in {"running", "saving"} => rpcServer.stopping

(* The close is the last line there is.                                    *)
CloseIsLast ==
  /\ \A i \in 1 .. Len(rpcOut) :
       rpcOut[i].kind = "close" => i = Len(rpcOut) /\ rpcServer.step = "closed"
  /\ rpcServer.step = "closed" => rpcOut # <<>> /\ rpcOut[Len(rpcOut)].kind = "close"
  /\ rpcServer.step = "down" => rpcOut = <<>>

RpcInv == RpcTyped /\ ReadInOrder /\ PromptIsRead /\ ShutdownIsLast /\ CloseIsLast

LEMMA RpcParts ==
  ASSUME RpcInv
  PROVE  /\ rpcInput \in RpcInputs /\ rpcInput.lines \in Seq(Requests)
         /\ Len(rpcInput.lines) \in Nat /\ rpcInput.sent \in 0 .. MaxRequests
         /\ rpcInput.sent \in Nat /\ rpcInput.open \in BOOLEAN
         /\ rpcServer \in RpcServers
         /\ rpcServer.step \in {"idle", "running", "saving", "closing", "closed", "down"}
         /\ rpcServer.prompt \in Requests \union {NoRequest} /\ rpcServer.steered \in 0 .. RpcCapacity
         /\ rpcServer.events \in Nat
         /\ rpcOut \in Seq(RpcLines) /\ rpcWritten \in Seq(RpcLines)
         /\ rpcRead \subseteq Requests
         /\ ReadInOrder /\ PromptIsRead /\ ShutdownIsLast /\ CloseIsLast
         /\ MaxRequests \in Nat /\ RpcCapacity \in Nat
BY RpcAssumption DEF RpcInv, RpcTyped, RpcInputs, RpcServers

LEMMA RequestFacts ==
  /\ NoRequest \notin Requests
  /\ \A r \in Requests : r.number \in 1 .. MaxRequests /\ r.number \in 0 .. MaxRequests
                         /\ r.number \in Nat
BY RpcAssumption DEF NoRequest, Requests

LEMMA IdleServerTyped ==
  /\ IdleServer \in RpcServers /\ IdleServer.step = "idle" /\ IdleServer.prompt = NoRequest
  /\ IdleServer.stopping = FALSE
BY RpcAssumption DEF IdleServer, RpcServers

LEMMA RpcInitInv == RpcInit => RpcInv
<1> SUFFICES ASSUME RpcInit PROVE RpcInv
  OBVIOUS
<1>0. /\ <<>> \in Seq(RpcLines) /\ <<>> \in Seq(Requests) /\ Len(<<>>) = 0
      /\ <<>> \o <<>> = <<>>
  OBVIOUS
<1> DEFINE none == <<>>
<1>1. none \in Seq(RpcLines) /\ none \in Seq(Requests) /\ Len(none) = 0 /\ none \o none = none
  BY <1>0
<1>2. /\ rpcInput = [lines |-> none, sent |-> 0, open |-> TRUE] /\ rpcServer = IdleServer
      /\ rpcOut = none /\ rpcWritten = none /\ rpcRead = {}
  BY DEF RpcInit
<1> HIDE DEF none
<1>3. RpcTyped
  BY <1>1, <1>2, IdleServerTyped, RpcAssumption DEF RpcTyped, RpcInputs
<1>4. ReadInOrder
  BY <1>1, <1>2 DEF ReadInOrder, ReadOnce
<1>5. SaidFor(none, {})
  BY <1>1 DEF SaidFor, AnswersAll, AnswersOnce
<1>6. Said = none
  BY <1>1, <1>2 DEF Said
<1>7. PromptIsRead
  <2>1. rpcRead \ {rpcServer.prompt} = {}
    BY <1>2
  <2> QED
    BY <1>2, <1>5, <1>6, <2>1, IdleServerTyped DEF PromptIsRead
<1>8. ShutdownIsLast
  BY <1>2 DEF ShutdownIsLast
<1>9. CloseIsLast
  BY <1>1, <1>2, IdleServerTyped DEF CloseIsLast
<1> QED
  BY <1>3, <1>4, <1>7, <1>8, <1>9 DEF RpcInv

LEMMA SaysAppends ==
  ASSUME RpcInv, NEW lines \in Seq(RpcLines), Says(lines), UNCHANGED rpcWritten
  PROVE  Said' = Said \o lines /\ rpcOut' \in Seq(RpcLines) /\ rpcOut' = rpcOut \o lines
<1>1. rpcOut \in Seq(RpcLines) /\ rpcWritten \in Seq(RpcLines)
  BY RpcParts
<1>2. rpcOut' = rpcOut \o lines /\ rpcWritten' = rpcWritten
  BY DEF Says
<1>3. rpcOut \o lines \in Seq(RpcLines)
  BY <1>1, ConcatProperties
<1>4. (rpcWritten \o rpcOut) \o lines = rpcWritten \o (rpcOut \o lines)
  BY <1>1, ConcatAssociative
<1>5. Said' = Said \o lines
  BY <1>2, <1>4 DEF Said
<1> QED
  BY <1>2, <1>3, <1>5

LEMMA AnswersTyped ==
  ASSUME NEW request \in Requests
  PROVE  Answers(request) \in Seq(RpcLines)
         /\ \A i \in 1 .. Len(Answers(request)) : Answers(request)[i].kind # "close"
<1>1. request.number \in 0 .. MaxRequests
  BY RequestFacts
<1>2. Line("reply", request.number) \in RpcLines /\ Line("reply", request.number).kind = "reply"
  BY <1>1, LineFacts
<1> DEFINE line == Line("reply", request.number)
<1>3. Answers(request) = <<>> \/ Answers(request) = <<line>>
  BY DEF Answers
<1>4. line \in RpcLines /\ line.kind = "reply"
  BY <1>2
<1> HIDE DEF line
<1>5. CASE Answers(request) = <<>>
  BY <1>5
<1>6. CASE Answers(request) = <<line>>
  BY <1>4, <1>6
<1> QED
  BY <1>3, <1>5, <1>6

(* What is said while nothing closes.                                      *)
LEMMA SaysNoClose ==
  ASSUME RpcInv, rpcServer.step \notin {"closed", "down"}, rpcServer'.step \notin {"closed", "down"},
         NEW lines \in Seq(RpcLines), rpcOut' = rpcOut \o lines,
         \A i \in 1 .. Len(lines) : lines[i].kind # "close"
  PROVE  CloseIsLast'
<1>1. rpcOut \in Seq(RpcLines) /\ CloseIsLast
  BY RpcParts
<1>2. \A i \in 1 .. Len(rpcOut) : rpcOut[i].kind # "close"
  BY <1>1 DEF CloseIsLast
<1>3. \A i \in 1 .. Len(rpcOut') : rpcOut'[i].kind # "close"
  <2>1. /\ Len(rpcOut') = Len(rpcOut) + Len(lines)
        /\ \A i \in 1 .. Len(rpcOut) + Len(lines) :
             rpcOut'[i] = IF i <= Len(rpcOut) THEN rpcOut[i] ELSE lines[i - Len(rpcOut)]
    BY <1>1, ConcatProperties
  <2>2. Len(rpcOut) \in Nat /\ Len(lines) \in Nat
    BY <1>1
  <2> QED
    BY <1>2, <2>1, <2>2
<1> QED
  BY <1>3 DEF CloseIsLast

LEMMA RpcReads ==
  ASSUME RpcInv, NEW request \in Requests, Reads(request)
  PROVE  /\ rpcInput' \in RpcInputs /\ ReadInOrder' /\ rpcRead' \subseteq Requests
         /\ rpcRead' = rpcRead \union {request} /\ UNCHANGED rpcWritten
         /\ \A r \in rpcRead : r.number < request.number
<1> DEFINE lines == rpcInput.lines
<1>1. /\ lines # <<>> /\ request = Head(lines) /\ rpcInput' = [rpcInput EXCEPT !.lines = Tail(@)]
      /\ rpcRead' = rpcRead \union {request} /\ UNCHANGED rpcWritten
  BY DEF Reads
<1>2. lines \in Seq(Requests) /\ Len(lines) \in Nat /\ rpcInput \in RpcInputs
  BY RpcParts
<1>3. /\ Tail(lines) \in Seq(Requests) /\ Len(Tail(lines)) = Len(lines) - 1 /\ Len(lines) >= 1
      /\ \A i \in 1 .. Len(lines) - 1 : Tail(lines)[i] = lines[i + 1]
      /\ lines[1] = request
  BY <1>1, <1>2
<1>4. rpcInput' \in RpcInputs /\ rpcInput'.lines = Tail(lines) /\ rpcInput'.sent = rpcInput.sent
  BY <1>1, <1>2, <1>3 DEF RpcInputs
<1>5. /\ Len(lines) <= rpcInput.sent /\ rpcInput.sent \in Nat
      /\ \A i \in 1 .. Len(lines) : lines[i].number = rpcInput.sent - Len(lines) + i
      /\ \A r \in rpcRead : r.number <= rpcInput.sent - Len(lines)
      /\ \A r \in rpcRead : r.number \in Nat
  BY RpcParts, RequestFacts DEF ReadInOrder, ReadOnce
<1> DEFINE next == Tail(lines)
<1>6. next \in Seq(Requests) /\ Len(next) = Len(lines) - 1 /\ \A i \in 1 .. Len(lines) - 1 : next[i] = lines[i + 1]
  BY <1>3
<1> HIDE DEF next, lines
<1>7. request.number = rpcInput.sent - Len(lines) + 1
  BY <1>2, <1>3, <1>5
<1>9. \A r \in rpcRead : r.number < request.number
  BY <1>2, <1>3, <1>5, <1>7
<1>10. ReadOnce'
  <2>1. ReadOnce
    BY RpcParts DEF ReadInOrder, ReadOnce
  <2>2. \A r \in rpcRead : r.number # request.number
    BY <1>5, <1>7, <1>9, <1>2
  <2> QED
    BY <1>1, <2>1, <2>2 DEF ReadOnce
<1>8. ReadInOrder'
  <2>1. Len(next) <= rpcInput.sent
    BY <1>2, <1>5, <1>6
  <2>3. ASSUME NEW i \in 1 .. Len(next)
        PROVE  next[i].number = rpcInput.sent - Len(next) + i
    <3>1. i \in 1 .. Len(lines) - 1 /\ i + 1 \in 1 .. Len(lines)
      BY <1>2, <1>6
    <3>2. next[i] = lines[i + 1] /\ lines[i + 1].number = rpcInput.sent - Len(lines) + (i + 1)
      <4>1. next[i] = lines[i + 1]
        BY <1>6, <3>1
      <4>2. \A k \in 1 .. Len(lines) : lines[k].number = rpcInput.sent - Len(lines) + k
        BY <1>5
      <4>3. lines[i + 1].number = rpcInput.sent - Len(lines) + (i + 1)
        BY <3>1, <4>2, Zenon
      <4> QED
        BY <4>1, <4>3
    <3>3. rpcInput.sent - Len(lines) + (i + 1) = rpcInput.sent - Len(next) + i
      <4>1. Len(next) = Len(lines) - 1 /\ Len(lines) \in Nat /\ rpcInput.sent \in Nat /\ i \in Nat
        BY <1>2, <1>5, <1>6, <3>1
      <4>2. Len(next) \in Int
        BY <4>1
      <4> QED
        BY <4>1, <4>2
    <3> QED
      BY <3>2, <3>3
  <2>2. \A r \in rpcRead' : r.number <= rpcInput.sent - Len(next)
    BY <1>1, <1>2, <1>3, <1>5, <1>6, <1>7
  <2> QED
    BY <1>4, <1>10, <2>1, <2>2, <2>3 DEF ReadInOrder, next
<1> QED
  BY <1>1, <1>4, <1>8, <1>9, RpcParts

(* A line is read and answered at once.                                    *)
LEMMA RpcReadAnswered ==
  ASSUME RpcInv, NEW request \in Requests, Reads(request), Says(Answers(request)),
         rpcServer' \in RpcServers, rpcServer'.prompt = rpcServer.prompt,
         \/ rpcServer.step = "idle" /\ rpcServer'.step \in {"idle", "closing"}
         \/ rpcServer.step = "running" /\ ~rpcServer.stopping /\ rpcServer'.step = "running",
         request.method = "shutdown" =>
           \/ rpcServer'.step = "closing"
           \/ rpcServer'.step = "running" /\ rpcServer'.stopping
  PROVE  RpcInv'
<1> DEFINE decided == rpcRead \ {rpcServer.prompt}
<1>1. /\ rpcInput' \in RpcInputs /\ ReadInOrder' /\ rpcRead' \subseteq Requests
      /\ rpcRead' = rpcRead \union {request} /\ UNCHANGED rpcWritten
      /\ \A r \in rpcRead : r.number < request.number
  BY RpcReads
<1>2. /\ Answers(request) \in Seq(RpcLines)
      /\ \A i \in 1 .. Len(Answers(request)) : Answers(request)[i].kind # "close"
  BY AnswersTyped
<1>3. Said' = Said \o Answers(request) /\ rpcOut' \in Seq(RpcLines) /\ rpcOut' = rpcOut \o Answers(request)
  BY <1>1, <1>2, SaysAppends
<1>4. RpcTyped'
  BY <1>1, <1>3, RpcParts DEF RpcTyped
<1>5. /\ rpcServer.prompt = NoRequest \/ rpcServer.prompt \in rpcRead
      /\ rpcServer.step = "idle" => rpcServer.prompt = NoRequest
      /\ rpcServer.step = "running" => rpcServer.prompt \in rpcRead
      /\ SaidFor(Said, decided)
  BY RpcParts DEF PromptIsRead
<1>6. \A r \in rpcRead : r.number # request.number
  BY <1>1, RpcParts, RequestFacts
<1>7. request \notin rpcRead /\ request # rpcServer.prompt
  BY <1>5, <1>6, RequestFacts
<1>8. rpcRead' \ {rpcServer'.prompt} = decided \union {request}
  BY <1>1, <1>7
<1> HIDE DEF decided
<1>9. SaidFor(Said', decided \union {request})
  BY <1>3, <1>5, <1>6, AnswersRequest DEF decided
<1>10. PromptIsRead'
  <2>1. rpcServer'.step = "idle" => rpcServer'.prompt = NoRequest
    BY <1>5
  <2>2. rpcServer'.step \in {"running", "saving"} => rpcServer'.prompt \in rpcRead'
    BY <1>1, <1>5
  <2>3. rpcServer'.prompt = NoRequest \/ rpcServer'.prompt \in rpcRead'
    BY <1>1, <1>5
  <2> QED
    BY <1>8, <1>9, <2>1, <2>2, <2>3 DEF PromptIsRead
<1>11. ShutdownIsLast'
  <2>1. \A r \in rpcRead : r.method # "shutdown"
    BY RpcParts DEF ShutdownIsLast
  <2>2. \A later \in rpcRead' : later.number <= request.number
    BY <1>1, RpcParts, RequestFacts
  <2> QED
    BY <1>1, <2>1, <2>2 DEF ShutdownIsLast
<1>12. CloseIsLast'
  <2>1. rpcServer.step \notin {"closed", "down"} /\ rpcServer'.step \notin {"closed", "down"}
    OBVIOUS
  <2> QED
    BY <1>2, <1>3, <2>1, SaysNoClose
<1> QED
  BY <1>1, <1>4, <1>10, <1>11, <1>12 DEF RpcInv

(* Nothing is read and nothing said.                                       *)
LEMMA RpcServerMoves ==
  ASSUME RpcInv, UNCHANGED <<rpcInput, rpcOut, rpcWritten, rpcRead>>,
         rpcServer' \in RpcServers, rpcServer'.prompt = rpcServer.prompt,
         rpcServer.step \in {"idle", "running"}, rpcServer'.step \in {"running", "saving", "closing"},
         rpcServer'.step # "closing" => rpcServer.step = "running" /\ rpcServer'.stopping = rpcServer.stopping
  PROVE  RpcInv'
<1>1. RpcTyped' /\ ReadInOrder' /\ Said' = Said
  BY RpcParts DEF RpcTyped, ReadInOrder, ReadOnce, Said
<1>2. PromptIsRead'
  BY <1>1, RpcParts DEF PromptIsRead
<1>3. ShutdownIsLast'
  BY RpcParts DEF ShutdownIsLast
<1>4. CloseIsLast'
  BY RpcParts DEF CloseIsLast
<1> QED
  BY <1>1, <1>2, <1>3, <1>4 DEF RpcInv

LEMMA RpcClientSends == RpcInv /\ ClientSends => RpcInv'
<1> SUFFICES ASSUME RpcInv, ClientSends PROVE RpcInv'
  OBVIOUS
<1>1. UNCHANGED <<rpcServer, rpcOut, rpcWritten, rpcRead>>
  BY DEF ClientSends
<1>2. PromptIsRead' /\ ShutdownIsLast' /\ CloseIsLast'
  BY <1>1, RpcParts DEF PromptIsRead, ShutdownIsLast, CloseIsLast, Said
<1>3. CASE rpcInput' = [rpcInput EXCEPT !.open = FALSE]
  <2>1. /\ rpcInput' \in RpcInputs /\ rpcInput'.lines = rpcInput.lines /\ rpcInput'.sent = rpcInput.sent
    BY <1>3, RpcParts DEF RpcInputs
  <2>2. RpcTyped' /\ ReadInOrder'
    BY <1>1, <2>1, RpcParts DEF RpcTyped, ReadInOrder, ReadOnce
  <2> QED
    BY <1>2, <2>2 DEF RpcInv
<1>4. CASE /\ rpcInput.sent < MaxRequests
           /\ \E line \in LinesSent :
                rpcInput' = [rpcInput EXCEPT !.sent = @ + 1, !.lines =
                  Append(@, [number |-> rpcInput.sent + 1, method |-> line.method, named |-> line.named])]
  <2>1. PICK line \in LinesSent :
          rpcInput' = [rpcInput EXCEPT !.sent = @ + 1, !.lines =
            Append(@, [number |-> rpcInput.sent + 1, method |-> line.method, named |-> line.named])]
    BY <1>4
  <2> DEFINE new == [number |-> rpcInput.sent + 1, method |-> line.method, named |-> line.named]
             lines == rpcInput.lines
  <2>2. new \in Requests /\ new.number = rpcInput.sent + 1
    <3>1. line.method \in Methods /\ line.named \in BOOLEAN
      BY LinesAssumption
    <3>2. rpcInput.sent + 1 \in 1 .. MaxRequests
      BY <1>4, RpcParts
    <3> QED
      BY <3>1, <3>2 DEF Requests
  <2>3. rpcInput' = [rpcInput EXCEPT !.sent = @ + 1, !.lines = Append(@, new)]
    BY <2>1
  <2> HIDE DEF new
  <2>4. lines \in Seq(Requests) /\ Len(lines) \in Nat
    BY RpcParts
  <2> DEFINE next == Append(lines, new)
  <2>5. /\ next \in Seq(Requests) /\ Len(next) = Len(lines) + 1
        /\ \A i \in 1 .. Len(lines) : next[i] = lines[i]
        /\ next[Len(lines) + 1] = new
    BY <2>2, <2>4
  <2>6. /\ rpcInput' \in RpcInputs /\ rpcInput'.lines = next /\ rpcInput'.sent = rpcInput.sent + 1
    <3>1. rpcInput' = [rpcInput EXCEPT !.sent = rpcInput.sent + 1, !.lines = next]
      BY <2>3
    <3>2. rpcInput.sent + 1 \in 0 .. MaxRequests /\ next \in Seq(Requests) /\ rpcInput \in RpcInputs
      BY <1>4, <2>5, RpcParts
    <3> HIDE DEF next
    <3> QED
      BY <3>1, <3>2 DEF RpcInputs
  <2>7. /\ Len(lines) <= rpcInput.sent /\ rpcInput.sent \in Nat
        /\ \A i \in 1 .. Len(lines) : lines[i].number = rpcInput.sent - Len(lines) + i
        /\ \A r \in rpcRead : r.number <= rpcInput.sent - Len(lines)
    BY RpcParts DEF ReadInOrder, ReadOnce
  <2> HIDE DEF next, lines
  <2>8. RpcTyped'
    BY <1>1, <2>6, RpcParts DEF RpcTyped
  <2>9. ReadInOrder'
    <3>1. /\ Len(next) <= rpcInput.sent + 1
          /\ (rpcInput.sent + 1) - Len(next) = rpcInput.sent - Len(lines)
      BY <2>4, <2>5, <2>7
    <3>2. ASSUME NEW i \in 1 .. Len(next)
          PROVE  next[i].number = rpcInput.sent - Len(lines) + i
      <4>1. CASE i \in 1 .. Len(lines)
        BY <2>5, <2>7, <4>1
      <4>2. CASE i = Len(lines) + 1
        <5>1. rpcInput.sent - Len(lines) + i = rpcInput.sent + 1
          BY <2>4, <2>7, <4>2
        <5> QED
          BY <2>2, <2>5, <4>2, <5>1
      <4> QED
        BY <2>4, <2>5, <4>1, <4>2
    <3> QED
      <4>1. ReadOnce'
        BY <1>1, RpcParts DEF ReadInOrder, ReadOnce
      <4>2. \A r \in rpcRead' : r.number <= rpcInput.sent - Len(lines)
        BY <1>1, <2>7
      <4> QED
        <5> DEFINE sending == rpcInput.sent + 1
        <5>1. Len(next) <= sending /\ sending - Len(next) = rpcInput.sent - Len(lines)
          BY <3>1
        <5> HIDE DEF sending
        <5>2. rpcInput'.sent = sending /\ rpcInput'.lines = next
          BY <2>6 DEF sending
        <5>3. \A i \in 1 .. Len(next) : next[i].number = sending - Len(next) + i
          BY <3>2, <5>1
        <5>4. \A r \in rpcRead' : r.number <= sending - Len(next)
          BY <4>2, <5>1
        <5> QED
          BY <4>1, <5>1, <5>2, <5>3, <5>4 DEF ReadInOrder
  <2> QED
    BY <1>2, <2>8, <2>9 DEF RpcInv
<1> QED
  BY <1>3, <1>4 DEF ClientSends

LEMMA RpcServesIdle == RpcInv /\ ServeIdle => RpcInv'
<1> SUFFICES ASSUME RpcInv, ServeIdle PROVE RpcInv'
  OBVIOUS
<1>1. PICK request \in Requests :
        /\ Reads(request)
        /\ \/ /\ request.method = "prompt"
              /\ rpcServer' = [IdleServer EXCEPT !.step = "running", !.prompt = request,
                                                 !.steerOpen = TRUE]
              /\ UNCHANGED rpcOut
           \/ /\ request.method = "prompt" /\ Says(Answers(request)) /\ UNCHANGED rpcServer
           \/ /\ request.method # "prompt" /\ Says(Answers(request))
              /\ rpcServer' = [rpcServer EXCEPT
                                 !.step = IF request.method = "shutdown" THEN "closing" ELSE "idle"]
  BY DEF ServeIdle
<1>2. rpcServer.step = "idle"
  BY DEF ServeIdle
<1>3. CASE /\ request.method = "prompt"
           /\ rpcServer' = [IdleServer EXCEPT !.step = "running", !.prompt = request, !.steerOpen = TRUE]
           /\ UNCHANGED rpcOut
  <2>1. /\ rpcInput' \in RpcInputs /\ ReadInOrder' /\ rpcRead' \subseteq Requests
        /\ rpcRead' = rpcRead \union {request} /\ UNCHANGED rpcWritten
        /\ \A r \in rpcRead : r.number < request.number
    BY <1>1, RpcReads
  <2>2. rpcServer' \in RpcServers /\ rpcServer'.step = "running" /\ rpcServer'.prompt = request
    BY <1>3, IdleServerTyped DEF RpcServers
  <2>3. request \notin rpcRead
    BY <2>1, RequestFacts
  <2>4. rpcServer.prompt = NoRequest /\ SaidFor(Said, rpcRead \ {rpcServer.prompt})
    BY <1>2, RpcParts DEF PromptIsRead
  <2>5. rpcRead' \ {rpcServer'.prompt} = rpcRead \ {rpcServer.prompt}
    BY <2>1, <2>2, <2>3, <2>4, RpcParts, RequestFacts
  <2>6. Said' = Said
    BY <1>3, <2>1 DEF Said
  <2>7. PromptIsRead'
    BY <2>1, <2>2, <2>4, <2>5, <2>6 DEF PromptIsRead
  <2>8. RpcTyped'
    BY <1>3, <2>1, <2>2, RpcParts DEF RpcTyped
  <2>9. ShutdownIsLast'
    BY <1>2, <1>3, <2>1, RpcParts DEF ShutdownIsLast
  <2>10. CloseIsLast'
    BY <1>2, <1>3, <2>2, RpcParts DEF CloseIsLast
  <2> QED
    BY <2>1, <2>7, <2>8, <2>9, <2>10 DEF RpcInv
<1>4. CASE request.method = "prompt" /\ Says(Answers(request)) /\ UNCHANGED rpcServer
  BY <1>1, <1>2, <1>4, RpcParts, RpcReadAnswered
<1>5. CASE /\ request.method # "prompt" /\ Says(Answers(request))
           /\ rpcServer' = [rpcServer EXCEPT
                              !.step = IF request.method = "shutdown" THEN "closing" ELSE "idle"]
  <2>1. /\ rpcServer' \in RpcServers /\ rpcServer'.prompt = rpcServer.prompt
        /\ rpcServer'.step = IF request.method = "shutdown" THEN "closing" ELSE "idle"
    BY <1>5, RpcParts DEF RpcServers
  <2>2. rpcServer'.step \in {"idle", "closing"} /\ (request.method = "shutdown" => rpcServer'.step = "closing")
    BY <2>1
  <2> QED
    BY <1>1, <1>2, <1>5, <2>1, <2>2, RpcReadAnswered
<1> QED
  BY <1>1, <1>3, <1>4, <1>5

LEMMA RpcHandlesActive == RpcInv /\ handle_active => RpcInv'
<1> SUFFICES ASSUME RpcInv, handle_active PROVE RpcInv'
  OBVIOUS
<1> DEFINE taken(request) == /\ request.method = "steer" /\ rpcServer.steerOpen
                             /\ ~rpcServer.cancelled /\ rpcServer.steered < RpcCapacity
<1>1. PICK request \in Requests :
        /\ Reads(request)
        /\ Says(Answers(request))
        /\ rpcServer' = [rpcServer EXCEPT
             !.steered = IF taken(request) THEN @ + 1 ELSE @,
             !.cancelled = @ \/ request.method \in {"cancel", "shutdown"},
             !.stopping = @ \/ request.method = "shutdown"]
  BY DEF handle_active
<1>2. rpcServer.step = "running" /\ ~rpcServer.stopping
  BY DEF handle_active
<1> DEFINE steered == IF taken(request) THEN rpcServer.steered + 1 ELSE rpcServer.steered
           stopped == rpcServer.cancelled \/ request.method \in {"cancel", "shutdown"}
           ends == rpcServer.stopping \/ request.method = "shutdown"
<1>3. rpcServer' = [rpcServer EXCEPT !.steered = steered, !.cancelled = stopped, !.stopping = ends]
  BY <1>1
<1>4. steered \in 0 .. RpcCapacity
  BY RpcParts
<1>5. stopped \in BOOLEAN /\ ends \in BOOLEAN /\ (request.method = "shutdown" => ends)
  OBVIOUS
<1> HIDE DEF steered, stopped, ends
<1>6. /\ rpcServer' \in RpcServers /\ rpcServer'.prompt = rpcServer.prompt
      /\ rpcServer'.step = "running" /\ rpcServer'.stopping = ends
  BY <1>2, <1>3, <1>4, <1>5, RpcParts DEF RpcServers
<1>7. request.method = "shutdown" => rpcServer'.step = "running" /\ rpcServer'.stopping
  BY <1>5, <1>6
<1>8. Reads(request) /\ Says(Answers(request))
  BY <1>1
<1> QED
  BY <1>2, <1>6, <1>7, <1>8, RpcReadAnswered

LEMMA RpcEmits == RpcInv /\ RunEmits => RpcInv'
<1> SUFFICES ASSUME RpcInv, RunEmits PROVE RpcInv'
  OBVIOUS
<1> DEFINE number == rpcServer.prompt.number
           line == Line("event", number)
<1>1. /\ rpcServer.step = "running" /\ Says(<<line>>)
      /\ rpcServer' = [rpcServer EXCEPT !.events = @ + 1]
      /\ UNCHANGED <<rpcInput, rpcWritten, rpcRead>>
  BY DEF RunEmits
<1>2. rpcServer.prompt \in rpcRead /\ SaidFor(Said, rpcRead \ {rpcServer.prompt})
  BY <1>1, RpcParts DEF PromptIsRead
<1>3. number \in 0 .. MaxRequests
  BY <1>2, RpcParts, RequestFacts
<1>4. line \in RpcLines /\ line.kind = "event"
  BY <1>3, LineFacts
<1>5. /\ rpcServer' \in RpcServers /\ rpcServer'.step = "running"
      /\ rpcServer'.prompt = rpcServer.prompt /\ rpcServer'.stopping = rpcServer.stopping
  <2>1. rpcServer \in RpcServers /\ rpcServer.events + 1 \in Nat
    BY RpcParts
  <2>2. rpcServer' = [rpcServer EXCEPT !.events = rpcServer.events + 1] /\ rpcServer.step = "running"
    BY <1>1
  <2> QED
    BY <2>1, <2>2 DEF RpcServers
<1>6. ReadOnce
  BY RpcParts DEF ReadInOrder
<1>7. \A r \in rpcRead \ {rpcServer.prompt} : r.number # number
  BY <1>2, <1>6 DEF ReadOnce
<1>8. SaidFor(Append(Said, line), rpcRead \ {rpcServer.prompt})
  BY <1>2, <1>3, <1>7, SaysMore
<1> HIDE DEF line, number
<1>9. <<line>> \in Seq(RpcLines) /\ \A i \in 1 .. Len(<<line>>) : <<line>>[i].kind # "close"
  BY <1>4
<1>10. Said' = Said \o <<line>> /\ rpcOut' \in Seq(RpcLines) /\ rpcOut' = rpcOut \o <<line>>
  BY <1>1, <1>9, SaysAppends
<1>11. Said' = Append(Said, line)
  BY <1>2, <1>4, <1>10, AppendFacts DEF SaidFor
<1>12. RpcTyped' /\ ReadInOrder'
  BY <1>1, <1>5, <1>10, RpcParts DEF RpcTyped, ReadInOrder, ReadOnce
<1>13. PromptIsRead'
  BY <1>1, <1>2, <1>5, <1>8, <1>11 DEF PromptIsRead
<1>14. ShutdownIsLast'
  BY <1>1, <1>5, RpcParts DEF ShutdownIsLast
<1>15. CloseIsLast'
  BY <1>1, <1>5, <1>9, <1>10, SaysNoClose
<1> QED
  BY <1>12, <1>13, <1>14, <1>15 DEF RpcInv

LEMMA RpcReplies == RpcInv /\ Replies => RpcInv'
<1> SUFFICES ASSUME RpcInv, Replies PROVE RpcInv'
  OBVIOUS
<1> DEFINE prompt == rpcServer.prompt
           line == Line("event", prompt.number)
           decided == rpcRead \ {prompt}
<1>1. PICK notice \in {<<>>, <<line>>} : Says(notice \o Answers(prompt))
  BY DEF Replies
<1>2. /\ rpcServer.step = "saving"
      /\ rpcServer' = [IdleServer EXCEPT !.step = IF rpcServer.stopping THEN "closing" ELSE "idle"]
      /\ UNCHANGED <<rpcInput, rpcWritten, rpcRead>>
  BY DEF Replies
<1>3. prompt \in rpcRead /\ prompt \in Requests /\ SaidFor(Said, decided)
  BY <1>2, RpcParts DEF PromptIsRead
<1>4. prompt.number \in 0 .. MaxRequests
  BY <1>3, RequestFacts
<1>5. line \in RpcLines /\ line.kind = "event"
  BY <1>4, LineFacts
<1>6. \A r \in decided : r.number # prompt.number
  BY <1>3, RpcParts DEF ReadInOrder, ReadOnce
<1>7. SaidFor(Append(Said, line), decided)
  BY <1>3, <1>4, <1>6, SaysMore
<1>8. /\ Answers(prompt) \in Seq(RpcLines)
      /\ \A i \in 1 .. Len(Answers(prompt)) : Answers(prompt)[i].kind # "close"
  BY <1>3, AnswersTyped
<1> HIDE DEF line, prompt
<1>9. Said \in Seq(RpcLines)
  BY <1>3 DEF SaidFor
<1>10. notice \in Seq(RpcLines) /\ SaidFor(Said \o notice, decided)
       /\ \A i \in 1 .. Len(notice) : notice[i].kind # "close"
  <2>1. CASE notice = <<>>
    <3>1. Said \o notice = Said
      BY <1>9, <2>1
    <3> QED
      BY <1>3, <2>1, <3>1
  <2>2. CASE notice = <<line>>
    <3>1. Said \o notice = Append(Said, line)
      BY <1>5, <1>9, <2>2, AppendFacts
    <3>2. <<line>> \in Seq(RpcLines) /\ \A i \in 1 .. Len(<<line>>) : <<line>>[i].kind # "close"
      BY <1>5
    <3>3. SaidFor(Said \o notice, decided)
      BY <1>7, <3>1
    <3> QED
      BY <2>2, <3>2, <3>3
  <2> QED
    BY <1>1, <2>1, <2>2
<1> DEFINE lines == notice \o Answers(prompt)
<1>11. lines \in Seq(RpcLines) /\ \A i \in 1 .. Len(lines) : lines[i].kind # "close"
  <2>1. /\ lines \in Seq(RpcLines) /\ Len(lines) = Len(notice) + Len(Answers(prompt))
        /\ \A i \in 1 .. Len(notice) + Len(Answers(prompt)) :
             lines[i] = IF i <= Len(notice) THEN notice[i] ELSE Answers(prompt)[i - Len(notice)]
    BY <1>8, <1>10, ConcatProperties
  <2>2. Len(notice) \in Nat /\ Len(Answers(prompt)) \in Nat
    BY <1>8, <1>10
  <2> HIDE DEF lines
  <2>3. ASSUME NEW i \in 1 .. Len(lines)
        PROVE  lines[i].kind # "close"
    <3>1. CASE i \in 1 .. Len(notice)
      <4>1. lines[i] = notice[i]
        BY <2>1, <2>2, <3>1
      <4> QED
        BY <1>10, <3>1, <4>1
    <3>2. CASE i > Len(notice)
      <4>1. lines[i] = Answers(prompt)[i - Len(notice)] /\ i - Len(notice) \in 1 .. Len(Answers(prompt))
        BY <2>1, <2>2, <3>2
      <4> QED
        BY <1>8, <4>1
    <3> QED
      BY <2>2, <3>1, <3>2
  <2> QED
    BY <2>1, <2>3
<1>12. /\ Said' = Said \o lines /\ rpcOut' \in Seq(RpcLines) /\ rpcOut' = rpcOut \o lines
  BY <1>1, <1>2, <1>11, SaysAppends
<1>13. Said' = (Said \o notice) \o Answers(prompt)
  <2>1. notice \in Seq(RpcLines) /\ Said \in Seq(RpcLines) /\ Answers(prompt) \in Seq(RpcLines)
    BY <1>8, <1>9, <1>10
  <2>2. (Said \o notice) \o Answers(prompt) = Said \o (notice \o Answers(prompt))
    BY <2>1, ConcatAssociative
  <2>3. Said' = Said \o lines
    BY <1>12
  <2> QED
    BY <2>2, <2>3, Zenon
<1>14. SaidFor((Said \o notice) \o Answers(prompt), decided \union {prompt})
  BY <1>3, <1>6, <1>10, AnswersRequest
<1>15. /\ rpcServer' \in RpcServers /\ rpcServer'.prompt = NoRequest
       /\ rpcServer'.step = IF rpcServer.stopping THEN "closing" ELSE "idle"
  BY <1>2, IdleServerTyped DEF RpcServers
<1>16. rpcRead' \ {rpcServer'.prompt} = decided \union {prompt}
  BY <1>2, <1>3, <1>15, RpcParts, RequestFacts
<1> HIDE DEF decided, lines
<1>17. PromptIsRead'
  BY <1>13, <1>14, <1>15, <1>16 DEF PromptIsRead
<1>18. RpcTyped' /\ ReadInOrder'
  BY <1>2, <1>12, <1>15, RpcParts DEF RpcTyped, ReadInOrder, ReadOnce
<1>19. ShutdownIsLast'
  BY <1>2, <1>15, RpcParts DEF ShutdownIsLast
<1>20. CloseIsLast'
  <2>1. rpcServer.step \notin {"closed", "down"} /\ rpcServer'.step \notin {"closed", "down"}
    BY <1>2, <1>15
  <2> QED
    BY <1>11, <1>12, <2>1, SaysNoClose
<1> QED
  BY <1>17, <1>18, <1>19, <1>20 DEF RpcInv

LEMMA RpcCloses == RpcInv /\ Closes => RpcInv'
<1> SUFFICES ASSUME RpcInv, Closes PROVE RpcInv'
  OBVIOUS
<1> DEFINE line == Line("close", 0)
<1>1. /\ rpcServer.step = "closing" /\ rpcServer' = [rpcServer EXCEPT !.step = "closed"]
      /\ Says(<<line>>) /\ UNCHANGED <<rpcInput, rpcWritten, rpcRead>>
  BY DEF Closes
<1>2. SaidFor(Said, rpcRead \ {rpcServer.prompt}) /\ Said \in Seq(RpcLines)
  BY RpcParts DEF PromptIsRead, SaidFor
<1>3. 0 \in 0 .. MaxRequests
  BY RpcParts
<1>4. line \in RpcLines /\ line.kind = "close"
  BY <1>3, LineFacts
<1>5. SaidFor(Append(Said, line), rpcRead \ {rpcServer.prompt})
  BY <1>2, <1>3, SaysMore
<1>6. /\ rpcServer' \in RpcServers /\ rpcServer'.step = "closed"
      /\ rpcServer'.prompt = rpcServer.prompt
  BY <1>1, RpcParts DEF RpcServers
<1> HIDE DEF line
<1>7. <<line>> \in Seq(RpcLines)
  BY <1>4
<1>8. Said' = Said \o <<line>> /\ rpcOut' \in Seq(RpcLines) /\ rpcOut' = rpcOut \o <<line>>
  BY <1>1, <1>7, SaysAppends
<1>9. Said' = Append(Said, line) /\ rpcOut' = Append(rpcOut, line)
  BY <1>2, <1>4, <1>8, RpcParts, AppendFacts
<1>10. RpcTyped' /\ ReadInOrder'
  BY <1>1, <1>6, <1>8, RpcParts DEF RpcTyped, ReadInOrder, ReadOnce
<1>11. PromptIsRead'
  BY <1>1, <1>5, <1>6, <1>9, RpcParts DEF PromptIsRead
<1>12. ShutdownIsLast'
  BY <1>1, <1>6, RpcParts DEF ShutdownIsLast
<1>13. CloseIsLast'
  <2>1. /\ Len(rpcOut') = Len(rpcOut) + 1 /\ Len(rpcOut) \in Nat
        /\ \A i \in 1 .. Len(rpcOut) : rpcOut'[i] = rpcOut[i]
        /\ rpcOut'[Len(rpcOut) + 1] = line /\ rpcOut' # <<>>
    <3>1. rpcOut \in Seq(RpcLines) /\ line \in RpcLines /\ rpcOut' = Append(rpcOut, line)
      BY <1>4, <1>9, RpcParts
    <3> QED
      BY <3>1
  <2>2. \A i \in 1 .. Len(rpcOut) : rpcOut[i].kind # "close"
    BY <1>1, RpcParts DEF CloseIsLast
  <2> QED
    BY <1>4, <1>6, <2>1, <2>2 DEF CloseIsLast
<1> QED
  BY <1>10, <1>11, <1>12, <1>13 DEF RpcInv

(* The writer takes a line: what was said stays the same, but for the      *)
(* close, with which nothing is left.                                      *)
LEMMA RpcWrites == RpcInv /\ Writes => RpcInv'
<1> SUFFICES ASSUME RpcInv, Writes PROVE RpcInv'
  OBVIOUS
<1> DEFINE line == Head(rpcOut)
           rest == Tail(rpcOut)
<1>1. rpcOut # <<>> /\ rpcOut' = rest /\ UNCHANGED <<rpcInput, rpcRead>>
  BY DEF Writes
<1>2. rpcOut \in Seq(RpcLines) /\ rpcWritten \in Seq(RpcLines) /\ CloseIsLast
  BY RpcParts
<1>3. /\ rest \in Seq(RpcLines) /\ line \in RpcLines /\ Len(rest) = Len(rpcOut) - 1
      /\ Len(rpcOut) \in Nat /\ Len(rpcOut) >= 1
      /\ \A i \in 1 .. Len(rest) : rest[i] = rpcOut[i + 1]
      /\ line = rpcOut[1]
  BY <1>1, <1>2
<1>4. <<line>> \in Seq(RpcLines) /\ <<line>> \o rest = rpcOut
  <2>1. <<line>> \in Seq(RpcLines)
    BY <1>3
  <2> QED
    BY <1>1, <1>2, <2>1
<1> HIDE DEF line, rest
<1>5. rpcWritten \o rpcOut = (rpcWritten \o <<line>>) \o rest
  <2>1. (rpcWritten \o <<line>>) \o rest = rpcWritten \o (<<line>> \o rest)
    BY <1>2, <1>3, <1>4, ConcatAssociative, SMTT(30)
  <2> QED
    BY <1>4, <2>1
<1>6. CASE line.kind = "close" /\ rpcServer' = [rpcServer EXCEPT !.step = "down"] /\ UNCHANGED rpcWritten
  <2>1. Len(rpcOut) = 1 /\ rpcServer.step = "closed"
    BY <1>2, <1>3, <1>6 DEF CloseIsLast
  <2>2. rest = <<>>
    <3>1. rest \in Seq(RpcLines) /\ Len(rest) = 0
      BY <1>3, <2>1
    <3>2. rest # <<>> => Len(rest) \in Nat \ {0}
      BY <3>1, EmptySeq, Zenon
    <3>3. Len(rest) \notin Nat \ {0}
      BY <3>1
    <3> QED
      BY <3>2, <3>3
  <2>3. rpcOut' = <<>>
    BY <1>1, <2>2
  <2>4. Said' = rpcWritten /\ Said = Append(rpcWritten, line)
    <3>1. Said' = rpcWritten \o <<>> /\ rpcWritten \o <<>> = rpcWritten
      BY <1>2, <1>6, <2>3 DEF Said
    <3>2. rpcOut = <<line>>
      <4>1. <<line>> \o <<>> = <<line>>
        BY <1>4
      <4> QED
        BY <1>4, <2>2, <4>1
    <3>3. Said = rpcWritten \o <<line>>
      BY <3>2 DEF Said
    <3> QED
      BY <1>2, <1>3, <3>1, <3>3, AppendFacts
  <2>5. /\ rpcServer' \in RpcServers /\ rpcServer'.step = "down" /\ rpcServer'.prompt = rpcServer.prompt
    BY <1>6, RpcParts DEF RpcServers
  <2>6. SaidFor(Append(rpcWritten, line), rpcRead \ {rpcServer.prompt})
    BY <2>4, RpcParts DEF PromptIsRead
  <2>7. /\ Len(Append(rpcWritten, line)) = Len(rpcWritten) + 1 /\ Len(rpcWritten) \in Nat
        /\ \A i \in 1 .. Len(rpcWritten) : Append(rpcWritten, line)[i] = rpcWritten[i]
        /\ Append(rpcWritten, line)[Len(rpcWritten) + 1] = line
    BY <1>2, <1>3, AppendFacts
  <2> DEFINE whole == Append(rpcWritten, line)
  <2>8. /\ Len(whole) = Len(rpcWritten) + 1 /\ Len(rpcWritten) \in Nat
        /\ \A i \in 1 .. Len(rpcWritten) : whole[i] = rpcWritten[i]
        /\ whole[Len(rpcWritten) + 1] = line /\ SaidFor(whole, rpcRead \ {rpcServer.prompt})
    BY <2>6, <2>7
  <2> HIDE DEF whole
  <2>9. SaidFor(rpcWritten, rpcRead \ {rpcServer.prompt})
    <3>1. AnswersAll(whole, rpcRead \ {rpcServer.prompt}) /\ AnswersOnce(whole)
      BY <2>8 DEF SaidFor
    <3>2. \A i \in 1 .. Len(rpcWritten) : i \in 1 .. Len(whole) /\ whole[i] = rpcWritten[i]
      BY <2>8
    <3>3. \A i \in 1 .. Len(whole) : i \in 1 .. Len(rpcWritten) \/ whole[i] = line
      BY <2>8
    <3>4. \A n : line # Line("reply", n)
      BY <1>6 DEF Line
    <3>5. AnswersAll(rpcWritten, rpcRead \ {rpcServer.prompt})
      BY <3>1, <3>2, <3>3, <3>4 DEF AnswersAll
    <3>6. AnswersOnce(rpcWritten)
      BY <3>1, <3>2, SMTT(30) DEF AnswersOnce
    <3> QED
      BY <1>2, <3>5, <3>6 DEF SaidFor
  <2>10. RpcTyped' /\ ReadInOrder'
    BY <1>1, <1>3, <1>6, <2>5, RpcParts DEF RpcTyped, ReadInOrder, ReadOnce
  <2>11. PromptIsRead'
    BY <1>1, <2>4, <2>5, <2>9, RpcParts DEF PromptIsRead
  <2>12. ShutdownIsLast'
    BY <1>1, <2>5, RpcParts DEF ShutdownIsLast
  <2>13. CloseIsLast'
    <3>1. Len(rpcOut') = 0
      BY <2>3
    <3> QED
      BY <2>3, <2>5, <3>1 DEF CloseIsLast
  <2> QED
    BY <2>10, <2>11, <2>12, <2>13 DEF RpcInv
<1>7. CASE line.kind # "close" /\ rpcWritten' = Append(rpcWritten, line) /\ UNCHANGED rpcServer
  <2>1. rpcWritten' \in Seq(RpcLines) /\ rpcWritten' = rpcWritten \o <<line>>
    BY <1>2, <1>3, <1>7, AppendFacts
  <2>2. Said' = Said
    BY <1>1, <1>5, <2>1 DEF Said
  <2>3. RpcTyped' /\ ReadInOrder'
    BY <1>1, <1>3, <1>7, <2>1, RpcParts DEF RpcTyped, ReadInOrder, ReadOnce
  <2>4. PromptIsRead'
    BY <1>1, <1>7, <2>2, RpcParts DEF PromptIsRead
  <2>5. ShutdownIsLast'
    BY <1>1, <1>7, RpcParts DEF ShutdownIsLast
  <2>6. CloseIsLast'
    <3>1. ASSUME NEW i \in 1 .. Len(rest), rest[i].kind = "close"
          PROVE  i = Len(rest) /\ rpcServer.step = "closed"
      <4>1. i + 1 \in 1 .. Len(rpcOut) /\ rest[i] = rpcOut[i + 1]
        BY <1>3
      <4>2. rpcOut[i + 1].kind = "close"
        BY <3>1, <4>1
      <4>3. \A k \in 1 .. Len(rpcOut) : rpcOut[k].kind = "close" => k = Len(rpcOut) /\ rpcServer.step = "closed"
        BY <1>2 DEF CloseIsLast
      <4>4. i + 1 = Len(rpcOut) /\ rpcServer.step = "closed"
        BY <4>1, <4>2, <4>3, Zenon
      <4> QED
        BY <1>3, <4>4
    <3>2. rpcServer.step # "down"
      BY <1>1, <1>2 DEF CloseIsLast
    <3>3. rpcServer.step = "closed" => rest # <<>> /\ rest[Len(rest)].kind = "close"
      <4>1. SUFFICES ASSUME rpcServer.step = "closed" PROVE rest # <<>> /\ rest[Len(rest)].kind = "close"
        OBVIOUS
      <4>2. rpcOut[Len(rpcOut)].kind = "close"
        BY <1>2, <4>1 DEF CloseIsLast
      <4>3. Len(rpcOut) # 1
        BY <1>3, <1>7, <4>2
      <4>4. Len(rest) \in 1 .. Len(rest) /\ Len(rest) + 1 = Len(rpcOut)
        BY <1>3, <4>3
      <4>5. rest[Len(rest)] = rpcOut[Len(rest) + 1]
        BY <1>3, <4>4
      <4>6. rest[Len(rest)].kind = "close"
        BY <4>2, <4>4, <4>5
      <4> QED
        BY <1>3, <4>4, <4>6
    <3> QED
      BY <1>1, <1>7, <3>1, <3>2, <3>3 DEF CloseIsLast
  <2> QED
    BY <2>3, <2>4, <2>5, <2>6 DEF RpcInv
<1> QED
  BY <1>6, <1>7 DEF Writes, line

LEMMA RpcStep == RpcInv /\ [RpcNext]_rpcVars => RpcInv'
<1> SUFFICES ASSUME RpcInv, [RpcNext]_rpcVars PROVE RpcInv'
  OBVIOUS
<1>1. CASE InputEnds \/ InputFails \/ RunDrains \/ RunReturns
  <2>1. UNCHANGED <<rpcInput, rpcOut, rpcWritten, rpcRead>> /\ rpcServer.step \in {"idle", "running"}
    BY <1>1 DEF InputEnds, InputFails, RunDrains, RunReturns
  <2>2. rpcServer \in RpcServers /\ 0 \in 0 .. RpcCapacity
    BY RpcParts
  <2>3. /\ rpcServer' \in RpcServers /\ rpcServer'.prompt = rpcServer.prompt
        /\ rpcServer'.step \in {"running", "saving", "closing"}
        /\ rpcServer'.step # "closing" => rpcServer.step = "running" /\ rpcServer'.stopping = rpcServer.stopping
    <3>1. CASE InputEnds
      BY <2>2, <3>1 DEF InputEnds, RpcServers
    <3>2. CASE InputFails
      BY <2>2, <3>2 DEF InputFails, RpcServers
    <3>3. CASE RunReturns
      BY <2>2, <3>3 DEF RunReturns, RpcServers
    <3>4. CASE RunDrains
      <4>1. PICK open \in BOOLEAN :
              rpcServer' = [rpcServer EXCEPT !.steered = 0, !.steerOpen = open]
        BY <3>4 DEF RunDrains
      <4> QED
        BY <2>2, <3>4, <4>1 DEF RunDrains, RpcServers
    <3> QED
      BY <1>1, <3>1, <3>2, <3>3, <3>4
  <2> QED
    BY <2>1, <2>3, RpcServerMoves
<1>2. CASE UNCHANGED rpcVars
  BY <1>2, RpcParts
  DEF rpcVars, RpcInv, RpcTyped, ReadInOrder, ReadOnce, PromptIsRead, Said, ShutdownIsLast, CloseIsLast
<1> QED
  BY <1>1, <1>2, RpcClientSends, RpcServesIdle, RpcHandlesActive, RpcEmits, RpcReplies,
     RpcCloses,
     RpcWrites
  DEF RpcNext

(* How many answers a request has: as many as the places where one stands. *)
LEMMA RpcRepliesAre ==
  ASSUME RpcInv, NEW request \in rpcRead
  PROVE  RepliesTo(request.number) = IF request = rpcServer.prompt THEN 0 ELSE Len(Answers(request))
<1> DEFINE answer == Line("reply", request.number)
           places == {i \in DOMAIN Said : Said[i] = answer}
<1>1. /\ Said \in Seq(RpcLines) /\ AnswersAll(Said, rpcRead \ {rpcServer.prompt}) /\ AnswersOnce(Said)
      /\ ReadOnce /\ request \in Requests
  BY RpcParts DEF PromptIsRead, SaidFor, ReadInOrder
<1>2. DOMAIN Said = 1 .. Len(Said)
  BY <1>1
<1>3. answer.kind = "reply" /\ answer.number = request.number
  BY DEF Line
<1>4. answer = Line("reply", request.number) /\ RepliesTo(request.number) = Cardinality(places)
  BY DEF RepliesTo
<1> HIDE DEF answer
<1>5. CASE request # rpcServer.prompt /\ IsOwed(request)
  <2>1. PICK i \in 1 .. Len(Said) : Said[i] = answer
    BY <1>1, <1>4, <1>5 DEF AnswersAll
  <2>2. places = {i}
    BY <1>1, <1>2, <1>3, <2>1 DEF AnswersOnce
  <2>3. Cardinality({i}) = 1
    BY FS_Singleton
  <2>4. Len(Answers(request)) = 1
    BY <1>5 DEF Answers, IsOwed
  <2> QED
    BY <1>4, <1>5, <2>2, <2>3, <2>4
<1>6. CASE request = rpcServer.prompt \/ ~IsOwed(request)
  <2>1. places = {}
    BY <1>1, <1>2, <1>3, <1>6 DEF AnswersAll, ReadOnce
  <2>2. Cardinality({}) = 0
    BY FS_EmptySet
  <2>3. ~IsOwed(request) => Len(Answers(request)) = 0
    BY DEF Answers, IsOwed
  <2> QED
    BY <1>4, <1>6, <2>1, <2>2, <2>3
<1> QED
  BY <1>5, <1>6

LEMMA RpcHolds == RpcInv => RpcTypeOK /\ RpcOneAnswer
<1> SUFFICES ASSUME RpcInv PROVE RpcTypeOK /\ RpcOneAnswer
  OBVIOUS
<1>1. RpcTypeOK
  BY RpcParts DEF RpcTypeOK
<1>2. Said \in Seq(RpcLines) /\ AnswersOnce(Said) /\ DOMAIN Said = 1 .. Len(Said)
  BY RpcParts DEF PromptIsRead, SaidFor
<1>3. \A i, j \in DOMAIN Said :
        Said[i].kind = "reply" /\ Said[j].kind = "event" /\ i < j => Said[i].number # Said[j].number
  BY <1>2 DEF AnswersOnce
<1>4. \A first, later \in rpcRead : first.method = "shutdown" => later.number <= first.number
  BY RpcParts DEF ShutdownIsLast
<1>5. rpcServer.step = "down" => rpcOut = <<>>
  BY RpcParts DEF CloseIsLast
<1> QED
  BY <1>1, <1>3, <1>4, <1>5, RpcRepliesAre DEF RpcOneAnswer

-----------------------------------------------------------------------------

(* The MCP hub.                                                            *)
HubLines == [id : 0 .. MaxIds, method : BOOLEAN]
HubCalls ==
  [step : {"idle", "starting", "connected", "sent", "answered"}, listing : BOOLEAN,
   id : 0 .. MaxIds, got : HubLines]
HubClients == [process : 0 .. MaxProcesses, next : Nat \ {0}, broken : BOOLEAN]
HubPipes == [requests : SUBSET (1 .. MaxIds), torn : BOOLEAN, lines : Seq(HubLines)]
Holding == {"starting", "connected", "sent"}

HubTyped ==
  /\ mcpLock \in McpCallers \union {Nobody} /\ mcpClient \in HubClients
  /\ mcpStarted \in 0 .. MaxProcesses /\ mcpPid \in 0 .. mcpStarted
  /\ mcpClient.process <= mcpStarted
  /\ mcpPipes \in HubPipes /\ mcpCalls \in [McpCallers -> HubCalls]
  /\ mcpCache \in {"unknown", "ready", "failed"}

(* Whoever holds the client is starting it or using it.                    *)
LockIsHeld == \A c \in McpCallers : mcpCalls[c].step \in Holding <=> mcpLock = c

AnswersAreOwn ==
  \A c \in McpCallers :
    mcpCalls[c].step = "answered" => mcpCalls[c].got = [id |-> mcpCalls[c].id, method |-> FALSE]

(* The only process that can be running is the client's, whose number the  *)
(* hub knows unless the client is being started; a shutdown leaves none but*)
(* one that is being started.                                              *)
OneProcess ==
  /\ mcpAlive \subseteq {mcpClient.process} /\ mcpAlive \subseteq 1 .. mcpStarted
  /\ mcpShut.left \subseteq mcpShut.starting
  /\ (\A c \in McpCallers : mcpCalls[c].step # "starting") => mcpAlive \subseteq {mcpPid}

HubInv == HubTyped /\ LockIsHeld /\ AnswersAreOwn /\ OneProcess

LEMMA HubParts ==
  ASSUME HubInv
  PROVE  /\ mcpLock \in McpCallers \union {Nobody} /\ mcpClient \in HubClients
         /\ mcpClient.process \in 0 .. mcpStarted /\ mcpClient.next \in Nat \ {0}
         /\ mcpStarted \in 0 .. MaxProcesses /\ mcpStarted \in Nat /\ mcpPid \in 0 .. mcpStarted
         /\ mcpPipes \in HubPipes /\ mcpPipes.requests \in SUBSET (1 .. MaxIds)
         /\ mcpPipes.torn \in BOOLEAN /\ mcpPipes.lines \in Seq(HubLines)
         /\ mcpCalls \in [McpCallers -> HubCalls]
         /\ mcpCache \in {"unknown", "ready", "failed"}
         /\ LockIsHeld /\ AnswersAreOwn /\ OneProcess
         /\ Nobody \notin McpCallers /\ MaxProcesses \in Nat /\ MaxIds \in Nat
BY HubAssumption DEF HubInv, HubTyped, HubClients, HubPipes

LEMMA NoCallTyped ==
  /\ NoCall \in HubCalls /\ NoCall.step = "idle"
  /\ \A listing \in BOOLEAN, step \in {"starting", "connected"} :
       /\ [NoCall EXCEPT !.step = step, !.listing = listing] \in HubCalls
       /\ [NoCall EXCEPT !.step = step, !.listing = listing].step = step
<1>1. [id |-> 0, method |-> FALSE] \in HubLines
  BY HubAssumption DEF HubLines
<1> DEFINE line == [id |-> 0, method |-> FALSE]
<1>2. NoCall = [step |-> "idle", listing |-> FALSE, id |-> 0, got |-> line]
  BY DEF NoCall
<1> HIDE DEF line
<1>3. line \in HubLines
  BY <1>1 DEF line
<1>4. NoCall \in HubCalls /\ NoCall.step = "idle"
  BY <1>2, <1>3, HubAssumption DEF HubCalls
<1> QED
  BY <1>4 DEF HubCalls

LEMMA HubInitInv == McpInit => HubInv
<1> SUFFICES ASSUME McpInit PROVE HubInv
  OBVIOUS
<1>0. <<>> \in Seq(HubLines)
  OBVIOUS
<1>1. NoClient \in HubClients /\ NoClient.process = 0
  BY HubAssumption DEF NoClient, HubClients
<1>2. mcpPipes \in HubPipes
  BY <1>0, HubAssumption DEF McpInit, HubPipes
<1>3. mcpCalls \in [McpCallers -> HubCalls] /\ \A c \in McpCallers : mcpCalls[c].step = "idle"
  BY NoCallTyped DEF McpInit
<1>4. HubTyped
  BY <1>1, <1>2, <1>3, HubAssumption DEF McpInit, HubTyped
<1>5. LockIsHeld /\ AnswersAreOwn
  BY <1>3, HubAssumption DEF McpInit, LockIsHeld, AnswersAreOwn, Holding
<1>6. OneProcess
  BY HubAssumption DEF McpInit, OneProcess
<1> QED
  BY <1>4, <1>5, <1>6 DEF HubInv

(* What one call does to the calls, and to the lock if it has it.          *)
LEMMA HubCallMoves ==
  ASSUME HubInv, NEW c \in McpCallers, NEW call \in HubCalls, McpCall(c, call),
         mcpLock \in {Nobody, c}, mcpLock' = IF call.step \in Holding THEN c ELSE Nobody,
         call.step = "answered" => call.got = [id |-> call.id, method |-> FALSE]
  PROVE  /\ mcpCalls' \in [McpCallers -> HubCalls] /\ mcpLock' \in McpCallers \union {Nobody}
         /\ LockIsHeld' /\ AnswersAreOwn'
         /\ mcpCalls'[c] = call
         /\ \A d \in McpCallers \ {c} : mcpCalls'[d] = mcpCalls[d] /\ mcpCalls[d].step # "starting"
<1>1. mcpCalls' = [mcpCalls EXCEPT ![c] = call] /\ mcpCalls \in [McpCallers -> HubCalls]
  BY HubParts DEF McpCall
<1>2. /\ mcpCalls' \in [McpCallers -> HubCalls] /\ mcpCalls'[c] = call
      /\ \A d \in McpCallers \ {c} : mcpCalls'[d] = mcpCalls[d]
  BY <1>1
<1>3. LockIsHeld /\ AnswersAreOwn /\ Nobody \notin McpCallers
  BY HubParts
<1>4. \A d \in McpCallers \ {c} : mcpCalls[d].step \notin Holding
  BY <1>3 DEF LockIsHeld
<1>5. LockIsHeld'
  BY <1>2, <1>3, <1>4 DEF LockIsHeld
<1>6. AnswersAreOwn'
  BY <1>2, <1>3 DEF AnswersAreOwn
<1>7. "starting" \in Holding
  BY DEF Holding
<1> QED
  BY <1>2, <1>4, <1>5, <1>6, <1>7

(* What holds of the processes when one call moves and nothing starts.     *)
LEMMA HubKeepsProcess ==
  ASSUME HubInv, mcpAlive' \subseteq mcpAlive, mcpClient'.process = mcpClient.process,
         UNCHANGED <<mcpStarted, mcpShut, mcpPid>>,
         \/ \E c \in McpCallers : mcpCalls'[c].step = "starting"
         \/ \A c \in McpCallers : mcpCalls[c].step # "starting"
  PROVE  OneProcess'
<1>1. OneProcess
  BY HubParts
<1> QED
  BY <1>1 DEF OneProcess

LEMMA HubConnects == HubInv /\ (\E c \in McpCallers : Connect(c)) => HubInv'
<1> SUFFICES ASSUME HubInv, NEW c \in McpCallers, Connect(c) PROVE HubInv'
  OBVIOUS
<1>1. /\ mcpLock = Nobody /\ mcpLock' = c /\ UNCHANGED <<mcpCache, mcpShut>>
      /\ mcpCalls[c].step = "idle"
  BY DEF Connect
<1>2. ASSUME NEW step \in {"starting", "connected"}, Uses(c, step)
      PROVE  /\ mcpCalls' \in [McpCallers -> HubCalls] /\ mcpLock' \in McpCallers \union {Nobody}
             /\ LockIsHeld' /\ AnswersAreOwn' /\ mcpCalls'[c].step = step
             /\ \A d \in McpCallers : mcpCalls[d].step # "starting"
  <2>1. PICK listing \in BOOLEAN :
          McpCall(c, [NoCall EXCEPT !.step = step, !.listing = listing])
    BY <1>2 DEF Uses
  <2> DEFINE call == [NoCall EXCEPT !.step = step, !.listing = listing]
  <2>2. call \in HubCalls /\ call.step = step /\ step \in Holding
    BY NoCallTyped DEF Holding
  <2>3. McpCall(c, call)
    BY <2>1
  <2> HIDE DEF call
  <2>4. call.step # "answered" /\ call.step \in Holding
    BY <2>2
  <2> QED
    BY <1>1, <2>2, <2>3, <2>4, HubCallMoves
<1>3. CASE /\ mcpStarted < MaxProcesses
           /\ mcpStarted' = mcpStarted + 1
           /\ mcpAlive' = (mcpAlive \ {mcpClient.process}) \union {mcpStarted'}
           /\ mcpPid' = 0
           /\ mcpClient' = [NoClient EXCEPT !.process = mcpStarted']
           /\ mcpPipes' = [requests |-> {}, torn |-> FALSE, lines |-> <<>>]
           /\ Uses(c, "starting")
  <2>1. /\ mcpStarted' \in 0 .. MaxProcesses /\ mcpStarted' \in Nat
        /\ mcpStarted' = mcpStarted + 1 /\ mcpPid' \in 0 .. mcpStarted'
    BY <1>3, HubParts
  <2>2. mcpClient' \in HubClients /\ mcpClient'.process = mcpStarted'
    <3>1. NoClient \in HubClients
      BY HubAssumption DEF NoClient, HubClients
    <3>2. mcpClient' = [NoClient EXCEPT !.process = mcpStarted']
      BY <1>3
    <3> QED
      BY <2>1, <3>1, <3>2 DEF HubClients
  <2>3. <<>> \in Seq(HubLines)
    OBVIOUS
  <2>4. mcpPipes' \in HubPipes
    BY <1>3, <2>3 DEF HubPipes
  <2>5. HubTyped'
    BY <1>1, <1>2, <1>3, <2>1, <2>2, <2>4, HubParts DEF HubTyped
  <2>6. mcpAlive \subseteq {mcpClient.process}
    BY HubParts DEF OneProcess
  <2>7. mcpAlive' = {mcpStarted'}
    BY <1>3, <2>6
  <2>8. mcpCalls'[c].step = "starting"
    BY <1>2, <1>3
  <2>9. OneProcess'
    BY <1>1, <2>1, <2>2, <2>6, <2>7, <2>8, HubParts DEF OneProcess
  <2> QED
    BY <1>2, <1>3, <2>5, <2>9 DEF HubInv
<1>4. CASE /\ Uses(c, "connected")
           /\ UNCHANGED <<mcpStarted, mcpAlive, mcpPid, mcpClient, mcpPipes>>
  <2>1. HubTyped'
    BY <1>1, <1>2, <1>4, HubParts DEF HubTyped
  <2>2. OneProcess'
    BY <1>1, <1>2, <1>4, HubKeepsProcess
  <2> QED
    BY <1>2, <1>4, <2>1, <2>2 DEF HubInv
<1> QED
  BY <1>3, <1>4 DEF Connect

LEMMA HubInitialized == HubInv /\ (\E c \in McpCallers : Initialized(c)) => HubInv'
<1> SUFFICES ASSUME HubInv, NEW c \in McpCallers, Initialized(c) PROVE HubInv'
  OBVIOUS
<1> DEFINE call == [mcpCalls[c] EXCEPT !.step = "connected"]
<1>1. /\ mcpLock = c /\ mcpCalls[c].step = "starting" /\ mcpPid' = mcpClient.process
      /\ mcpClient' = [mcpClient EXCEPT !.next = 2] /\ McpCall(c, call)
      /\ UNCHANGED <<mcpLock, mcpAlive, mcpStarted, mcpPipes, mcpCache, mcpShut>>
  BY DEF Initialized, McpAt
<1>2. call \in HubCalls /\ call.step = "connected"
  BY HubParts DEF HubCalls
<1> HIDE DEF call
<1>3. call.step # "answered" /\ call.step \in Holding
  BY <1>2 DEF Holding
<1>4. /\ mcpCalls' \in [McpCallers -> HubCalls] /\ LockIsHeld' /\ AnswersAreOwn'
  BY <1>1, <1>2, <1>3, HubCallMoves
<1>5. mcpClient' \in HubClients /\ mcpClient'.process = mcpClient.process
  BY <1>1, HubParts DEF HubClients
<1>6. HubTyped'
  BY <1>1, <1>4, <1>5, HubParts DEF HubTyped
<1>7. OneProcess'
  BY <1>1, <1>5, HubParts DEF OneProcess
<1> QED
  BY <1>4, <1>6, <1>7 DEF HubInv

LEMMA HubStartFails == HubInv /\ (\E c \in McpCallers : StartFails(c)) => HubInv'
<1> SUFFICES ASSUME HubInv, NEW c \in McpCallers, StartFails(c) PROVE HubInv'
  OBVIOUS
<1>1. /\ mcpLock = c /\ mcpAlive' = mcpAlive \ {mcpClient.process} /\ mcpClient' = NoClient
      /\ mcpLock' = Nobody /\ McpCall(c, NoCall)
      /\ UNCHANGED <<mcpPid, mcpStarted, mcpPipes, mcpShut>>
  BY DEF StartFails, McpAt, Kills
<1>2. mcpCache' \in {"unknown", "ready", "failed"}
  BY HubParts DEF StartFails, Caches
<1>3. NoCall.step # "answered" /\ NoCall.step \notin Holding /\ NoCall \in HubCalls
  BY NoCallTyped DEF Holding
<1>4. /\ mcpCalls' \in [McpCallers -> HubCalls] /\ LockIsHeld' /\ AnswersAreOwn'
  BY <1>1, <1>3, HubCallMoves
<1>5. NoClient \in HubClients /\ NoClient.process = 0
  BY HubAssumption DEF NoClient, HubClients
<1>6. mcpAlive' = {}
  BY <1>1, HubParts DEF OneProcess
<1>7. HubTyped'
  BY <1>1, <1>2, <1>4, <1>5, HubParts DEF HubTyped
<1>8. OneProcess'
  BY <1>1, <1>6, HubParts DEF OneProcess
<1> QED
  BY <1>4, <1>7, <1>8 DEF HubInv

LEMMA HubRequests == HubInv /\ (\E c \in McpCallers : Request(c)) => HubInv'
<1> SUFFICES ASSUME HubInv, NEW c \in McpCallers, Request(c) PROVE HubInv'
  OBVIOUS
<1> DEFINE call == [mcpCalls[c] EXCEPT !.step = "sent", !.id = mcpClient.next]
<1>1. /\ mcpLock = c /\ mcpCalls[c].step = "connected" /\ mcpClient.next <= MaxIds
      /\ mcpClient' = [mcpClient EXCEPT !.next = @ + 1] /\ McpCall(c, call)
      /\ UNCHANGED <<mcpLock, mcpPid, mcpAlive, mcpStarted, mcpCache, mcpShut>>
  BY DEF Request, McpAt
<1>2. mcpClient.next \in 1 .. MaxIds
  BY <1>1, HubParts
<1>3. call \in HubCalls /\ call.step = "sent"
  <2>1. mcpCalls[c] \in HubCalls /\ mcpClient.next \in 0 .. MaxIds
    BY <1>2, HubParts
  <2> QED
    BY <2>1 DEF HubCalls
<1> HIDE DEF call
<1>4. call.step # "answered" /\ call.step \in Holding
  BY <1>3 DEF Holding
<1>5. /\ mcpCalls' \in [McpCallers -> HubCalls] /\ LockIsHeld' /\ AnswersAreOwn'
      /\ \A d \in McpCallers : mcpCalls[d].step # "starting"
  BY <1>1, <1>3, <1>4, HubCallMoves
<1>6. mcpClient' \in HubClients /\ mcpClient'.process = mcpClient.process
  BY <1>1, HubParts DEF HubClients
<1>7. mcpPipes' \in HubPipes
  <2>1. mcpPipes' = [mcpPipes EXCEPT !.torn = FALSE]
        \/ mcpPipes' = [mcpPipes EXCEPT !.requests = @ \union {mcpClient.next}]
    BY DEF Request
  <2>2. mcpPipes.requests \union {mcpClient.next} \in SUBSET (1 .. MaxIds)
    BY <1>2, HubParts
  <2> QED
    BY <2>1, <2>2, HubParts DEF HubPipes
<1>8. HubTyped'
  BY <1>1, <1>5, <1>6, <1>7, HubParts DEF HubTyped
<1>9. OneProcess'
  BY <1>1, <1>5, <1>6, HubKeepsProcess
<1> QED
  BY <1>5, <1>8, <1>9 DEF HubInv

LEMMA HubReadsLine == HubInv /\ (\E c \in McpCallers : ReadLine(c)) => HubInv'
<1> SUFFICES ASSUME HubInv, NEW c \in McpCallers, ReadLine(c) PROVE HubInv'
  OBVIOUS
<1> DEFINE line == Head(mcpPipes.lines)
           call == [mcpCalls[c] EXCEPT !.step = "answered", !.got = line]
<1>1. /\ mcpLock = c /\ mcpCalls[c].step = "sent" /\ mcpPipes.lines # <<>>
      /\ mcpPipes' = [mcpPipes EXCEPT !.lines = Tail(@)]
      /\ UNCHANGED <<mcpClient, mcpPid, mcpAlive, mcpStarted, mcpShut>>
  BY DEF ReadLine, McpAt
<1>2. mcpPipes.lines \in Seq(HubLines)
  BY HubParts
<1>3. Tail(mcpPipes.lines) \in Seq(HubLines) /\ line \in HubLines
  BY <1>1, <1>2
<1>4. mcpPipes' \in HubPipes
  BY <1>1, <1>3, HubParts DEF HubPipes
<1>5. \A d \in McpCallers : mcpCalls[d].step # "starting"
  BY <1>1, HubParts DEF LockIsHeld, Holding
<1>6. OneProcess'
  BY <1>1, <1>5, HubKeepsProcess
<1>7. CASE /\ answers(line, mcpCalls[c].id)
           /\ McpCall(c, call) /\ mcpLock' = Nobody
           /\ Caches(c, "ready")
  <2>1. line = [id |-> mcpCalls[c].id, method |-> FALSE]
    BY <1>3, <1>7 DEF answers, HubLines
  <2>2. /\ call \in HubCalls /\ call.step = "answered"
        /\ call.got = line /\ call.id = mcpCalls[c].id
    BY <1>3, HubParts DEF HubCalls
  <2>3. mcpCache' \in {"unknown", "ready", "failed"}
    BY <1>7, HubParts DEF Caches
  <2> HIDE DEF call, line
  <2>4. call.step \notin Holding
    BY <2>2 DEF Holding
  <2>5. /\ mcpCalls' \in [McpCallers -> HubCalls] /\ mcpLock' \in McpCallers \union {Nobody}
        /\ LockIsHeld' /\ AnswersAreOwn'
    BY <1>1, <1>7, <2>1, <2>2, <2>4, HubCallMoves
  <2>6. HubTyped'
    BY <1>1, <1>4, <2>3, <2>5, HubParts DEF HubTyped
  <2> QED
    BY <1>6, <2>5, <2>6 DEF HubInv
<1>8. CASE UNCHANGED <<mcpCalls, mcpLock, mcpCache>>
  <2>1. HubTyped' /\ LockIsHeld' /\ AnswersAreOwn'
    BY <1>1, <1>4, <1>8, HubParts DEF HubTyped, LockIsHeld, AnswersAreOwn
  <2> QED
    BY <1>6, <2>1 DEF HubInv
<1> QED
  BY <1>7, <1>8 DEF ReadLine

LEMMA HubRequestFails ==
  HubInv /\ (\E c \in McpCallers : RequestFails(c) \/ CallDropped(c)) => HubInv'
<1> SUFFICES ASSUME HubInv, NEW c \in McpCallers, RequestFails(c) \/ CallDropped(c) PROVE HubInv'
  OBVIOUS
<1>1. /\ mcpLock = c /\ mcpCalls[c].step \in {"sent", "connected"}
      /\ mcpLock' = Nobody /\ McpCall(c, NoCall)
      /\ UNCHANGED <<mcpPid, mcpStarted, mcpShut>>
  BY DEF RequestFails, CallDropped, McpAt
<1>2. NoCall.step # "answered" /\ NoCall.step \notin Holding /\ NoCall \in HubCalls
  BY NoCallTyped DEF Holding
<1>3. /\ mcpCalls' \in [McpCallers -> HubCalls] /\ LockIsHeld' /\ AnswersAreOwn'
      /\ \A d \in McpCallers : mcpCalls[d].step # "starting"
  BY <1>1, <1>2, HubCallMoves
<1>4. /\ mcpCache' \in {"unknown", "ready", "failed"} /\ mcpAlive' \subseteq mcpAlive
      /\ mcpClient' \in HubClients /\ mcpClient'.process = mcpClient.process
  <2>1. CASE RequestFails(c)
    BY <2>1, HubParts DEF RequestFails, Caches, Kills, HubClients
  <2>2. CASE CallDropped(c)
    BY <2>2, HubParts DEF CallDropped
  <2> QED
    BY <2>1, <2>2
<1>5. mcpPipes' \in HubPipes
  <2>1. CASE mcpPipes' = mcpPipes
    BY <2>1, HubParts
  <2>2. CASE mcpPipes' = [mcpPipes EXCEPT !.torn = TRUE]
    BY <2>2, HubParts DEF HubPipes
  <2>3. CASE mcpPipes.lines # <<>> /\ mcpPipes' = [mcpPipes EXCEPT !.lines = Tail(@)]
    <3>1. mcpPipes.lines \in Seq(HubLines)
      BY HubParts
    <3>2. Tail(mcpPipes.lines) \in Seq(HubLines)
      BY <2>3, <3>1
    <3> QED
      BY <2>3, <3>2, HubParts DEF HubPipes
  <2> QED
    BY <2>1, <2>2, <2>3 DEF RequestFails, CallDropped
<1>6. HubTyped'
  BY <1>1, <1>3, <1>4, <1>5, HubParts DEF HubTyped
<1>7. OneProcess'
  BY <1>1, <1>3, <1>4, HubKeepsProcess
<1> QED
  BY <1>3, <1>6, <1>7 DEF HubInv

LEMMA HubReturns == HubInv /\ (\E c \in McpCallers : McpReturns(c)) => HubInv'
<1> SUFFICES ASSUME HubInv, NEW c \in McpCallers, McpReturns(c) PROVE HubInv'
  OBVIOUS
<1>1. /\ mcpCalls[c].step = "answered" /\ mcpCalls' = [mcpCalls EXCEPT ![c] = NoCall]
      /\ UNCHANGED <<mcpLock, mcpClient, mcpPid, mcpAlive, mcpStarted, mcpPipes, mcpCache, mcpShut>>
  BY DEF McpReturns, McpCall
<1>2. /\ mcpCalls' \in [McpCallers -> HubCalls] /\ mcpCalls'[c].step = "idle"
      /\ \A d \in McpCallers \ {c} : mcpCalls'[d] = mcpCalls[d]
  BY <1>1, NoCallTyped, HubParts
<1>3. HubTyped' /\ LockIsHeld' /\ AnswersAreOwn'
  BY <1>1, <1>2, HubParts DEF HubTyped, LockIsHeld, AnswersAreOwn, Holding
<1>4. OneProcess'
  BY <1>1, <1>2, HubParts DEF OneProcess
<1> QED
  BY <1>3, <1>4 DEF HubInv

LEMMA HubShutdown == HubInv /\ Shutdown => HubInv'
<1> SUFFICES ASSUME HubInv, Shutdown PROVE HubInv'
  OBVIOUS
<1>1. mcpPid' = 0 /\ UNCHANGED <<mcpLock, mcpStarted, mcpPipes, mcpCalls, mcpCache>>
  BY DEF Shutdown
<1>2. OneProcess /\ LockIsHeld /\ mcpStarted \in Nat
  BY HubParts
<1>3. /\ mcpClient' \in HubClients /\ mcpClient'.process \in 0 .. mcpStarted
      /\ mcpClient' = mcpClient \/ mcpAlive' = {}
  <2>1. NoClient \in HubClients /\ NoClient.process = 0
    BY HubAssumption DEF NoClient, HubClients
  <2> QED
    BY <1>2, <2>1, HubParts DEF Shutdown, Kills, OneProcess
<1>4. HubTyped' /\ LockIsHeld' /\ AnswersAreOwn'
  BY <1>1, <1>3, HubParts DEF HubTyped, LockIsHeld, AnswersAreOwn
<1>5. /\ mcpAlive' \subseteq mcpAlive /\ mcpShut'.left = mcpAlive'
      /\ mcpShut'.starting = IF Starting THEN mcpAlive ELSE {}
  BY DEF Shutdown, Kills
<1>6. mcpAlive' = {} \/ (mcpLock \in McpCallers /\ mcpCalls[mcpLock].step = "starting" /\ Starting)
  <2>1. CASE mcpLock = Nobody
    BY <1>2, <2>1 DEF Shutdown, Kills, OneProcess
  <2>2. CASE mcpLock \in McpCallers /\ mcpCalls[mcpLock].step = "starting"
    BY <2>2, HubParts DEF Starting
  <2>3. CASE mcpLock \in McpCallers /\ mcpCalls[mcpLock].step # "starting"
    <3>1. \A d \in McpCallers : mcpCalls[d].step # "starting"
      BY <1>2, <2>3 DEF LockIsHeld, Holding
    <3>2. mcpAlive \subseteq {mcpPid}
      BY <1>2, <3>1 DEF OneProcess
    <3> QED
      BY <2>3, <3>2, HubParts DEF Shutdown, Kills
  <2> QED
    BY <2>1, <2>2, <2>3, HubParts
<1>7. OneProcess'
  BY <1>1, <1>2, <1>3, <1>5, <1>6 DEF OneProcess
<1> QED
  BY <1>4, <1>7 DEF HubInv

LEMMA HubServer == HubInv /\ (ServerWrites \/ ServerExits) => HubInv'
<1> SUFFICES ASSUME HubInv, ServerWrites \/ ServerExits PROVE HubInv'
  OBVIOUS
<1>1. /\ mcpAlive' \subseteq mcpAlive
      /\ UNCHANGED <<mcpLock, mcpClient, mcpPid, mcpStarted, mcpCalls, mcpCache, mcpShut>>
  BY DEF ServerWrites, ServerExits, Kills
<1>2. mcpPipes' \in HubPipes
  <2>1. CASE UNCHANGED mcpPipes
    BY <2>1, HubParts
  <2>2. ASSUME NEW id \in 1 .. MaxIds, NEW method \in BOOLEAN
        PROVE  Append(mcpPipes.lines, [id |-> id, method |-> method]) \in Seq(HubLines)
    <3>1. [id |-> id, method |-> method] \in HubLines /\ mcpPipes.lines \in Seq(HubLines)
      BY HubParts DEF HubLines
    <3> QED
      BY <3>1
  <2>3. ASSUME NEW id \in mcpPipes.requests,
               mcpPipes' = [mcpPipes EXCEPT !.requests = @ \ {id},
                                            !.lines = Append(@, [id |-> id, method |-> FALSE])]
        PROVE  mcpPipes' \in HubPipes
    <3>1. id \in 1 .. MaxIds
      BY HubParts
    <3>2. Append(mcpPipes.lines, [id |-> id, method |-> FALSE]) \in Seq(HubLines)
      BY <2>2, <3>1
    <3> QED
      BY <2>3, <3>2, HubParts DEF HubPipes
  <2>4. ASSUME NEW id \in 1 .. MaxIds,
               mcpPipes' = [mcpPipes EXCEPT !.lines = Append(@, [id |-> id, method |-> TRUE])]
        PROVE  mcpPipes' \in HubPipes
    <3>2. Append(mcpPipes.lines, [id |-> id, method |-> TRUE]) \in Seq(HubLines)
      BY <2>2
    <3> QED
      BY <2>4, <3>2, HubParts DEF HubPipes
  <2> QED
    BY <2>1, <2>3, <2>4 DEF ServerWrites, ServerExits
<1>3. HubTyped' /\ LockIsHeld' /\ AnswersAreOwn'
  BY <1>1, <1>2, HubParts DEF HubTyped, LockIsHeld, AnswersAreOwn
<1>4. OneProcess'
  BY <1>1, HubParts DEF OneProcess
<1> QED
  BY <1>3, <1>4 DEF HubInv

LEMMA HubStep == HubInv /\ [McpNext]_mcpVars => HubInv'
<1> SUFFICES ASSUME HubInv, [McpNext]_mcpVars PROVE HubInv'
  OBVIOUS
<1>1. CASE UNCHANGED mcpVars
  BY <1>1, HubParts
  DEF mcpVars, HubInv, HubTyped, LockIsHeld, AnswersAreOwn, OneProcess
<1> QED
  BY <1>1, HubConnects, HubInitialized, HubStartFails, HubRequests, HubReadsLine,
     HubRequestFails, HubReturns, HubShutdown, HubServer
  DEF McpNext

LEMMA HubHolds == HubInv => McpTypeOK /\ McpExchanges
<1> SUFFICES ASSUME HubInv PROVE McpTypeOK /\ McpExchanges
  OBVIOUS
<1>1. McpTypeOK
  BY HubParts DEF McpTypeOK, OneProcess, HubCalls
<1>2. ~Starting => mcpAlive \subseteq {mcpPid}
  <2>1. ASSUME NEW c \in McpCallers, mcpCalls[c].step = "starting" PROVE Starting
    <3>1. mcpLock = c
      BY <2>1, HubParts DEF LockIsHeld, Holding
    <3> QED
      BY <2>1, <3>1, HubParts DEF Starting
  <2> QED
    BY <2>1, HubParts DEF OneProcess
<1> QED
  BY <1>1, <1>2, HubParts DEF McpExchanges, AnswersAreOwn, OneProcess

-----------------------------------------------------------------------------

(* The SSE transport.                                                      *)
SseCalls ==
  [step : {"none", "checked", "posting", "waiting", "answered", "failed"}, id : 0 .. MaxCalls,
   got : 0 .. MaxCalls, late : BOOLEAN]
SseLines == [id : 1 .. MaxCalls, method : BOOLEAN]
OnItsWay == sseCall.step \in {"posting", "waiting"}

SseTyped ==
  /\ sseWaiting \subseteq 1 .. MaxCalls /\ sseOwed \subseteq 1 .. MaxCalls
  /\ ssePump \in {"reads", "cleared", "over"}
  /\ sseCall \in SseCalls /\ sseNext \in 1 .. MaxCalls + 1
  /\ sseStream \in Seq(SseLines)

(* Ids are used once, and what a call got is its own.                      *)
IdsAreOwn ==
  /\ sseCall.id < sseNext /\ \A id \in sseWaiting : id < sseNext
  /\ sseCall.step = "checked" => sseNext <= MaxCalls
  /\ OnItsWay => sseCall.id # 0
  /\ sseCall.got \in {0, sseCall.id}
  /\ sseCall.got # 0 => sseCall.id \notin sseWaiting
  /\ sseCall.step = "waiting" => sseCall.got = 0
  /\ sseCall.step = "answered" => sseCall.got = sseCall.id

(* The table: a call under way is in it while the stream is read and it    *)
(* has no answer, and not any more once the table was cleared.             *)
TableIsTrue ==
  /\ OnItsWay /\ sseCall.got = 0 /\ ssePump = "reads" => sseCall.id \in sseWaiting
  /\ OnItsWay /\ ssePump # "reads" /\ ~sseCall.late => sseCall.id \notin sseWaiting
  /\ \A id \in sseWaiting : id \in sseDropped \/ (id = sseCall.id /\ OnItsWay)

SseInv == SseTyped /\ IdsAreOwn /\ TableIsTrue

LEMMA SseParts ==
  ASSUME SseInv
  PROVE  /\ sseWaiting \subseteq 1 .. MaxCalls /\ sseOwed \subseteq 1 .. MaxCalls
         /\ ssePump \in {"reads", "cleared", "over"}
         /\ sseCall \in SseCalls /\ sseNext \in 1 .. MaxCalls + 1 /\ sseNext \in Nat
         /\ sseStream \in Seq(SseLines) /\ MaxCalls \in Nat
         /\ sseCall.step \in {"none", "checked", "posting", "waiting", "answered", "failed"}
         /\ sseCall.id \in 0 .. MaxCalls /\ sseCall.got \in 0 .. MaxCalls
         /\ sseCall.late \in BOOLEAN
         /\ IdsAreOwn /\ TableIsTrue
BY SseCallsAssumption DEF SseInv, SseTyped, SseCalls

LEMMA SseInitInv == SseInit => SseInv
<1> SUFFICES ASSUME SseInit PROVE SseInv
  OBVIOUS
<1>1. sseStream \in Seq(SseLines)
  BY DEF SseInit
<1> QED
  BY <1>1, SseCallsAssumption
  DEF SseInit, SseInv, SseTyped, IdsAreOwn, TableIsTrue, OnItsWay, SseCalls, NoSseCall

(* A step that touches neither the call nor the table.                     *)
LEMMA SseApart ==
  ASSUME SseInv, UNCHANGED <<sseWaiting, ssePump, sseCall, sseNext, sseDropped>>,
         sseOwed' \subseteq 1 .. MaxCalls, sseStream' \in Seq(SseLines)
  PROVE  SseInv'
BY SseParts DEF SseInv, SseTyped, IdsAreOwn, TableIsTrue, OnItsWay

LEMMA SseChecks == SseInv /\ Checks => SseInv'
<1> SUFFICES ASSUME SseInv, Checks PROVE SseInv'
  OBVIOUS
<1>1. /\ ~OnItsWay /\ sseNext <= MaxCalls /\ sseCall' = [NoSseCall EXCEPT !.step = "checked"]
      /\ UNCHANGED <<sseWaiting, ssePump, sseNext, sseStream, sseDropped, sseOwed>>
  BY DEF Checks, OnItsWay
<1>2. /\ sseCall' \in SseCalls /\ sseCall'.step = "checked" /\ sseCall'.id = 0 /\ sseCall'.got = 0
  <2>1. /\ NoSseCall \in SseCalls /\ NoSseCall.id = 0 /\ NoSseCall.got = 0
    BY SseCallsAssumption DEF SseCalls, NoSseCall
  <2> QED
    BY <1>1, <2>1 DEF SseCalls
<1>3. SseTyped'
  BY <1>1, <1>2, SseParts DEF SseTyped
<1>4. IdsAreOwn' /\ TableIsTrue'
  BY <1>1, <1>2, SseParts DEF IdsAreOwn, TableIsTrue, OnItsWay
<1> QED
  BY <1>3, <1>4 DEF SseInv

LEMMA SseRegisters == SseInv /\ Registers => SseInv'
<1> SUFFICES ASSUME SseInv, Registers PROVE SseInv'
  OBVIOUS
<1>1. /\ ~OnItsWay /\ sseNext <= MaxCalls
      /\ sseNext' = sseNext + 1 /\ sseWaiting' = sseWaiting \union {sseNext}
      /\ UNCHANGED <<ssePump, sseStream, sseDropped, sseOwed>>
  BY SseParts DEF Registers, OnItsWay, IdsAreOwn
<1>2. /\ sseCall' = [step |-> "posting", id |-> sseNext, got |-> 0, late |-> ssePump # "reads"]
      /\ (ssePump # "reads") \in BOOLEAN
  BY DEF Registers, NoSseCall
<1>3. /\ sseCall'.step = "posting" /\ sseCall'.id = sseNext /\ sseCall'.got = 0
      /\ sseCall'.late <=> ssePump # "reads"
  BY <1>2
<1>4. sseCall' \in SseCalls
  BY <1>1, <1>2, SseParts DEF SseCalls
<1>5. SseTyped'
  BY <1>1, <1>4, SseParts DEF SseTyped
<1>6. IdsAreOwn'
  BY <1>1, <1>3, SseParts DEF IdsAreOwn, OnItsWay
<1>7. TableIsTrue'
  BY <1>1, <1>3, SseParts DEF TableIsTrue, OnItsWay
<1> QED
  BY <1>5, <1>6, <1>7 DEF SseInv

LEMMA SsePosted == SseInv /\ Posted => SseInv'
<1> SUFFICES ASSUME SseInv, Posted PROVE SseInv'
  OBVIOUS
<1> DEFINE step == IF sseCall.got = 0 THEN "waiting" ELSE "answered"
<1>1. /\ sseCall.step = "posting" /\ sseCall' = [sseCall EXCEPT !.step = step]
      /\ UNCHANGED <<sseWaiting, ssePump, sseNext, sseStream, sseDropped, sseOwed>>
  BY DEF Posted
<1>2. /\ sseCall' \in SseCalls /\ sseCall'.step = step /\ sseCall'.id = sseCall.id
      /\ sseCall'.got = sseCall.got /\ sseCall'.late = sseCall.late
  BY <1>1, SseParts DEF SseCalls
<1>3. SseTyped'
  BY <1>1, <1>2, SseParts DEF SseTyped
<1>4. IdsAreOwn' /\ TableIsTrue'
  BY <1>1, <1>2, SseParts DEF IdsAreOwn, TableIsTrue, OnItsWay
<1> QED
  BY <1>3, <1>4 DEF SseInv

LEMMA SseCallFails == SseInv /\ CallFails => SseInv'
<1> SUFFICES ASSUME SseInv, CallFails PROVE SseInv'
  OBVIOUS
<1>1. /\ OnItsWay /\ sseCall' = [sseCall EXCEPT !.step = "failed"]
      /\ sseWaiting' = sseWaiting \ {sseCall.id}
      /\ UNCHANGED <<ssePump, sseNext, sseStream, sseDropped, sseOwed>>
  BY DEF CallFails, OnItsWay
<1>2. /\ sseCall' \in SseCalls /\ sseCall'.step = "failed" /\ sseCall'.id = sseCall.id
      /\ sseCall'.got = sseCall.got /\ sseCall'.late = sseCall.late
  BY <1>1, SseParts DEF SseCalls
<1>3. SseTyped'
  BY <1>1, <1>2, SseParts DEF SseTyped
<1>4. IdsAreOwn' /\ TableIsTrue'
  BY <1>1, <1>2, SseParts DEF IdsAreOwn, TableIsTrue, OnItsWay
<1> QED
  BY <1>3, <1>4 DEF SseInv

LEMMA SseCallTimesOut == SseInv /\ CallTimesOut => SseInv'
<1> SUFFICES ASSUME SseInv, CallTimesOut PROVE SseInv'
  OBVIOUS
<1>1. /\ OnItsWay /\ sseCall' = [sseCall EXCEPT !.step = "failed"]
      /\ sseDropped' = sseDropped \union {sseCall.id} /\ ssePump' = "over"
      /\ UNCHANGED <<sseWaiting, sseNext, sseStream, sseOwed>>
  BY DEF CallTimesOut, OnItsWay
<1>2. /\ sseCall' \in SseCalls /\ sseCall'.step = "failed" /\ sseCall'.id = sseCall.id
      /\ sseCall'.got = sseCall.got /\ sseCall'.late = sseCall.late
  BY <1>1, SseParts DEF SseCalls
<1>3. SseTyped'
  BY <1>1, <1>2, SseParts DEF SseTyped
<1>4. IdsAreOwn' /\ TableIsTrue'
  BY <1>1, <1>2, SseParts DEF IdsAreOwn, TableIsTrue, OnItsWay
<1> QED
  BY <1>3, <1>4 DEF SseInv

LEMMA SseCallDropped == SseInv /\ SseDropped => SseInv'
<1> SUFFICES ASSUME SseInv, SseDropped PROVE SseInv'
  OBVIOUS
<1>1. /\ OnItsWay /\ sseCall' = NoSseCall /\ sseDropped' = sseDropped \union {sseCall.id}
      /\ UNCHANGED <<sseWaiting, ssePump, sseNext, sseStream, sseOwed>>
  BY DEF SseDropped, OnItsWay
<1>2. /\ sseCall' \in SseCalls /\ sseCall'.step = "none" /\ sseCall'.id = 0 /\ sseCall'.got = 0
  BY <1>1, SseParts DEF SseCalls, NoSseCall
<1>3. SseTyped'
  BY <1>1, <1>2, SseParts DEF SseTyped
<1>4. IdsAreOwn' /\ TableIsTrue'
  BY <1>1, <1>2, SseParts DEF IdsAreOwn, TableIsTrue, OnItsWay
<1> QED
  BY <1>3, <1>4 DEF SseInv

LEMMA SsePumpReads == SseInv /\ PumpReads => SseInv'
<1> SUFFICES ASSUME SseInv, PumpReads PROVE SseInv'
  OBVIOUS
<1> DEFINE lines == Head(sseStream)
<1>1. /\ ssePump = "reads" /\ sseStream # <<>> /\ sseStream' = Tail(sseStream)
      /\ UNCHANGED <<ssePump, sseNext, sseDropped, sseOwed>>
  BY DEF PumpReads
<1>2. sseStream' \in Seq(SseLines) /\ lines.id \in 1 .. MaxCalls
  <2>1. sseStream \in Seq(SseLines)
    BY SseParts
  <2>2. Tail(sseStream) \in Seq(SseLines) /\ lines \in SseLines
    BY <1>1, <2>1
  <2> QED
    BY <1>1, <2>2 DEF SseLines
<1>3. CASE UNCHANGED <<sseWaiting, sseCall>>
  <2>1. sseOwed' \subseteq 1 .. MaxCalls
    BY <1>1, SseParts
  <2> QED
    BY <1>1, <1>2, <1>3, <2>1, SseApart
<1>4. CASE /\ lines.id \in sseWaiting
           /\ sseWaiting' = sseWaiting \ {lines.id}
           /\ sseCall' = IF lines.id # sseCall.id \/ ~OnItsWay
                         THEN sseCall
                         ELSE [sseCall EXCEPT !.got = lines.id, !.step =
                                 IF sseCall.step = "waiting" THEN "answered" ELSE "posting"]
  <2>1. CASE lines.id # sseCall.id \/ ~OnItsWay
    <3>1. sseCall' = sseCall
      BY <1>4, <2>1
    <3>2. SseTyped'
      BY <1>1, <1>2, <1>4, <3>1, SseParts DEF SseTyped
    <3>3. IdsAreOwn' /\ TableIsTrue'
      BY <1>1, <1>4, <2>1, <3>1, SseParts DEF IdsAreOwn, TableIsTrue, OnItsWay
    <3> QED
      BY <3>2, <3>3 DEF SseInv
  <2>2. CASE lines.id = sseCall.id /\ OnItsWay
    <3> DEFINE step == IF sseCall.step = "waiting" THEN "answered" ELSE "posting"
    <3>0. sseCall' = [sseCall EXCEPT !.got = lines.id, !.step = step]
      BY <1>4, <2>2
    <3>1. /\ sseCall' \in SseCalls /\ sseCall'.step = step /\ sseCall'.id = sseCall.id
          /\ sseCall'.got = sseCall.id /\ sseCall'.late = sseCall.late
      BY <1>2, <2>2, <3>0, SseParts DEF SseCalls
    <3>2. SseTyped'
      BY <1>1, <1>2, <1>4, <3>1, SseParts DEF SseTyped
    <3>3. IdsAreOwn' /\ TableIsTrue'
      BY <1>1, <1>2, <1>4, <2>2, <3>1, SseParts DEF IdsAreOwn, TableIsTrue, OnItsWay
    <3> QED
      BY <3>2, <3>3 DEF SseInv
  <2> QED
    BY <2>1, <2>2
<1> QED
  BY <1>3, <1>4 DEF PumpReads, OnItsWay

LEMMA SsePumpStops == SseInv /\ (PumpClears \/ PumpEnds) => SseInv'
<1> SUFFICES ASSUME SseInv, PumpClears \/ PumpEnds PROVE SseInv'
  OBVIOUS
<1>1. /\ ssePump' \in {"cleared", "over"} /\ sseWaiting' \in {{}, sseWaiting}
      /\ sseWaiting' = {} \/ ssePump # "reads"
      /\ UNCHANGED <<sseCall, sseNext, sseStream, sseDropped, sseOwed>>
  BY DEF PumpClears, PumpEnds
<1>2. SseTyped'
  BY <1>1, SseParts DEF SseTyped
<1>3. IdsAreOwn' /\ TableIsTrue'
  BY <1>1, SseParts DEF IdsAreOwn, TableIsTrue, OnItsWay
<1> QED
  BY <1>2, <1>3 DEF SseInv

LEMMA SseStep == SseInv /\ [SseNext]_sseVars => SseInv'
<1> SUFFICES ASSUME SseInv, [SseNext]_sseVars PROVE SseInv'
  OBVIOUS
<1>1. CASE PostReceived
  <2>1. sseCall.step = "posting" /\ sseCall.id \in 1 .. MaxCalls
    BY <1>1, SseParts DEF PostReceived, IdsAreOwn, OnItsWay
  <2> QED
    BY <1>1, <2>1, SseParts, SseApart DEF PostReceived
<1>2. CASE SseServer
  <2>1. PICK line \in SseLines : sseStream' = Append(sseStream, line)
    BY <1>2, SseParts DEF SseServer, SseLines
  <2>2. sseStream' \in Seq(SseLines)
    BY <2>1, SseParts
  <2> QED
    BY <1>2, <2>2, SseParts, SseApart DEF SseServer
<1>3. CASE UNCHANGED sseVars
  BY <1>3, SseParts, SseApart DEF sseVars
<1> QED
  BY <1>1, <1>2, <1>3, SseChecks, SseRegisters, SsePosted, SseCallFails, SseCallTimesOut,
     SseCallDropped, SsePumpReads, SsePumpStops
  DEF SseNext

LEMMA SseHolds == SseInv => SseTypeOK /\ SseFound
<1> SUFFICES ASSUME SseInv PROVE SseTypeOK /\ SseFound
  OBVIOUS
<1>1. SseTypeOK
  BY SseParts DEF SseTypeOK
<1>2. SseFound
  BY SseParts DEF SseFound, IdsAreOwn, TableIsTrue, OnItsWay
<1> QED
  BY <1>1, <1>2
=============================================================================

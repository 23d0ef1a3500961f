--------------------------------- MODULE McpSse ---------------------------------
(***************************************************************************)
(* The HTTP+SSE transport of the MCP client (mcp/client/sse.rs): replies   *)
(* come on a stream that a task of its own reads, and are handed over      *)
(* through a table of the requests that wait.  The client serves one call  *)
(* at a time; a call may be dropped at any await, its entry stays behind.  *)
(***************************************************************************)
EXTENDS Naturals, Sequences

CONSTANTS MaxCalls   \* bound of the model: calls of one connection

ASSUME SseCallsAssumption == MaxCalls \in Nat

VARIABLES
  sseWaiting,   \* the ids in the table
  ssePump,      \* the reading task: "reads", "cleared" the table, or is "over"
  sseCall,      \* the call under way
  sseNext,      \* next_id
  sseStream,    \* what the server has said and the pump has not read
  sseDropped,   \* history: ids whose call was dropped
  sseOwed       \* requests the server has received and not answered

sseVars == <<sseWaiting, ssePump, sseCall, sseNext, sseStream, sseDropped, sseOwed>>

NoSseCall == [step |-> "none", id |-> 0, got |-> 0, late |-> FALSE]

SseInit ==
  /\ sseWaiting = {}
  /\ ssePump = "reads"
  /\ sseCall = NoSseCall
  /\ sseNext = 1
  /\ sseStream = <<>>
  /\ sseDropped = {}
  /\ sseOwed = {}

(* The hub finds the client whole: no exchange failed, and the reading task*)
(* was not over.                                                           *)
Checks ==
  /\ sseCall.step \in {"none", "answered"} /\ ssePump # "over" /\ sseNext <= MaxCalls
  /\ sseCall' = [NoSseCall EXCEPT !.step = "checked"]
  /\ UNCHANGED <<sseWaiting, ssePump, sseNext, sseStream, sseDropped, sseOwed>>

(* call registers before it posts; late tells that the stream ended and the*)
(* table was cleared before, which the check was too early to see.         *)
Registers ==
  /\ sseCall.step = "checked"
  /\ sseNext' = sseNext + 1
  /\ sseWaiting' = sseWaiting \union {sseNext}
  /\ sseCall' = [NoSseCall EXCEPT !.step = "posting", !.id = sseNext, !.late = ssePump # "reads"]
  /\ UNCHANGED <<ssePump, sseStream, sseDropped, sseOwed>>

(* The post reaches the server, and its answer may overtake the response.  *)
PostReceived ==
  /\ sseCall.step = "posting" /\ sseCall.id \notin sseOwed
  /\ sseOwed' = sseOwed \union {sseCall.id}
  /\ UNCHANGED <<sseWaiting, ssePump, sseCall, sseNext, sseStream, sseDropped>>

Posted ==
  /\ sseCall.step = "posting" /\ sseCall.id \in sseOwed
  /\ sseCall' = [sseCall EXCEPT !.step = IF sseCall.got = 0 THEN "waiting" ELSE "answered"]
  /\ UNCHANGED <<sseWaiting, ssePump, sseNext, sseStream, sseDropped, sseOwed>>

(* Mutant: the entry stays.                                                *)
CallFails_Kept ==
  /\ sseCall.step \in {"posting", "waiting"}
  /\ sseCall' = [sseCall EXCEPT !.step = "failed"]
  /\ UNCHANGED <<sseWaiting, ssePump, sseNext, sseStream, sseDropped, sseOwed>>

(* The post fails, the wait is over, or the channel is closed: the entry is*)
(* taken back, and the client is broken.                                   *)
CallFails ==
  /\ sseCall.step \in {"posting", "waiting"}
  /\ sseCall' = [sseCall EXCEPT !.step = "failed"]
  /\ sseWaiting' = sseWaiting \ {sseCall.id}
  /\ UNCHANGED <<ssePump, sseNext, sseStream, sseDropped, sseOwed>>

(* Client::request runs out of time first: the call is dropped with its    *)
(* entry, and the reading task is ended where it stands.                   *)
CallTimesOut ==
  /\ sseCall.step \in {"posting", "waiting"}
  /\ sseCall' = [sseCall EXCEPT !.step = "failed"]
  /\ sseDropped' = sseDropped \union {sseCall.id}
  /\ ssePump' = "over"
  /\ UNCHANGED <<sseWaiting, sseNext, sseStream, sseOwed>>

(* Whoever asked for the call drops it: the entry stays, the client is as  *)
(* good as before.                                                         *)
SseDropped ==
  /\ sseCall.step \in {"posting", "waiting"}
  /\ sseCall' = NoSseCall
  /\ sseDropped' = sseDropped \union {sseCall.id}
  /\ UNCHANGED <<sseWaiting, ssePump, sseNext, sseStream, sseOwed>>

(* The server: replies in any order, and requests of its own under any id. *)
SseServer ==
  /\ ssePump = "reads" /\ Len(sseStream) < 2
  /\ \/ \E id \in sseOwed :
          sseStream' = Append(sseStream, [id |-> id, method |-> FALSE])
     \/ \E id \in 1 .. MaxCalls :
          sseStream' = Append(sseStream, [id |-> id, method |-> TRUE])
  /\ UNCHANGED <<sseWaiting, ssePump, sseCall, sseNext, sseDropped, sseOwed>>

(* pump: a reply goes to whoever waits under its id; the rest is dropped.  *)
PumpReads ==
  /\ ssePump = "reads" /\ sseStream # <<>>
  /\ sseStream' = Tail(sseStream)
  /\ LET said == Head(sseStream)
     IN  IF said.method \/ said.id \notin sseWaiting THEN UNCHANGED <<sseWaiting, sseCall>>
         ELSE /\ sseWaiting' = sseWaiting \ {said.id}
              /\ sseCall' = IF said.id # sseCall.id \/ sseCall.step \notin {"posting", "waiting"}
                            THEN sseCall
                            ELSE [sseCall EXCEPT !.got = said.id, !.step =
                                    IF sseCall.step = "waiting" THEN "answered" ELSE "posting"]
  /\ UNCHANGED <<ssePump, sseNext, sseDropped, sseOwed>>

(* The stream ends or says too much: the table is cleared, which wakes all *)
(* that wait, and then the task is over.                                   *)
PumpClears ==
  /\ ssePump = "reads"
  /\ ssePump' = "cleared"
  /\ sseWaiting' = {}
  /\ UNCHANGED <<sseCall, sseNext, sseStream, sseDropped, sseOwed>>

PumpEnds ==
  /\ ssePump = "cleared"
  /\ ssePump' = "over"
  /\ UNCHANGED <<sseWaiting, sseCall, sseNext, sseStream, sseDropped, sseOwed>>

SseNext ==
  \/ Checks \/ Registers \/ PostReceived \/ Posted \/ CallFails \/ CallTimesOut \/ SseDropped
  \/ SseServer \/ PumpReads \/ PumpClears \/ PumpEnds

SseSpec == SseInit /\ [][SseNext]_sseVars
-----------------------------------------------------------------------------
SseTypeOK ==
  /\ sseWaiting \subseteq 1 .. MaxCalls /\ sseOwed \subseteq 1 .. MaxCalls
  /\ ssePump \in {"reads", "cleared", "over"}
  /\ sseCall.step \in {"none", "checked", "posting", "waiting", "answered", "failed"}
  /\ sseNext \in 1 .. MaxCalls + 1

(* A call that waits is found by its answer or by the end of the stream:   *)
(* it has its entry while the stream is read, and the end of the stream    *)
(* takes the entry and wakes it, unless it registered after that           *)
(* (sse.rs:294-297 clears once): such a late call has nothing to find it   *)
(* but its deadline.  An answered call got its own answer; and what is     *)
(* left in the table belongs to the call under way or to one that was      *)
(* dropped, whose entry nobody takes back.                                 *)
SseFound ==
  /\ sseCall.step = "waiting" =>
       /\ ssePump = "reads" => sseCall.id \in sseWaiting
       /\ ssePump # "reads" /\ ~sseCall.late => sseCall.id \notin sseWaiting
  /\ sseCall.step = "answered" => sseCall.got = sseCall.id
  /\ \A id \in sseWaiting :
       id \in sseDropped \/ (id = sseCall.id /\ sseCall.step \in {"posting", "waiting"})

(* What the comment at sse.rs:292-293 says, that a dead stream is an error *)
(* on the next call rather than a hang: not so for a late call.            *)
NoHang == sseCall.step = "waiting" /\ ssePump = "over" => sseCall.id \notin sseWaiting
=============================================================================

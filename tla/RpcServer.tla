-------------------------------- MODULE RpcServer --------------------------------
(***************************************************************************)
(* The JSON-RPC server (rpc_cli.rs): one task that reads a line at a time, *)
(* answers it, and during a prompt goes on reading between two polls of    *)
(* the run; and a writer task behind one unbounded queue.  Requests are    *)
(* numbered as they are sent; one that is not named is a notification.     *)
(* Handling a line never awaits the run, so it is one step.                *)
(***************************************************************************)
EXTENDS Naturals, Sequences, FiniteSets

CONSTANTS
  RpcCapacity,   \* MAX_STEERING_MESSAGES
  MaxRequests,   \* bound of the model: lines sent
  MaxEvents,     \* bound of the model: events of one run
  LinesSent      \* bound of the model: the kinds of line a client sends

ASSUME RpcAssumption == MaxRequests \in Nat /\ RpcCapacity \in Nat

VARIABLES
  rpcInput,      \* lines sent and not yet read, and whether more may come
  rpcServer,     \* the serving task and the control of its run
  rpcOut,        \* the writer's queue
  rpcWritten,    \* what has reached stdout
  rpcRead        \* history: the requests read

rpcVars == <<rpcInput, rpcServer, rpcOut, rpcWritten, rpcRead>>

Methods == {"prompt", "steer", "cancel", "shutdown", "save", "malformed"}
ASSUME LinesAssumption == LinesSent \subseteq [method : Methods, named : BOOLEAN]
Requests == [number : 1 .. MaxRequests, method : Methods, named : BOOLEAN]
NoRequest == [number |-> 0, method |-> "none", named |-> FALSE]
IdleServer == [step |-> "idle", prompt |-> NoRequest, stopping |-> FALSE, inputOpen |-> TRUE,
               steerOpen |-> FALSE, steered |-> 0, cancelled |-> FALSE, events |-> 0]

RpcInit ==
  /\ rpcInput = [lines |-> <<>>, sent |-> 0, open |-> TRUE]
  /\ rpcServer = IdleServer
  /\ rpcOut = <<>>
  /\ rpcWritten = <<>>
  /\ rpcRead = {}

(* Lines of output: the reply to a request, an event of a run, the close.  *)
Line(kind, number) == [kind |-> kind, number |-> number]
(* A malformed line is answered too, with a null id; a notification not.   *)
Answers(request) ==
  IF request.named \/ request.method = "malformed" THEN <<Line("reply", request.number)>> ELSE <<>>
Says(lines) == rpcOut' = rpcOut \o lines
-----------------------------------------------------------------------------
(* The client sends a line or closes its end.                              *)
ClientSends ==
  /\ rpcInput.open
  /\ \/ /\ rpcInput.sent < MaxRequests
        /\ \E line \in LinesSent :
             rpcInput' = [rpcInput EXCEPT !.sent = @ + 1, !.lines =
               Append(@, [number |-> rpcInput.sent + 1, method |-> line.method, named |-> line.named])]
     \/ rpcInput' = [rpcInput EXCEPT !.open = FALSE]
  /\ UNCHANGED <<rpcServer, rpcOut, rpcWritten, rpcRead>>

(* Input::next gives the next line.  A read that select! drops keeps its   *)
(* bytes, so this is one step.                                             *)
Reads(request) ==
  /\ rpcInput.lines # <<>>
  /\ request = Head(rpcInput.lines)
  /\ rpcInput' = [rpcInput EXCEPT !.lines = Tail(@)]
  /\ rpcRead' = rpcRead \union {request}
  /\ UNCHANGED rpcWritten

(* The loop of run, with no prompt active.                                 *)
ServeIdle ==
  /\ rpcServer.step = "idle"
  /\ \E request \in Requests :
       /\ Reads(request)
       /\ \/ /\ request.method = "prompt"
             /\ rpcServer' = [IdleServer EXCEPT !.step = "running", !.prompt = request,
                                                !.steerOpen = TRUE]
             /\ UNCHANGED rpcOut
          \/ (* A prompt without text or with an image that cannot be read. *)
             /\ request.method = "prompt"
             /\ Says(Answers(request))
             /\ UNCHANGED rpcServer
          \/ /\ request.method # "prompt"
             /\ Says(Answers(request))
             /\ rpcServer' = [rpcServer EXCEPT
                                !.step = IF request.method = "shutdown" THEN "closing" ELSE "idle"]

(* handle_active: the select! of run reads a line between two polls of the *)
(* run.  Steering is queued while the run takes it; everything is answered *)
(* at once.                                                                *)
handle_active ==
  /\ rpcServer.step = "running" /\ rpcServer.inputOpen /\ ~rpcServer.stopping
  /\ \E request \in Requests :
       /\ Reads(request)
       /\ Says(Answers(request))
       /\ rpcServer' = [rpcServer EXCEPT
            !.steered = IF /\ request.method = "steer" /\ rpcServer.steerOpen
                           /\ ~rpcServer.cancelled /\ rpcServer.steered < RpcCapacity
                        THEN @ + 1 ELSE @,
            !.cancelled = @ \/ request.method \in {"cancel", "shutdown"},
            !.stopping = @ \/ request.method = "shutdown"]

(* The end of input: no run is active and the loop ends, or the active one *)
(* is cancelled.                                                           *)
InputEnds ==
  /\ rpcInput.lines = <<>> /\ ~rpcInput.open
  /\ \/ /\ rpcServer.step = "idle"
        /\ rpcServer' = [rpcServer EXCEPT !.step = "closing"]
     \/ /\ rpcServer.step = "running" /\ rpcServer.inputOpen /\ ~rpcServer.stopping
        /\ rpcServer' = [rpcServer EXCEPT !.inputOpen = FALSE, !.cancelled = TRUE]
  /\ UNCHANGED <<rpcInput, rpcOut, rpcWritten, rpcRead>>

(* Reading fails: the server leaves, and drops an active run with it.      *)
InputFails ==
  /\ rpcServer.step = "idle" \/ (rpcServer.step = "running" /\ ~rpcServer.stopping)
  /\ rpcServer' = [rpcServer EXCEPT !.step = "closing"]
  /\ UNCHANGED <<rpcInput, rpcOut, rpcWritten, rpcRead>>

(* The run: it emits events, takes what was steered, refuses steering when *)
(* it decides to finish with nothing queued, and returns.                  *)
RunEmits ==
  /\ rpcServer.step = "running" /\ rpcServer.events < MaxEvents
  /\ Says(<<Line("event", rpcServer.prompt.number)>>)
  /\ rpcServer' = [rpcServer EXCEPT !.events = @ + 1]
  /\ UNCHANGED <<rpcInput, rpcWritten, rpcRead>>

RunDrains ==
  /\ rpcServer.step = "running" /\ ~rpcServer.cancelled /\ rpcServer.steerOpen
  /\ \E final \in BOOLEAN :
       rpcServer' = [rpcServer EXCEPT !.steered = 0,
                                      !.steerOpen = ~(final /\ rpcServer.steered = 0)]
  /\ UNCHANGED <<rpcInput, rpcOut, rpcWritten, rpcRead>>

(* A cancelled or failed run returns with its steering still open.         *)
RunReturns ==
  /\ rpcServer.step = "running"
  /\ rpcServer' = [rpcServer EXCEPT !.step = "saving", !.steerOpen = FALSE, !.steered = 0]
  /\ UNCHANGED <<rpcInput, rpcOut, rpcWritten, rpcRead>>

(* Mutant: the reply leaves before the notice of the save.                 *)
Replies_NoticeLast ==
  /\ rpcServer.step = "saving"
  /\ Says(Answers(rpcServer.prompt) \o <<Line("event", rpcServer.prompt.number)>>)
  /\ rpcServer' = [IdleServer EXCEPT !.step = IF rpcServer.stopping THEN "closing" ELSE "idle"]
  /\ UNCHANGED <<rpcInput, rpcWritten, rpcRead>>

(* The session is saved or not, a notice may follow the save, and the      *)
(* prompt is answered; a shutdown read during the run ends the loop.       *)
Replies ==
  /\ rpcServer.step = "saving"
  /\ \E notice \in {<<>>, <<Line("event", rpcServer.prompt.number)>>} :
       Says(notice \o Answers(rpcServer.prompt))
  /\ rpcServer' = [IdleServer EXCEPT !.step = IF rpcServer.stopping THEN "closing" ELSE "idle"]
  /\ UNCHANGED <<rpcInput, rpcWritten, rpcRead>>

(* Out::close, and the wait for the writer.                                *)
Closes ==
  /\ rpcServer.step = "closing"
  /\ rpcServer' = [rpcServer EXCEPT !.step = "closed"]
  /\ Says(<<Line("close", 0)>>)
  /\ UNCHANGED <<rpcInput, rpcWritten, rpcRead>>

(* writer: one line after the other, until the close.                      *)
Writes ==
  /\ rpcOut # <<>>
  /\ rpcOut' = Tail(rpcOut)
  /\ IF Head(rpcOut).kind = "close"
     THEN rpcServer' = [rpcServer EXCEPT !.step = "down"] /\ UNCHANGED rpcWritten
     ELSE rpcWritten' = Append(rpcWritten, Head(rpcOut)) /\ UNCHANGED rpcServer
  /\ UNCHANGED <<rpcInput, rpcRead>>

RpcNext ==
  \/ ClientSends \/ ServeIdle \/ handle_active \/ InputEnds \/ InputFails
  \/ RunEmits \/ RunDrains \/ RunReturns \/ Replies \/ Closes \/ Writes

RpcSpec == RpcInit /\ [][RpcNext]_rpcVars
-----------------------------------------------------------------------------
RpcTypeOK ==
  /\ rpcInput.lines \in Seq(Requests) /\ rpcInput.sent \in 0 .. MaxRequests
  /\ rpcServer.step \in {"idle", "running", "saving", "closing", "closed", "down"}
  /\ rpcServer.steered \in 0 .. RpcCapacity
  /\ rpcRead \subseteq Requests

Said == rpcWritten \o rpcOut
RepliesTo(number) == Cardinality({i \in DOMAIN Said : Said[i] = Line("reply", number)})

(* Every request that was read has exactly one answer, written or queued,  *)
(* in the order in which they were decided: a prompt is answered when its  *)
(* run is over and only then, a notification never, a dropped run never;   *)
(* nothing of a run follows its answer; when a shutdown was answered no    *)
(* later line was read; and when the server is down all answers are out.   *)
RpcOneAnswer ==
  /\ \A request \in rpcRead :
       RepliesTo(request.number) =
         IF request = rpcServer.prompt THEN 0 ELSE Len(Answers(request))
  /\ \A i, j \in DOMAIN Said :
       Said[i].kind = "reply" /\ Said[j].kind = "event" /\ i < j => Said[i].number # Said[j].number
  /\ \A first, later \in rpcRead :
       first.method = "shutdown" => later.number <= first.number
  /\ rpcServer.step = "down" => rpcOut = <<>>
=============================================================================

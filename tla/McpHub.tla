--------------------------------- MODULE McpHub ---------------------------------
(***************************************************************************)
(* One server of the MCP hub (mcp/mod.rs) behind the stdio transport       *)
(* (mcp/client/mod.rs, stdio.rs): a client behind a lock, started when it  *)
(* is first used and again when it is broken, calls that may be dropped at *)
(* any await, a deadline on every exchange, and a shutdown that does not   *)
(* wait for the lock.                                                      *)
(***************************************************************************)
EXTENDS Naturals, Sequences

CONSTANTS
  McpCallers,    \* tool calls that may use the server at once
  MaxProcesses,  \* bound of the model: how often the server is started
  MaxIds,        \* bound of the model: requests to one process
  MaxLines       \* bound of the model: lines in the server's output

VARIABLES
  mcpLock,       \* which caller holds the client
  mcpClient,     \* the client in the hub; process 0 is none
  mcpPid,        \* the process number outside the lock
  mcpAlive,      \* processes that run
  mcpStarted,    \* how many have been started
  mcpPipes,      \* of the newest process: requests it has to answer, lines it wrote
  mcpCalls,      \* what each caller is doing
  mcpCache,      \* the cached catalog
  mcpShut        \* history, of the last shutdown: the processes it left running, and
                 \* the one it found starting

mcpVars ==
  <<mcpLock, mcpClient, mcpPid, mcpAlive, mcpStarted, mcpPipes, mcpCalls, mcpCache, mcpShut>>

Nobody == "nobody"
ASSUME HubAssumption == Nobody \notin McpCallers /\ MaxProcesses \in Nat /\ MaxIds \in Nat
NoClient == [process |-> 0, next |-> 1, broken |-> FALSE]
NoCall == [step |-> "idle", listing |-> FALSE, id |-> 0, got |-> [id |-> 0, method |-> FALSE]]

McpInit ==
  /\ mcpLock = Nobody
  /\ mcpClient = NoClient
  /\ mcpPid = 0
  /\ mcpAlive = {}
  /\ mcpStarted = 0
  /\ mcpPipes = [requests |-> {}, torn |-> FALSE, lines |-> <<>>]
  /\ mcpCalls = [c \in McpCallers |-> NoCall]
  /\ mcpCache = "unknown"
  /\ mcpShut = [left |-> {}, starting |-> {}]

McpCall(c, call) == mcpCalls' = [mcpCalls EXCEPT ![c] = call]
McpAt(c, step) == mcpLock = c /\ mcpCalls[c].step = step
Kills(processes) == mcpAlive' = mcpAlive \ processes
Broken == mcpClient.process = 0 \/ mcpClient.broken \/ mcpClient.process \notin mcpAlive
-----------------------------------------------------------------------------
(* A tool is called, or the catalog listed because none is cached yet.     *)
Uses(c, step) ==
  \E listing \in BOOLEAN :
    /\ listing => mcpCache # "ready"
    /\ McpCall(c, [NoCall EXCEPT !.step = step, !.listing = listing])

(* Server::tools stores how a listing went, whatever was stored meanwhile. *)
Caches(c, result) == mcpCache' = IF mcpCalls[c].listing THEN result ELSE mcpCache

(* connect: take the lock, and drop a broken client, which ends its        *)
(* process, before another one starts.                                     *)
Connect(c) ==
  /\ mcpLock = Nobody /\ mcpCalls[c].step = "idle"
  /\ mcpLock' = c
  /\ IF Broken
     THEN /\ mcpStarted < MaxProcesses
          /\ mcpStarted' = mcpStarted + 1
          /\ mcpAlive' = (mcpAlive \ {mcpClient.process}) \union {mcpStarted'}
          /\ mcpPid' = 0
          /\ mcpClient' = [NoClient EXCEPT !.process = mcpStarted']
          /\ mcpPipes' = [requests |-> {}, torn |-> FALSE, lines |-> <<>>]
          /\ Uses(c, "starting")
     ELSE /\ Uses(c, "connected")
          /\ UNCHANGED <<mcpStarted, mcpAlive, mcpPid, mcpClient, mcpPipes>>
  /\ UNCHANGED <<mcpCache, mcpShut>>

(* Client::start: initialize is answered in time, and only then the hub    *)
(* stores the client and its process number.                               *)
Initialized(c) ==
  /\ McpAt(c, "starting") /\ mcpClient.process \in mcpAlive
  /\ mcpPid' = mcpClient.process
  /\ mcpClient' = [mcpClient EXCEPT !.next = 2]
  /\ McpCall(c, [mcpCalls[c] EXCEPT !.step = "connected"])
  /\ UNCHANGED <<mcpLock, mcpAlive, mcpStarted, mcpPipes, mcpCache, mcpShut>>

(* A start that fails, times out or is dropped takes its process with it.  *)
StartFails(c) ==
  /\ McpAt(c, "starting")
  /\ Kills({mcpClient.process})
  /\ mcpClient' = NoClient
  /\ mcpLock' = Nobody
  /\ McpCall(c, NoCall)
  /\ Caches(c, "failed") \/ UNCHANGED mcpCache
  /\ UNCHANGED <<mcpPid, mcpStarted, mcpPipes, mcpShut>>

(* request: a fresh id, and the line written to the server.  A line that   *)
(* follows half of another one is not a request for the server.            *)
Request(c) ==
  /\ McpAt(c, "connected") /\ mcpClient.next <= MaxIds
  /\ mcpClient' = [mcpClient EXCEPT !.next = @ + 1]
  /\ mcpPipes' = IF mcpPipes.torn THEN [mcpPipes EXCEPT !.torn = FALSE]
                 ELSE [mcpPipes EXCEPT !.requests = @ \union {mcpClient.next}]
  /\ McpCall(c, [mcpCalls[c] EXCEPT !.step = "sent", !.id = mcpClient.next])
  /\ UNCHANGED <<mcpLock, mcpPid, mcpAlive, mcpStarted, mcpCache, mcpShut>>

(* Mutant: any line without a method is the answer.                        *)
answers_AnyId(line, id) == ~line.method

(* answers: the id of the request, and not a request of the server's own.  *)
answers(line, id) == line.id = id /\ ~line.method

(* exchange: the next line of the server is the answer, or is left behind; *)
(* a request of its own is answered on the way.                            *)
ReadLine(c) ==
  /\ McpAt(c, "sent") /\ mcpPipes.lines # <<>>
  /\ LET line == Head(mcpPipes.lines)
     IN  IF answers(line, mcpCalls[c].id)
         THEN /\ McpCall(c, [mcpCalls[c] EXCEPT !.step = "answered", !.got = line])
              /\ mcpLock' = Nobody
              /\ Caches(c, "ready")
         ELSE UNCHANGED <<mcpCalls, mcpLock, mcpCache>>
  /\ mcpPipes' = [mcpPipes EXCEPT !.lines = Tail(@)]
  /\ UNCHANGED <<mcpClient, mcpPid, mcpAlive, mcpStarted, mcpShut>>

(* The deadline passes or the transport fails: the client is broken, and   *)
(* after a timeout its process is ended at once.                           *)
RequestFails(c) ==
  /\ McpAt(c, "sent")
  /\ mcpClient' = [mcpClient EXCEPT !.broken = TRUE]
  /\ \E killed \in {{}, {mcpClient.process}} : Kills(killed)
  /\ mcpLock' = Nobody
  /\ McpCall(c, NoCall)
  /\ Caches(c, "failed")
  /\ UNCHANGED <<mcpPid, mcpStarted, mcpPipes, mcpShut>>

(* The call is dropped: between two lines, in the middle of one, or in the *)
(* middle of its request.  Nothing marks the client.                       *)
CallDropped(c) ==
  /\ McpAt(c, "sent") \/ McpAt(c, "connected")
  /\ mcpLock' = Nobody
  /\ McpCall(c, NoCall)
  /\ mcpPipes' \in {mcpPipes}
       \union (IF mcpCalls[c].step = "connected"
               THEN {[mcpPipes EXCEPT !.torn = TRUE]}
               ELSE IF mcpPipes.lines = <<>> THEN {} ELSE {[mcpPipes EXCEPT !.lines = Tail(@)]})
  /\ UNCHANGED <<mcpClient, mcpPid, mcpAlive, mcpStarted, mcpCache, mcpShut>>

McpReturns(c) ==
  /\ mcpCalls[c].step = "answered"
  /\ McpCall(c, NoCall)
  /\ UNCHANGED <<mcpLock, mcpClient, mcpPid, mcpAlive, mcpStarted, mcpPipes, mcpCache, mcpShut>>

Starting == mcpLock # Nobody /\ mcpCalls[mcpLock].step = "starting"

(* Server::shutdown: the process is ended by its number, whoever holds the *)
(* client, and the client is dropped when nobody does.  A process that is  *)
(* being started has no number yet and its starter holds the client.       *)
Shutdown ==
  /\ mcpPid' = 0
  /\ IF mcpLock = Nobody
     THEN Kills({mcpPid, mcpClient.process}) /\ mcpClient' = NoClient
     ELSE Kills({mcpPid}) /\ UNCHANGED mcpClient
  /\ mcpShut' = [left |-> mcpAlive',
                 starting |-> IF Starting THEN mcpAlive ELSE {}]
  /\ UNCHANGED <<mcpLock, mcpStarted, mcpPipes, mcpCalls, mcpCache>>
-----------------------------------------------------------------------------
(* The server: it answers in any order, asks something itself under an id  *)
(* of its own choice, or exits.                                            *)
ServerWrites ==
  /\ mcpStarted \in mcpAlive /\ Len(mcpPipes.lines) < MaxLines
  /\ \/ \E id \in mcpPipes.requests :
          mcpPipes' = [mcpPipes EXCEPT !.requests = @ \ {id},
                                       !.lines = Append(@, [id |-> id, method |-> FALSE])]
     \/ \E id \in 1 .. MaxIds :
          mcpPipes' = [mcpPipes EXCEPT !.lines = Append(@, [id |-> id, method |-> TRUE])]
  /\ UNCHANGED <<mcpLock, mcpClient, mcpPid, mcpAlive, mcpStarted, mcpCalls, mcpCache, mcpShut>>

ServerExits ==
  /\ mcpAlive # {}
  /\ \E p \in mcpAlive : Kills({p})
  /\ UNCHANGED <<mcpLock, mcpClient, mcpPid, mcpStarted, mcpPipes, mcpCalls, mcpCache, mcpShut>>

McpNext ==
  \/ \E c \in McpCallers :
       \/ Connect(c) \/ Initialized(c) \/ StartFails(c) \/ Request(c) \/ ReadLine(c)
       \/ RequestFails(c) \/ CallDropped(c) \/ McpReturns(c)
  \/ Shutdown \/ ServerWrites \/ ServerExits

McpSpec == McpInit /\ [][McpNext]_mcpVars
-----------------------------------------------------------------------------
McpTypeOK ==
  /\ mcpLock \in McpCallers \union {Nobody}
  /\ mcpClient.process \in 0 .. mcpStarted /\ mcpPid \in 0 .. mcpStarted
  /\ mcpAlive \subseteq 1 .. MaxProcesses
  /\ mcpCache \in {"unknown", "ready", "failed"}
  /\ \A c \in McpCallers :
       mcpCalls[c].step \in {"idle", "starting", "connected", "sent", "answered"}

(* A call gets the answer to its own request, although calls before it     *)
(* were dropped with their answers still to come; never two processes of   *)
(* one server run at once, and the one that runs is the client's and the   *)
(* hub knows its number, so that the next shutdown ends it, unless a call  *)
(* is still starting it; and a shutdown leaves no process running, also    *)
(* when a call is stuck with the client, but for one it found starting     *)
(* (mcp/mod.rs:477-503).                                                   *)
McpExchanges ==
  /\ \A c \in McpCallers :
       mcpCalls[c].step = "answered" =>
         mcpCalls[c].got = [id |-> mcpCalls[c].id, method |-> FALSE]
  /\ mcpAlive \subseteq {mcpClient.process}
  /\ ~Starting => mcpAlive \subseteq {mcpPid}
  /\ mcpShut.left \subseteq mcpShut.starting

(* What the comment at mcp/mod.rs:402-403 says, that shutdown ends every   *)
(* stdio server: not one that a call is starting, which lives on when its  *)
(* start succeeds.                                                         *)
ShutdownEndsAll == mcpShut.left = {}
=============================================================================

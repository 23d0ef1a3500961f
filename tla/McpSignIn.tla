-------------------------------- MODULE McpSignIn --------------------------------
(***************************************************************************)
(* Signing in to remote MCP servers (mcp/oauth.rs): one file of records, a *)
(* record per server, which connections renew and the commands mcp login   *)
(* and mcp logout change.  A change holds the lock of its own process from *)
(* the read to the rename; two processes do not share that lock.           *)
(***************************************************************************)
EXTENDS Naturals

CONSTANTS
  SignInTasks,   \* task -> [server, process, does]: connections and commands
  MaxTokens,     \* bound of the model: tokens ever issued
  Urls,          \* endpoints a server may be configured with, 1 to begin with
  Rotating       \* servers whose renewals replace the refresh token

VARIABLES
  records,       \* mcpauth.json: server -> record or NoRecord
  signing,       \* task -> what it is doing
  locked,        \* process -> the task that holds LOCK, or NoTask
  urls,          \* the profile: server -> its configured endpoint
  accepted,      \* the authorization servers: server -> refresh tokens taken
  issuedTokens,  \* how many tokens have been issued
  lastRecord,    \* history: server -> what the last completed change left
  astray,        \* history: servers whose newest token was lost on the way
  crossed,       \* history: changes of two processes have overlapped
  wiped          \* history: servers a change that could not read left out

signInVars == <<records, signing, locked, urls, accepted, issuedTokens,
                lastRecord, astray, crossed, wiped>>

SignInServers == {SignInTasks[t].server : t \in DOMAIN SignInTasks}
Processes == {SignInTasks[t].process : t \in DOMAIN SignInTasks}
NoTask == "none"
ASSUME SignInAssumption ==
  /\ NoTask \notin DOMAIN SignInTasks /\ 1 \in Urls /\ 0 \notin Urls /\ MaxTokens \in Nat \ {0}
  /\ \A t \in DOMAIN SignInTasks : SignInTasks[t].does \in {"connect", "command"}

(* Record: the endpoint it was issued for, its refresh token (0: none), and*)
(* whether it is stale.                                                    *)
NoRecord == [url |-> 0, refresh |-> 0, stale |-> FALSE]
NoRecords == [s \in SignInServers |-> NoRecord]
NoSigning == [step |-> "idle", record |-> NoRecord, copy |-> NoRecords, unread |-> FALSE]

(* Servers signed in to before.                                            *)
Given(url) == [url |-> url, refresh |-> 1, stale |-> FALSE]

SignInInit ==
  /\ urls = [s \in SignInServers |-> 1]
  /\ \E already \in SUBSET SignInServers :
       /\ records = [s \in SignInServers |-> IF s \in already THEN Given(urls[s]) ELSE NoRecord]
       /\ accepted = [s \in SignInServers |-> IF s \in already THEN {1} ELSE {}]
  /\ signing = [t \in DOMAIN SignInTasks |-> NoSigning]
  /\ locked = [p \in Processes |-> NoTask]
  /\ issuedTokens = 1
  /\ lastRecord = records
  /\ astray = {}
  /\ crossed = FALSE
  /\ wiped = {}

ServerOf(t) == SignInTasks[t].server
ProcessOf(t) == SignInTasks[t].process
At(t, step) == signing[t].step = step
Steps(t, step) == signing' = [signing EXCEPT ![t].step = step]
StepsWith(t, step, record) ==
  signing' = [signing EXCEPT ![t].step = step, ![t].record = record]
AtRest(t) == signing[t].step \in {"idle", "connected"}

(* Connecting goes on without a header, or fails; a command is over.       *)
Ends(t) == signing' = [signing EXCEPT ![t] = NoSigning]
-----------------------------------------------------------------------------
(* read: a file that cannot be read or parsed is one without records.      *)
Loaded(s) == {records[s], NoRecord}

(* bearer: no record, no header; a record of another endpoint is refused;  *)
(* a stale one is renewed, which takes a refresh token.                    *)
bearer(t) ==
  \E record \in Loaded(ServerOf(t)) :
      IF record = NoRecord \/ record.url # urls[ServerOf(t)] THEN Ends(t)
      ELSE IF ~record.stale THEN StepsWith(t, "connected", record)
      ELSE IF record.refresh # 0 THEN StepsWith(t, "renews", record)
      ELSE Ends(t)

SignInConnects(t) ==
  /\ SignInTasks[t].does = "connect" /\ AtRest(t)
  /\ bearer(t)
  /\ UNCHANGED <<records, locked, urls, accepted, issuedTokens, lastRecord, astray, crossed, wiped>>

(* begin: the endpoints of an authorization server are found, and a client*)
(* is registered, or the one of the record there is reused where none can  *)
(* be.  Which endpoint and which client is left out.                       *)
SignInBegins(t) ==
  /\ SignInTasks[t].does = "command" /\ AtRest(t)
  /\ \/ StepsWith(t, "browser", [NoRecord EXCEPT !.url = urls[ServerOf(t)]])
     \/ Ends(t)
  /\ UNCHANGED <<records, locked, urls, accepted, issuedTokens, lastRecord, astray, crossed, wiped>>

(* catch: silent connections and requests without a query do not end the   *)
(* wait, so only these three change anything; answer takes the code if it  *)
(* comes with this sign-in's state, and the whole wait has an end.         *)
BrowserReturns(t) ==
  /\ At(t, "browser")
  /\ \E came \in {"code", "error", "otherState", "late"} :
       IF came = "code" THEN Steps(t, "trades") ELSE Ends(t)
  /\ UNCHANGED <<records, locked, urls, accepted, issuedTokens, lastRecord, astray, crossed, wiped>>

(* External: the authorization server takes the code once, and a refresh   *)
(* token as long as it holds; a reply need not carry a refresh token.      *)
Trades(t) ==
  /\ At(t, "trades") /\ issuedTokens < MaxTokens
  /\ \E refresh \in {0, issuedTokens + 1} :
       /\ StepsWith(t, "granted", [signing[t].record EXCEPT !.refresh = refresh])
       /\ accepted' = [accepted EXCEPT ![ServerOf(t)] = @ \union ({refresh} \ {0})]
  /\ issuedTokens' = issuedTokens + 1
  /\ UNCHANGED <<records, locked, urls, lastRecord, astray, crossed, wiped>>

(* issued: what the reply leaves out is kept from the record it renews.    *)
issued(t, refresh) ==
  [signing[t].record EXCEPT !.refresh = IF refresh = 0 THEN @ ELSE refresh, !.stale = FALSE]

Renews(t) ==
  /\ At(t, "renews") /\ issuedTokens < MaxTokens
  /\ LET s == ServerOf(t)
         old == signing[t].record.refresh
         new == IF s \in Rotating THEN issuedTokens + 1 ELSE 0
     IN  IF old \notin accepted[s] THEN Ends(t) /\ UNCHANGED <<accepted, issuedTokens>>
         ELSE /\ StepsWith(t, "granted", issued(t, new))
              /\ accepted' = IF s \in Rotating THEN [accepted EXCEPT ![s] = (@ \ {old}) \union {new}]
                             ELSE accepted
              /\ issuedTokens' = issuedTokens + 1
  /\ UNCHANGED <<records, locked, urls, lastRecord, astray, crossed, wiped>>

(* The request or its reply is lost, or the reply is not what it should be.*)
SignInUnanswered(t) ==
  /\ signing[t].step \in {"trades", "renews", "granted"}
  /\ Ends(t)
  /\ astray' = IF At(t, "granted") THEN astray \union {ServerOf(t)} ELSE astray
  /\ UNCHANGED <<records, locked, urls, accepted, issuedTokens, lastRecord, crossed, wiped>>

SignsOut(t) ==
  /\ SignInTasks[t].does = "command" /\ AtRest(t)
  /\ StepsWith(t, "granted", NoRecord)
  /\ UNCHANGED <<records, locked, urls, accepted, issuedTokens, lastRecord, astray, crossed, wiped>>
-----------------------------------------------------------------------------
(* What a change works on: the whole file, or nothing if it cannot be read.*)
Takes(t) ==
  \E unread \in BOOLEAN :
    signing' = [signing EXCEPT ![t].step = "changes", ![t].unread = unread,
                               ![t].copy = IF unread THEN NoRecords ELSE records]

(* Mutant: read without the lock.                                          *)
ChangeReads_Unlocked(t) ==
  /\ At(t, "granted")
  /\ Takes(t)
  /\ UNCHANGED <<locked, crossed>>

(* change: from here to the write the lock of its process is held.         *)
ChangeReads(t) ==
  /\ At(t, "granted") /\ locked[ProcessOf(t)] = NoTask
  /\ Takes(t)
  /\ locked' = [locked EXCEPT ![ProcessOf(t)] = t]
  /\ crossed' = (crossed \/ \E p \in Processes \ {ProcessOf(t)} : locked[p] # NoTask)

SignInReads(t) ==
  /\ ChangeReads(t)
  /\ UNCHANGED <<records, urls, accepted, issuedTokens, lastRecord, astray, wiped>>

(* The edited copy replaces the file at once; signing out of what the copy *)
(* does not hold writes nothing.                                           *)
WritesRecords(t) ==
  LET s == ServerOf(t)
      new == signing[t].record
  IN  /\ records' = [signing[t].copy EXCEPT ![s] = new]
      /\ lastRecord' = [lastRecord EXCEPT ![s] = new]
      /\ astray' = astray \ {s}
      /\ wiped' = (IF signing[t].unread THEN SignInServers ELSE wiped) \ {s}
      /\ signing' = [signing EXCEPT ![t] =
           IF SignInTasks[t].does = "connect"
           THEN [NoSigning EXCEPT !.step = "connected", !.record = new] ELSE NoSigning]

ChangeWrites(t) ==
  /\ At(t, "changes")
  /\ LET s == ServerOf(t)
         new == signing[t].record
     IN  \/ (new # NoRecord \/ signing[t].copy[s] # NoRecord) /\ WritesRecords(t)
         \/ /\ Ends(t)   \* nothing to sign out of, or the write fails
            /\ astray' = IF new = NoRecord THEN astray ELSE astray \union {s}
            /\ UNCHANGED <<records, lastRecord, wiped>>
  /\ locked' = [p \in Processes |-> IF locked[p] = t THEN NoTask ELSE locked[p]]
  /\ UNCHANGED <<urls, accepted, issuedTokens, crossed>>
-----------------------------------------------------------------------------
(* A token runs out, which stale tells sixty seconds ahead: in the file and*)
(* in every copy of it.                                                    *)
WithStale(all, s) == [all EXCEPT ![s].stale = TRUE]

Expires(s) ==
  /\ records[s] # NoRecord /\ ~records[s].stale /\ issuedTokens < MaxTokens
  /\ records' = WithStale(records, s)
  /\ lastRecord' = WithStale(lastRecord, s)
  /\ signing' = [t \in DOMAIN signing |->
                   IF signing[t].copy[s] = records[s]
                   THEN [signing[t] EXCEPT !.copy = WithStale(@, s)] ELSE signing[t]]
  /\ UNCHANGED <<locked, urls, accepted, issuedTokens, astray, crossed, wiped>>

(* The profile is edited: the server is now at another endpoint.           *)
EndpointMoves(s) ==
  /\ \A t \in DOMAIN SignInTasks : ServerOf(t) = s => AtRest(t)
  /\ \E url \in Urls \ {urls[s]} : urls' = [urls EXCEPT ![s] = url]
  /\ signing' = [t \in DOMAIN signing |-> IF ServerOf(t) = s THEN NoSigning ELSE signing[t]]
  /\ UNCHANGED <<records, locked, accepted, issuedTokens, lastRecord, astray, crossed, wiped>>

SignInNext ==
  \/ \E t \in DOMAIN SignInTasks :
       \/ SignInConnects(t) \/ SignInBegins(t) \/ BrowserReturns(t) \/ Trades(t) \/ Renews(t)
       \/ SignInUnanswered(t) \/ SignsOut(t) \/ SignInReads(t) \/ ChangeWrites(t)
  \/ \E s \in SignInServers : Expires(s) \/ EndpointMoves(s)

SignInSpec == SignInInit /\ [][SignInNext]_signInVars
-----------------------------------------------------------------------------
SignInTypeOK ==
  /\ issuedTokens \in 0 .. MaxTokens /\ crossed \in BOOLEAN
  /\ astray \subseteq SignInServers /\ wiped \subseteq SignInServers
  /\ \A s \in SignInServers :
       /\ records[s].refresh \in 0 .. MaxTokens /\ accepted[s] \subseteq 1 .. MaxTokens
       /\ urls[s] \in Urls
  /\ \A p \in Processes : locked[p] \in DOMAIN SignInTasks \union {NoTask}
  /\ \A t \in DOMAIN SignInTasks :
       signing[t].step \in {"idle", "renews", "browser", "trades", "granted", "changes", "connected"}

(* A sign-in is kept: as long as the changes of two processes have not     *)
(* overlapped, the file holds of each server what its own last change left,*)
(* whatever renewals of other servers were under way, and loses it only to *)
(* a change that could not read the file; its refresh token is one the     *)
(* server still takes unless a newer one is about to be stored or was lost *)
(* on the way; and a connection only ever carries a token that was issued  *)
(* for the endpoint it talks to.                                           *)
SignInKept ==
  /\ ~crossed =>
       \A s \in SignInServers :
         /\ records[s] = IF s \in wiped THEN NoRecord ELSE lastRecord[s]
         /\ \/ records[s].refresh = 0 \/ records[s].refresh \in accepted[s] \/ s \in astray
            \/ \E t \in DOMAIN SignInTasks :
                 ServerOf(t) = s /\ signing[t].step \in {"granted", "changes"}
  /\ \A t \in DOMAIN SignInTasks :
       SignInTasks[t].does = "connect" /\ At(t, "connected")
         => signing[t].record.url = urls[ServerOf(t)]

(* What the comment of change promises (mcp/oauth.rs:118-120), that no     *)
(* change writes back a file without another server's token.  It does not  *)
(* hold, even within one process: read takes a file it cannot read or parse*)
(* for an empty one, and change writes that back.                          *)
OthersAreKept ==
  ~crossed => \A s \in SignInServers : records[s] = lastRecord[s]
=============================================================================

--------------------------- MODULE MCComponents ---------------------------
(* The components with small sets of callers, files, servers and calls.    *)
EXTENDS Components, TLC

MCTasks ==
  [c1 |-> [server |-> "s1", process |-> "chat", does |-> "connect"],
   c2 |-> [server |-> "s2", process |-> "chat", does |-> "connect"],
   k1 |-> [server |-> "s1", process |-> "cli", does |-> "command"]]
MCLines ==
  [method : {"prompt", "steer", "cancel", "shutdown", "save", "malformed"}, named : {TRUE}]
    \union {[method |-> "steer", named |-> FALSE]}
MCStartRules ==
  {[allow |-> {}, deny |-> {}], [allow |-> {"shell"}, deny |-> {"shell(git *)"}]}
MCChains ==
  {<<"chat">>, <<"messages">>, <<"responses">>, <<"process">>,
   <<"chat", "messages">>, <<"responses", "process">>}
MCLayout == (<<1, "a">> :> "portable") @@ (<<2, "a">> :> "process") @@ (<<3, "a">> :> "bundled")
(* What tells two states of one behaviour apart: the component that moves, *)
(* and its state.  The others are as they began, so that nothing is lost.  *)
Moves ==
  <<part,
    CASE part = "jobs" -> jobVars
      [] part = "automatic" -> autoVars
      [] part = "improvement" -> impVars
      [] part = "rpc" -> rpcVars
      [] part = "mcp" -> mcpVars
      [] part = "sse" -> sseVars
      [] part = "signin" -> signInVars
      [] part = "skills" -> skillVars
      [] part = "settings" -> settingsVars
      [] part = "synapse" -> linkVars
      [] part = "memory" -> memoriesVars
      [] part = "import" -> importVars
      [] part = "approvals" -> approvalsVars
      [] part = "chat" -> chatVars
      [] part = "providers" -> providersVars
      [] part = "plugins" -> pluginVars
      [] part = "files" -> filesVars
      [] part = "plan" -> planVars>>
=============================================================================

---------------------------- MODULE Components ----------------------------
(* One instance of every component that shares no state with another.      *)
(* part says which of them this behaviour is about: it is chosen in the    *)
(* initial state, that component takes all the steps, and the others stay  *)
(* as they began.  A component with more than one way to begin is begun in *)
(* one of them while it is not the chosen one.                             *)
EXTENDS Jobs, AutoImprove, Improvement, RpcServer, McpHub, McpSse, McpSignIn, Skills, Settings,
        SynapseLink, Memories, Imports, Approvals, Chat, Providers, Plugins, Files, Plan

VARIABLE part

Components ==
  {"jobs", "automatic", "improvement", "rpc", "mcp", "sse", "signin", "skills", "settings",
   "synapse", "memory", "import", "approvals", "chat", "providers", "plugins", "files", "plan"}

(* Every component but p stays as it is.                                   *)
Only(p) ==
  /\ part = p /\ UNCHANGED part
  /\ IF p = "jobs" THEN TRUE ELSE UNCHANGED jobVars
  /\ IF p = "automatic" THEN TRUE ELSE UNCHANGED autoVars
  /\ IF p = "improvement" THEN TRUE ELSE UNCHANGED impVars
  /\ IF p = "rpc" THEN TRUE ELSE UNCHANGED rpcVars
  /\ IF p = "mcp" THEN TRUE ELSE UNCHANGED mcpVars
  /\ IF p = "sse" THEN TRUE ELSE UNCHANGED sseVars
  /\ IF p = "signin" THEN TRUE ELSE UNCHANGED signInVars
  /\ IF p = "skills" THEN TRUE ELSE UNCHANGED skillVars
  /\ IF p = "settings" THEN TRUE ELSE UNCHANGED settingsVars
  /\ IF p = "synapse" THEN TRUE ELSE UNCHANGED linkVars
  /\ IF p = "memory" THEN TRUE ELSE UNCHANGED memoriesVars
  /\ IF p = "import" THEN TRUE ELSE UNCHANGED importVars
  /\ IF p = "approvals" THEN TRUE ELSE UNCHANGED approvalsVars
  /\ IF p = "chat" THEN TRUE ELSE UNCHANGED chatVars
  /\ IF p = "providers" THEN TRUE ELSE UNCHANGED providersVars
  /\ IF p = "plugins" THEN TRUE ELSE UNCHANGED pluginVars
  /\ IF p = "files" THEN TRUE ELSE UNCHANGED filesVars
  /\ IF p = "plan" THEN TRUE ELSE UNCHANGED planVars

Init ==
  /\ part \in Components
  /\ JobInit /\ AutoInit /\ ImpInit /\ RpcInit /\ McpInit /\ SseInit
  /\ SignInInit /\ SkillInit /\ SettingsInit /\ LinkInit /\ MemoriesInit /\ ImportsInit
  /\ ApprovalsInit /\ ChatInit /\ ProvidersInit /\ PluginsInit /\ FilesInit /\ PlanInit
  /\ part # "signin" => records = [s \in SignInServers |-> NoRecord]
  /\ part # "settings" => configFile = NoFile
  /\ part # "synapse" => linkProfile.synapse = "absent"
  /\ part # "approvals" => configured = [rules |-> [allow |-> {}, deny |-> {}], mode |-> "ask"]
  /\ part # "chat" => disk = <<>>
  /\ part # "providers" => chain = <<"chat">> /\ ~numbers

Next ==
  \/ Only("jobs") /\ JobNext
  \/ Only("automatic") /\ AutoNext
  \/ Only("improvement") /\ ImpNext
  \/ Only("rpc") /\ RpcNext
  \/ Only("mcp") /\ McpNext
  \/ Only("sse") /\ SseNext
  \/ Only("signin") /\ SignInNext
  \/ Only("skills") /\ SkillNext
  \/ Only("settings") /\ SettingsNext
  \/ Only("synapse") /\ LinkNext
  \/ Only("memory") /\ MemoriesNext
  \/ Only("import") /\ ImportsNext
  \/ Only("approvals") /\ ApprovalsNext
  \/ Only("chat") /\ ChatNext
  \/ Only("providers") /\ ProvidersNext
  \/ Only("plugins") /\ PluginsNext
  \/ Only("files") /\ FilesNext
  \/ Only("plan") /\ PlanNext

Spec ==
  Init /\ [][Next]_<<part, jobVars, autoVars, impVars, rpcVars, mcpVars, sseVars, signInVars,
                     skillVars, settingsVars, linkVars, memoriesVars, importVars, approvalsVars,
                     chatVars, providersVars, pluginVars, filesVars, planVars>>
-----------------------------------------------------------------------------
(* Every component's variables have their types.                           *)
TypeOK ==
  /\ part = "jobs" => JobTypeOK
  /\ part = "automatic" => AutoTypeOK
  /\ part = "improvement" => ImpTypeOK
  /\ part = "rpc" => RpcTypeOK
  /\ part = "mcp" => McpTypeOK
  /\ part = "sse" => SseTypeOK
  /\ part = "signin" => SignInTypeOK
  /\ part = "skills" => SkillTypeOK
  /\ part = "settings" => SettingsTypeOK
  /\ part = "synapse" => LinkTypeOK
  /\ part = "memory" => MemoriesTypeOK
  /\ part = "import" => ImportsTypeOK
  /\ part = "approvals" => ApprovalsTypeOK
  /\ part = "chat" => ChatTypeOK
  /\ part = "providers" => ProvidersTypeOK
  /\ part = "plugins" => PluginsTypeOK
  /\ part = "files" => FilesTypeOK
  /\ part = "plan" => PlanTypeOK

(* Background work, of jobs and of the automatic self-improvement, is told *)
(* of as it went. What a status says of a job is so, and no later call takes*)
(* back that a job is over; a working attempt holds the one slot unless its*)
(* launch lost it, an outcome is told once, and a run counts once until it *)
(* is forgotten, and may then count again (job.rs, improve/automatic.rs).  *)
WorkIsToldRight ==
  /\ part = "jobs" => JobVerdicts
  /\ part = "automatic" => AutoSchedule

(* A call to an MCP server, over either transport, ends with the reply to  *)
(* that very call. Over stdio one process at most runs, and after a shutdown*)
(* none but one it found starting; over SSE a waiting call is found by its *)
(* answer or by the end of the stream, unless it registered after that end,*)
(* and an entry that stays in the table is that of a dropped call (mcp/).  *)
ServersAnswer ==
  /\ part = "mcp" => McpExchanges
  /\ part = "sse" => SseFound

(* What lets the program in where it works survives every order in which   *)
(* programs change it, but for what the histories name: a sign-in, unless  *)
(* the changes of two processes overlapped or a change could not read the  *)
(* file; a usable config file, unless what was saved came from a copy that *)
(* never was usable, or that was loaded from part of a file that another   *)
(* program was still writing (mcp/oauth.rs, config.rs).                    *)
AccessKept ==
  /\ part = "signin" => SignInKept
  /\ part = "settings" => SavedIsUsable

(* What was learned is kept until it is given up on purpose: a memory; an  *)
(* imported file until it is chosen again although marked as present; the  *)
(* text of a skill's last approval or correction. Imports and calls of     *)
(* skills that overlap are excepted, and so is a write of a skill that was *)
(* cut off (memory.rs, import.rs, learn.rs).                               *)
LearnedKept ==
  /\ part = "memory" => MemoryKept
  /\ part = "import" => ImportOnce
  /\ part = "skills" => SkillsGated

(* A call that asked runs only on a person's yes to that very call, no call*)
(* waits for a question that nobody will be shown, and an agent is built   *)
(* from plugins that were shown when they were approved and runs of each   *)
(* only that, a portable plugin's servers and skills excepted: those are   *)
(* read again and not compared (permission.rs, tui/chat.rs,                *)
(* plugin/catalog.rs).                                                     *)
ConsentHolds ==
  /\ part = "approvals" => ApprovalsHeard
  /\ part = "plugins" => ApprovedIsShown

(* What is typed and what is said is in the session, once, whoever holds   *)
(* it, and the plan on the screen is the session's (tui/chat.rs, todo.rs,  *)
(* agent/plan.rs).                                                         *)
SessionHolds ==
  /\ part = "chat" => ChatKeeps
  /\ part = "plan" => PlanIsOne

(* What the program takes as said or done is what was: a reply is all a    *)
(* provider sent, once, and a file is what its last edit reported          *)
(* (provider/, tool/).                                                     *)
SaidIsSo ==
  /\ part = "providers" => ReplyIsWhole
  /\ part = "files" => FileAsReported
=============================================================================

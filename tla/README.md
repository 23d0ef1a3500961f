# Ainz verification project

Ainz is an agent harness written in Rust. A *run* of the agent asks a model provider for a reply,
executes the tool calls of the reply, takes steering messages that arrived meanwhile and goes on
until the model is done, the run is out of steps or money, or somebody cancels it. Around the run
there are saved sessions, delegations to child agents, live sessions in background hosts, a chat
on the terminal, an RPC server, background jobs, automatic improvement, clients of MCP servers,
plugins, learned skills and memories.

This directory holds TLA+ models of the parts of that program where order, failure and concurrency
matter, TLC configurations that check them on small instances, and proofs, checked by TLAPS, of
what matters most for every value of the constants. Paths below are relative to the repository;
the implementation is in `src/`. `PROJECT.json` maps each definition to the lines it models, lists
the hazards found while reading the code, and names a plausible bug for every property that the
property catches.

## 1. Inventory

### Around a run

| Part | Code | State | Operations |
|---|---|---|---|
| Run control | `control.rs` | bounded steering queue behind a lock, a sticky cancel flag | `try_steer`, `cancel`, `drain`, `close` |
| Agent run | `agent.rs`, `agent/step.rs`, `agent/tool.rs`, `agent/lifecycle.rs`, `agent/context.rs` | the step machine, pending calls, results that are in but not recorded, the transcript, spending | the turn loop, batches of calls, hooks, interruption, salvage of pending calls |
| Session tree | `session.rs`, compaction in `agent/context.rs` | nodes with parents, cursor, summaries | append, compact, checkout, rewind, the context of a request |
| Session store | `session/write.rs`, `session/checkpoint.rs`, `session.rs` | files, temporary files, what is on the disk | save, checkpoint, failure at any await |
| Subagents | `subagent.rs`, the handler in `app.rs` | name counter, tasks by name, waits | delegate, start, collect, drop a wait, drop the registry |
| Live sessions | `live/` | per host: attached connection, worker, pseudo terminal, stop and deadline; per terminal: the connection shown and the one asked for | attach, switch, detach, type, output, stop |
| Chat | `tui/chat.rs`, `interactive` in `app.rs` | who holds the agent and the session, the draft, steering sent and prompts queued, events on their way | type, steer, queue, cancel, leave, change session, every end of a run or of the chat |
| Permissions | `permission.rs`, `hook.rs`, `agent/options.rs`, the approvals of `tui/chat.rs` | rules and mode in four copies (configuration, approver, options, the run's), approvals sent, shown and waiting | rules, modes, ask, show, answer, withdraw |
| Todo list | `todo.rs`, `agent/plan.rs` | the list in the session's calls, the run's plan, the screen's | the call, reminders, rewind, resume, compaction |
| Providers | `provider.rs`, `provider/` | attempts, the reply put together from a stream, what was emitted | send, retry, stream, cut off, fall back |
| File tools | `tool/builtin.rs`, `workspace.rs` | a file, text handed over and not yet written | read, write, edit |

### Beside it

| Part | Code | State | Operations |
|---|---|---|---|
| RPC server | `rpc_cli.rs` | the active request, whether input is open, whether it is stopping, the writer's queue | prompt, steer, cancel, save, shutdown, end of input |
| Background jobs | `job.rs` | `job.json`, `exit`, `stopped`, the runner's and the command's processes | start, status, list, stop |
| Automatic improvement | `improve/automatic.rs`, `command/improve/background.rs` | one locked file with the active attempt and each project's counters and latest outcome | count a run, launch, announce, finish, replace a dead attempt, tell |
| Improvement experiments | `improve/`, `command/improve/` | the report, frozen copies, hashes, the reviewed pin | the pipeline, review, approve |
| MCP hub and clients | `mcp/mod.rs`, `mcp/client/` | a client behind a lock, its next id and broken mark, the process outside the lock, the catalog; the table of waiting calls | call, list, restart, time out, shut down; post, read the stream |
| MCP authorization | `mcp/oauth.rs` | one file of records, a lock in each process, the tokens servers still take | sign in, renew, rotate, sign out |
| Plugins | `plugin/` | roots, grants with pinned content, the catalog of an agent | discover, show, approve, revoke, build, run |
| Skills and learning | `skill.rs`, `learn.rs` | a proposed and an installed directory, backups | teach, revise, approve, reject, load |
| Memory | `memory.rs` | one file per memory | remember and replace, forget, recall |
| Imports | `import.rs` | servers, skills, prompts and memories of this program | discover, choose, copy |
| Configuration | `config.rs`, its changes in `command.rs`, `tui/` | the file and each program's copy | load, override, change, save |
| Synapse link | `synapse.rs` | flags in the configuration and a server in the MCP profile | connect, disconnect, undo |

How they interact. The holder of a `RunController` and the run share the queue and the flag (a
lock and a watch channel). The run owns the `Session` while it lasts and hands it back; the caller
(chat, RPC server, delegation, command) saves it afterwards. A delegation is a tool call of a run:
a foreground child is awaited inside the call and dropped with it, a background one is a task in
the registry. A call that needs consent sends a question over a channel to the chat's loop and
waits for the answer. A live host runs the chat as a child process behind a pseudo terminal. All
the rest meet only in files: several programs of one user read and write the same configuration,
profile, records, memories, skills and state, and only improvement's state
file is under a lock that other programs take too.

What is hard, and what makes each part correct:

- **Run.** A cancel may drop the run's future at any await: in an approval, in a hook, half way
  through a batch. Correct means that the transcript is one a provider accepts wherever the run
  stopped, that what ran is never written down as cancelled, that a tool that writes runs alone,
  that steering is delivered once and in order, and that a cancel wins.
- **Steering.** A message accepted while the run decides to end. Correct means that a run that
  reports a final reply has delivered everything it accepted.
- **Tree.** Branches, compactions and moves of the cursor in any order. Correct means that a
  summary speaks of its own branch only, that a request carries the active path, and that a call
  and its result stay together.
- **Store.** Two processes, errors, dropped futures, kills, power loss. Correct means that a
  reader finds one whole version, a reported save stays, and nothing is left behind.
- **Subagents.** A wait for a task that is itself cancelled. Correct means that every task has
  exactly one owner until it is collected, and stops when the registry goes.
- **Live sessions.** Races for the one slot of a session, terminals that go or stop reading, two
  programs that write to each other through bounded buffers. Correct means that what a terminal
  shows it holds, a slot that is left comes free, and a stop stops.
- **Chat.** The session goes off with the run and comes back by a task's result, while events of
  the run, keys and a stop of the host arrive. Correct means one holder at a time, nothing typed
  dropped or said twice, and never a session behind its file.
- **Permissions.** Several runs ask at once, one prompt fits the screen, rules change meanwhile.
  Correct means every question is shown and answered once, to its own call, a call that asked runs
  only on a yes, and nobody waits for a question that is gone, children that outlive the run
  included.
- **Todo list.** Three copies. Correct means they are one, and an open list is brought up once in
  every `PATIENCE` calls.
- **Providers.** A provider fails in mid-stream and another answers; parts of calls arrive mixed.
  Correct means a reply is all of what one provider sent and what was shown is the reply.
- **File tools.** Text lands after a report. Correct means the file is what was last reported.
- **RPC server.** Lines read while a run returns. Correct means one answer per request, after the
  events of its run, and none read after a shutdown.
- **Jobs.** A status looks at several files while the job goes on. Correct means it says only what
  they support, and a job told as over stays over.
- **Improvement.** A worker taken for dead is not; files change between test and approval. Correct
  means an attempt frees only its own slot, a notice is told once, a run counts once as long as it
  is remembered, and what is applied was tested.
- **MCP.** Late answers, streams that end, shutdowns beside a start, two servers renewing at once.
  Correct means a call gets its own answer, what nothing can answer any more ends, no process is
  left behind, and no sign-in is taken back.
- **Files of the user** (configuration, link, memories, imports, skills, plugins). Partial
  failures and stale copies. Correct means what is saved can be loaded, a link is in both files or
  neither, what was learned or imported stays until somebody gives it up, nothing taught reaches a
  session unapproved, and a plugin runs only as it was shown.

### Not modelled

- **Hooks** (`hook/`): what a hook may answer is a choice of `AgentRun`; the process and its limits
  are input and output.
- **Messages, events and prompts**: data types and text. Which roles a provider accepts is what
  `Transcript` checks.
- **Command line and application** (`main.rs`, most of `app.rs` and `command.rs`): dispatch,
  assembly and formatting. The commands that change what is kept are actions of the module of what
  they change.
- **Evaluation harness**: a sequential driver of the program itself. **termweave**: a pure layout
  library. **Site and scripts**: no state of the program.

Parts that are *partly* modelled leave out, beside formats: attention, records and launch of live
sessions; listing, searching and the legacy directory of the store; rollback and the collection of
evidence of improvement; streamable HTTP of MCP (one request per exchange); discovery and
registration of MCP authorization; search, fetch and shell among the tools; prices and embeddings
of providers; ranking and the Synapse backend of memory; host functions and limits of plugins;
display settings and credentials; drawing, pickers and line editing.

## 2. Modules

```
SteeringPromise  <-refines-  AgentRun  -extends->  RunControl
                                            (AgentRunProofs)
SessionTree      (SessionTreeProofs)       runs seen from the conversation
SavedSession     <-refines-  SessionStore  (SessionStoreProofs)
Subagents        (SubagentsProofs)
LiveHost         (LiveHostProofs)
Components  -extends->  Chat Approvals Plan Providers RpcServer McpHub McpSse  (ConversationProofs)
                        Improvement Plugins SynapseLink Memories Imports
                        Skills Settings McpSignIn Files                        (KeptProofs)
                        Jobs AutoImprove                                       (ComponentsProofs)
ComponentsProofs  -extends->  Components KeptProofs ConversationProofs
MC*              constants for TLC, nothing else
```

**RunControl** has one action per half of `try_steer` (the flag is read before the lock is taken),
`cancel`, and the two operations of the run's side, `Drain` and `Close`. A steering message is the
number of its acceptance.

**AgentRun** extends it with the run. `pc` is the await or the hand-over where the run stands; an
action goes from there to the next. `Ask`, `StepReplied` and `StepSteered` are the step machine's
functions; `MayDrive` is the top of the loop with its checkpoint and budget. Calls are known by
their place in the reply. `IsBatch` is the rule that splits calls into batches, `Admit` and
`Refuse` stand for everything that decides about a call, `ToolReturned` takes calls of a batch in
any order. `Interrupt` is the drop of the future by the biased select, `Return` what `run_message`
does after it. `Awaiting` lists where the drop can happen. Nothing is promised of the environment
(`Answer`).

**SteeringPromise** is what a sender can rely on, without the agent: accepted only with room,
delivered all at once, complete if the run reports a final reply.

**SessionTree** keeps for each node the path that walking its parents would find, which cannot
change. A run appears as the messages it appends and the compactions it makes; between runs
`Checkout` and `Rewind` move the cursor. `Start`, `Cuts` and `SummaryRole` are the decisions of
`since_summary`, `compaction_input` and `context`. `covers` is a history of what a summary was
made from. `careful` picks, once for a behaviour, whether a person checks out only messages with
no call left unanswered; the code does not require it.

**SessionStore** is a save, await by await, by several savers, over a file system that keeps
through a power loss what was synced, any part of other data and any first part of a directory's
changes. `Fails`, `Dropped` and `Killed` may come at each step; a file being opened when its
caller goes is created all the same, by the blocking thread. **SavedSession** is the promise: one
whole version at a time, and no power loss takes back a reported one.

**Subagents** is the registry with its delegations; `fresh` picks whether all names come from
`next_name` or a host calls `start` with names of its own.

**LiveHost** is a host's loop, one action per event it takes, the connection tasks with their
bounded queues, the terminals' loop, and the worker as far as the host can tell it apart: it reads
keys, draws, passes a session key on, quits. The loop's `pty.write` is not a step: the host is
`writing` until the worker's side has room. `scene` says who takes part in a behaviour, so that
one run covers a busy host in depth and a race of two terminals in breadth. The switching hosts
are simplified as its comment says (they stay up, and their worker answers every key with a
session key at once), because what happens inside a host is the other scenes' matter.

The eighteen modules below share no variable. **Components** extends all of them, so that one run
checks them and one specification has theorems about them: its variable `part`, chosen in the
initial state, names the component that takes the steps, and `Only(p)` keeps all others as they
began. Its properties that are not a single component's are conjunctions, one conjunct per component
they are about, named in brackets.

- **Chat** (`ChatKeeps`): the loop `run_chat_inner` and `interactive` around it. A session is its
  id and the number of its turns; what is typed is a numbered text. `finish_run`, the loss of a run and
  the ways out of the loop are actions; the run is the task that has the session.
- **Approvals** (`ApprovalsHeard`): `decide` over rules and mode, the copies of the rules, and a
  question's way through channel, screen and queue back to its call. The askers are the run and its
  children: one the run waits for is dropped with it, one in the background goes on, asks after the
  run has ended, and ends with the agent that started it. `Finished` drops every prompt, as
  `finish_run` does. `asks` keeps by whom a call was let through, and `agreed` every question that a
  person said yes to, so that `LetThrough` can tie the two.
- **Plan** (`PlanIsOne`): `opened`, `observe` and `recalled` as in `agent/plan.rs`, and the
  screen's copy as `tui/chat.rs` keeps it.
- **Providers** (`ReplyIsWhole`): one request over a chain of providers, with each dialect's way
  of putting calls together (`Slot`) and the buffer that a fallback needs.
- **Files** (`FileAsReported`, and `EditedIsThere` in a run of its own): a tool's awaits, with the
  blocking thread that still has text to write.
- **RpcServer** (`RpcOneAnswer`): a line is handled in one step, as the code awaits nothing in it;
  the run is its events and its end.
- **Jobs** (`JobVerdicts`): a status is one step per file it looks at, and a stop is a look
  (`JobStop`), a signal (`JobKill`) and a marker (`JobMark`); the runner, the command and a pid that
  is used again move between them, so that the signal may strike another program (`struck`).
- **AutoImprove** (`AutoSchedule`): an update of the locked file is a step; workers live on when
  their attempt was taken for dead. `seen` is the list of the code with its cap, `SeenLimit` for
  128, of which the oldest run is forgotten; `autoCounted` is the history of what was counted.
- **Improvement** (`AppliedIsTested`): the report's fields in the order the pipeline fills them,
  content reduced to whether a file is still what it was, and approval's three tests and two
  changes as steps of their own.
- **McpHub** (`McpExchanges`): one stdio server: lock, ids, broken mark, restarts, and a shutdown
  that does not wait; `mcpShut` remembers what the last shutdown left running and what it found
  starting. **McpSse** (`SseFound`): the table of calls of the older HTTP transport and the task
  that reads the stream. The hub's look at the client (`Checks`) and the entry in the table
  (`Registers`) are two steps, and the stream may end between them; a call may fail, run out of
  time or be dropped, of which only the first takes its entry back.
- **McpSignIn** (`SignInKept`): records of two servers, two connections of one program and a
  command of another, with servers that rotate refresh tokens. `read` may find every record or,
  when it cannot read the file, none (`Loaded`, `Takes`), which a change then writes back.
- **Plugins** (`ApprovedIsShown`): roots that hide each other, grants, and content that changes at
  any moment; what an agent compiles, pins or, of a portable plugin, reads anew is `loaded`, and
  `MayRun` is what may then run of it.
- **Skills** (`SkillsGated`), **Memories** (`MemoryKept`), **Imports** (`ImportOnce`): each
  call one file operation per step, by several callers without locks, failures between. A write is
  two steps, the file opened and so emptied, and its text landed; an open `SKILL.md` moves with its
  directory.
- **Settings** (`SavedIsUsable`): copies of the configuration and every change a screen or a
  command makes of a copy, with the validation it does or does not do. A file that is being written
  may be refused or, as every field has a default, load as one that lacks what is missing.
- **SynapseLink** (`BothOrNeither`): the two files of a connection, their saves and the undo.

`PROJECT.json` lists one mutant of each property. Nine further mutated operations stand beside
theirs for the conjuncts, or the parts of one, that no listed mutant touches
(`owns_process_AnyName`, `CallFails_Kept`, `RemoveProvider_KeepsFallback`, `Present_NoNotes`,
`SkillRevise_AlwaysInstalled`, `Loads_Unchecked`, `LooksFor_Emptied`, `observe_CountsOn`,
`ShowsNext_LeavesWaiting`): put in the place of the operation, each makes TLC find that conjunct
violated.

## 3. What TLC checks

| Run | Question | Bounds |
|---|---|---|
| `agent_run` | the transcript, what was told, writes that run alone, steering, spending, cancel and end hooks, and the refinement of SteeringPromise | 2 senders, queue of 2, 3 messages, 2 steps, 2 calls a reply |
| `agent_run_ends` | a cancel ends the run though nothing outside ever answers; a run whose environment answers ends; batches of three | 1 canceller, 2 steps, 3 calls |
| `agent_run_pause` (violation) | does a run that pauses deliver what it accepted? | 1 message, 1 step, 1 call |
| `session_tree` | summaries, requests and compaction with any moves of the cursor | 7 nodes, 2 calls, 2 summaries, the last 2 messages kept |
| `session_tree_checkout` (violation) | the same for a cursor put in the middle of a round of results | 7 nodes, 1 call, 1 summary |
| `session_store` | whole files, reported saves, clean-up, and the refinement of SavedSession | 2 savers, 3 saves, session and checkpoint |
| `session_store_checkpoint` (violation) | is a reported checkpoint there after a power loss? | the same |
| `subagents` | one owner, addressable, nothing detached, all stopped | 3 delegations, 2 names to a round, 2 callers |
| `live_host` | what is shown is held, slots come free, stop ends the host | 1 busy host with 2 connections; 2 quiet hosts, 2 terminals, 3 connections; queue and pseudo terminal of 1 |
| `live_host_flood` (violation) | does a stop end a host whatever is typed? | the same |
| `components` | each of the eighteen components, with the other programs, failures and edits it meets | below |
| `files_edit` (violation) | does a read after a reported edit find the edited text? | 2 runs, 2 texts |

Why the bounds are enough. *Runs:* two steps have a request after results, after steering and
after a pause; two calls have a batch of each shape and a cancel between them, and three, in the
second run, a batch in the middle of others. The queue is full at two, and three messages leave
one to be refused. *Tree:* seven nodes hold a prompt, a reply with two calls, its results, a
second turn and a branch off it; the second of two summaries is made from the first. *Store:*
three files are two saves that race and one that follows. *Subagents:* with two names to a round
the third has a suffix, and two callers are what a wait that goes back to a taken name needs.
*Live:* with a queue of one each message finds it empty or full, which is what the host tells
apart. The model drops a place in `conns` once nobody knows its token, so three places are three
connections at once and not three in all; three let two terminals that each hold a session ask for
another.

*Components* (`MCComponents.cfg`, 2.2 million states, about four minutes): wherever programs or
calls race there are two of them, and one more than one thing to race for. One caller is enough for
jobs, because a caller changes nothing another looks at but by stopping a job, and processes move by
themselves. Two attempts make a late worker and its successor, and each of the two runs makes one
due; with one run remembered, the second forgets the first. A run that is forgotten and counted
again is a third count; `MaxCounts` is two in the run, and with three TLC finds
`AutoNeverCountsAgain` violated and the properties kept. Three requests are a prompt with a line
during it and one after it, with a steering queue of one, empty or full. Two processes of an MCP
server are one before and one after it broke; three ids are an answer that comes two requests late.
Three tokens are the one that every server begins with and two that are issued: both connections of
one program renew and wait for one lock, one of them at a server that rotates its tokens, while a
command of another program signs in or out. Three skill texts are a text, its revision and a
revision of that, and two seconds tell whether backups collide. Two memories are one that replaces
another; two notes with discovery's limit at one are one it does not see. Two questions of a run and
its child fill the screen and the queue behind it, or are one during the run and one of the child
after its end; of the modes the run begins in `ask` or `auto`, as nothing is asked under
`read_only`, which a child may still have. Two texts, turns and sessions are one under way and one
that waits. The chains have each dialect alone, a fallback that streams and one that does not; two
pieces and two calls of two parts arrive mixed. The layout has one name in three roots, portable, of
a process and bundled, each hidden by the next while that is there; three edits take away what hides
one, change it, and change it again. Five prompts and calls with a patience of two have a reminder,
a change and a compaction after it.

The run names a `VIEW`: states are told apart by `part` and by the variables of that component.
This loses no state, since `Only` keeps the variables of all others as they were chosen in the
initial state and no property looks at a component that does not move.

The code's own limits (32 messages, ten names) are constants and the proofs hold for
all of them. Steps that repeat without end are cut by the constants whose name begins with `Max`
and by `Retries` and `Parts`, each named as a bound where it is declared; a second `ainz stop`,
which would only move the deadline, is left out. Deadlock is checked for the agent, whose end is a
step of its own (`Over`); elsewhere the system may stop when its bounds are used up, or has
nothing to do. The types of the tree, the store, the subagents and the agent are not checked by a
run as they are proved.

**Fairness.** `AgentRun`: weak fairness of `Proceed`, what the runtime can poll on without an
answer from outside. No provider, tool, person or hook need answer; the one property that needs it
says so as its hypothesis (`RunEnds`). `Subagents`: an aborted task stops at its next await.
`LiveHost`: `select!` picks at random among the branches that are ready, so a host that keeps
coming back to it takes a stop, the deadline and the worker's end at last although other branches
are ready each time: that is strong fairness. Writing, drawing and reading go on when they can
(weak), and so do the requests of a connection. Terminals and people have none. `Components`
assumes no fairness: its properties say what may never happen.

**What is found.** Five runs show the program doing other than its documents, comments or tests
say:

- `agent_run_pause`: `docs/architecture.md` (item 5) says that a message cannot be accepted and
  fall between the last turn and the end hooks. That holds of a run that ends on a final reply
  (proved: `FinishedRunDelivers`). A run that pauses at its step limit does not drain again, and a
  message accepted just then is acknowledged and thrown away.
- `session_tree_checkout`: `compaction_input` says a call is never kept without its result. A
  checkout of a message between the results of one reply, a prompt there and a compaction keep
  one.
- `session_store_checkpoint`: `docs/embedding.md` says each save syncs its directory; a
  checkpoint's is not synced, and a reported checkpoint may be gone after a power loss.
- `live_host_flood`: `docs/sessions.md` says `ainz stop` ends the host and its worker. The loop
  awaits the whole of `pty.write`, and the worker draws with blocking writes in the loop that
  reads its keys: with both directions full each waits for the other, and the loop looks at
  neither stop nor SIGTERM nor its deadline any more.
- `files_edit`: `tests/tools.rs:24-48` reads back what an edit wrote. `edit` (`tool/builtin.rs:341`)
  returns after `write_all` on an asynchronous file, which hands the text to a thread; without a
  flush the read that follows may find the file emptied. `workspace::write` flushes.

Stated in the modules, found violated by TLC, and part of no run:

- `JobNeverMistaken` (Jobs; `job.rs:26`, "so a reused pid is never mistaken for ours"): it holds of
  the look. The signal follows in a step of its own (`job.rs:186-189`), and in between the job may
  end and its number be given away; the other group is signalled and the job told as stopped.
- `AutoOneAtATime` (AutoImprove): a worker taken for dead, or launched and not owned any more,
  works beside the next.
- `AutoNeverCountsAgain` (AutoImprove; `docs/improve.md:10-11`, "Repeated saves of the same run do
  not count again"): after 128 other runs they do (`automatic.rs:125-127`).
- `ShutdownEndsAll` (McpHub; `mcp/mod.rs:402-403`, that shutdown ends every stdio server, also one
  stuck on a call): one that is being started has no number yet, its starter holds the client, and
  when the start succeeds it lives on.
- `NoHang` (McpSse; `sse.rs:292-293`): the table is emptied once. A call that registers after that,
  its client found whole before, waits for its deadline.
- `OthersAreKept` (McpSignIn; `mcp/oauth.rs:118-120`): a change that cannot read or parse the file
  takes it for an empty one and writes that back (`mcp/oauth.rs:88-94`), without any other
  program.
- `NeverEmptied` (Settings): a program that starts while another saves, or after one was killed in
  a save, may load the empty file as the default (`config.rs:509-511`) and save that over
  everything.
- `PortableIsShown` (Plugins; `docs/plugins.md:222-225`): of a portable plugin the servers in its
  `mcp.json` and its skills are read when the agent is built (`plugin/catalog.rs:168-188`, `600-693`),
  programs and skills also later, and none is compared with the pin.
- `AcceptedTogether` (Improvement): an approval that stops between `git apply` and the install of
  the skills has accepted one of the two.
- `ReplacedIsKept` (Skills; `learn.rs:137`): two backups in one second, or calls that overlap,
  leave a replaced text nowhere.
- `InstalledStays` (Skills; `learn.rs:237`): of two approvals of one skill, one looks when nothing
  is installed; the other (`approve_from`) makes the directory; the first renames its proposal over
  it, as it is empty; and the other then writes its text over the one that is installed.
- `ImportingTwice` (Imports; `README.md:376`): with more memories stored than discovery compares
  with, a second import stores one again.
- `LastSaveIsLeft` (Chat; the comments at `tui/chat.rs:933` and `1046`, that a lost run and a
  terminal that goes leave the last save): when a run is lost before its session was ever saved, a
  new session takes its place and `current_id` does not follow it (`tui/chat.rs:1055`). What is
  said and saved in that session is looked for under the old id the next time, not found, and an
  empty third session is handed over.
- `ClearedRulesAsk` (Approvals; `docs/permissions.md:69-70`): `/rules clear` leaves the rules in
  the options the next run begins with.

Met while modelling, and shown by no run. They are notes of a reader, not results:

- *Run and session.* Results are kept by call id and calls leave the queue by position, so two
  calls of one reply with the same id would share a result (`agent/tool.rs:52`). A summary counts
  toward the budget only at the next turn of the loop (`agent.rs:196`; `docs/providers.md:188`).
  A tail with no place to cut never compacts (`session.rs:194`). Restore looks for a live host and
  then replaces the file (`main.rs:419`).
- *Subagents and jobs.* A child whose save fails ends without `subagent_end` (`app.rs:305`;
  `docs/rpc.md:55`), and one that is dropped has saved nothing (`app.rs:304`; `docs/tools.md:92`
  calls it durable). A host that starts a background task under a name in use detaches the other
  (`subagent.rs:105` against the comment at line 70). The runner starts before `job.json` is
  written (`job.rs:112`).
- *Chat.* `/new` and `/clear` leave the list of todos on the screen (`tui/chat.rs:2160-2174`
  against the comment at line 285). The first ctrl+c after Esc abandons the run. A save that fails
  in `/rename` ends the chat. A run that panics while the host asks the chat to stop does not
  stop it. A prompt with no agent panics (near line 1912); one with an unreadable image stays on
  the screen only.
- *Todo list.* A malformed call unsets the run's plan while the screen keeps it
  (`docs/tools.md:61-67`); a refused or cancelled call is what a resumed session shows; after a
  compaction that takes the call the next run knows no plan.
- *Permissions.* `a` on a bare or compound shell command writes a rule that does not cover it
  (`docs/permissions.md:64-66`). The mode that a run without questions was started in is written
  to the file by a later `remember`. The keys that change the mode change `options` only.
- *Providers.* A chat call cut off at the length limit before its first argument part becomes a
  call with no arguments.
- *Files of the user.* The lock of MCP authorization is per process (`crossed` in McpSignIn); a
  sign-out during another program's renewal is undone. Grants of plugins are saved without a lock.
  A plugin changed between discovery and the building of an agent ends the start. Two runs that
  edit one file are not kept apart, and the text of one that was cut off lands later.

## 4. What is proved

Every safety property that a passing run checks, invariant, action property or refinement, is also a
theorem, for every value of the constants: any number of senders, calls, steps, nodes, savers,
delegations, hosts, terminals, callers, programs, servers, texts and every capacity. The proofs
assume of the constants only what their modules state as `ASSUME`: bounds are natural numbers,
positive where the code makes them so, as the number of runs that automatic improvement remembers;
`Preserve >= 2` as `RunOptions::validate` requires; names that stand for nobody or nothing are not
those of somebody; of some roots of plugins one is the last; and the chains, layouts and sign-in
tasks given are of the shape the program builds. TLC evaluates these in the runs. Each invariant
named below was first checked by TLC; the proof has one step per action.

- **AgentRunProofs.** `TypeInv` is `TypeOK` with `BatchInv`: where the run stands, batch,
  admission and running calls lie within the calls still pending, without which `RecordResult`
  could step past the end. `SteeringInv` adds that queue length and `taken` account for every
  accepted message while the queue is open and that a finished run closed it empty;
  `FinishedRunDelivers` and the refinement `RunKeepsThePromise` follow. `OutcomeInv` ties the
  result to the cancel flag and to what the hooks heard: `CancellationWins`,
  `EndHooksHearTheOutcome`. `TypeCorrect` is the type invariant itself. `TranscriptInv` says the
  last message owes exactly the calls from `next` on, so that a reply, a result, steering or the
  salvage of a cancelled run extends the chain: `TranscriptIsAccepted`, `RequestsAreWhole`.
  `KeptInv` gives each call its one report and its kept result, and none to a call still pending;
  with `RecordedInv` for what is in the log already, `EventsMatchTheLog` follows, through every
  place a cancel can strike. `OrderInv` numbers the steering in the log: `SteeringArrivesInOrder`.
  `WritersRunAlone` and `NothingRunsOnceSpent` need `BatchInv` and where the budget is looked at.
- **SessionTreeProofs.** `TreeInv`: each path is its parent's path and the node itself, so a node
  on a path has that path's beginning as its own (`PathsInv`); a round of results still owes one
  (`OwedInv`); summaries cover their path. The second compaction's archive is then again a path.
  `SummariesAreFaithful`, `RequestsCarryThePath`, `TreeTypes`. `ContextInv` adds which message may
  follow which (`EdgeInv`), that a summary never stands for all of a run under way (`SpeaksInv`),
  and, while `careful`, that no round is left open on any path (`WholeInv`):
  `RequestsOpenWithUser`, `RoundsStayWhole`. `RecentTailSurvives` is an action property: whatever
  the tree, a compaction leaves the last `Preserve` messages.
- **SessionStoreProofs.** `StoreInv`: a saver's file is its own and not yet named, every file a
  name has stood for is whole and synced (`HeldInv`: whole is not enough, as a power loss would
  undo it), and what was reported is on the disk (`AckInv`). `SavedFilesAreWhole`,
  `ReportedSavesStay`, the refinement `StoreKeepsThePromise`, `StoreTypes`. `TempsInv` adds that
  an unnamed file has a saver at work on it: `SavesCleanUp`.
- **SubagentsProofs.** `RegistryInv`: registry and waits name background tasks that exist and are
  not collected, and own them exclusively: `OneOwnerHolds`. `NamesInv`: the k-th delegation has
  the k-th name, and `guardian` is injective: `NamesDifferHolds`. `HeldInv`: a task not collected
  is where its own name says, or waited for by a caller who knows the name: `AddressableHolds`.
  `StopInv` goes on after the registry is gone, when every background task has ended or been
  stopped: `NothingDetachedHolds`. `SubagentTypes`.
- **LiveHostProofs.** `ShownSessionsAreHeld`, `LiveTyped`. `GoodConn`: a connection with an
  acceptance in its queue has the slot, or the host let go of it; a request to attach is only ever
  the first of its queue, so none is left in that of a holder. `ShownInv`: connections shown or
  being opened belong to one terminal each and were not closed by it.
- **KeptProofs** is about what is kept in files. `AppliedWasTested`: a passed evaluation ended the
  experiment and no file of it turns back, so what is still as it was frozen was so when it was
  evaluated; how far an approval has come says what it found, as long as nothing it looked at
  changed since; and a patched source matches no experiment's. `OnlyShownRuns`: every grant pins
  content that was described under that name, and an agent's catalog holds what was granted when it
  was made; its bundles, components and processes run the artifact that was pinned. Of a portable
  plugin only the first half is proved, since nothing compares what its agent reads with the pin.
  `LinkIsWhole`: for a connect or disconnect that met no other, `Done` says for each step what both
  files hold. Its other invariants are those of the components below.
- **ConversationProofs** holds the invariants of what is exchanged. `ChatInv`: who holds the
  session, that no holder is behind the file, and that the steering on the screen is what the
  events under way tell of followed by the run's inbox. `ApprovalInv`: questions are in one queue
  of growing numbers, spread over screen, waiting list and channel, and who asks is among them. A
  call that went through says by what, and one that a person let through has its own number and
  call in `agreed`, where only an answer of yes puts it. Only a run that is over, or a child that
  is none, is known to ask nothing: a child goes on asking when the run has returned.
  `PlanInv`: a run's open list is the last one unless something later could have changed it, and
  calls and reminders count up to each other. `ProvidersInv`: text, calls and buffer are those of
  the current attempt alone. `RpcInv`: lines are numbered as sent, the prompt under way is the one
  request read and not decided, and shutdown and close are last. `HubInv`: whoever holds the
  client holds its lock and at most its own process lives; what a shutdown left was being started
  when it looked. `SseInv`: ids are used once, the table has the calls under way while the stream
  is read, and afterwards only one that registered late; any other entry is a dropped call's.
- **ComponentsProofs** proves jobs (`JobsInv`: what a status call has passed over it will not find
  again, and a job told as stopped is gone and had a group signalled for it: its own, or one that
  its number was given to) and automatic improvement (`AutoInv`: a worker ends only its own attempt,
  an outcome not told yet has been heard by nobody, and the remembered runs are the last that were
  counted, so one counted again was forgotten), and puts everything together. `StepIsOfPart`: a step
  of `Components` is a step of one part and a stutter of each other; so `EveryInv`, the conjunction
  of the parts' invariants, is inductive. From it: `EverythingTyped`, `WorkIsTold`,
  `RequestsAnswered`, `ServersAnswered`, `AccessIsKept`, `LearnedIsKept`, `ConsentIsAsked`,
  `SessionIsWhole`, `RepliesAreWhole`. Of files: `MemoryInv` (a memory goes only when the one that
  replaces it is settled), `ImportInv` (while importers do not meet, a memory found absent is stored
  once, and what an import left whole stays so until it is chosen again), `SkillInv` (what is
  installed or loaded is, or is part of, a text that was approved or corrects one; while no two
  calls meet it is the last of them, whole unless a write is under way or was cut off),
  `SettingsInv` (every copy parses, and a file that was saved from a sound copy is usable),
  `SignInInv` (until two processes cross, one task has the file, its copy is the file unless it
  could not read it, what each server's last change left is there unless it was wiped so, and a
  rotating token is carried by one), `FilesInv` (of changes that do not meet, one is under way and
  the file is where it left it).

Two invariants of the chat were not inductive as first written, and each time the code was the
reason: the last event under way may be the one that tells of a cancel, which no steering answers
to; and `current_id` does not follow a session that replaces a lost one, which became
`LastSaveIsLeft` (section 3).

Model-checked only: what needs fairness (`CancelEndsTheRun`, `RunEnds`, `ChildrenStop`,
`SlotComesFree`, `StopEnds`), and the violations. Liveness, `ENABLED`, what a recursive definition
computes for every input, and modules with RECURSIVE operators are out of the prover's reach; the
modules have none of those operators.

## 5. Limits of the models

Text, sizes and formats are left out, and so are messages that are turned away before any shared
state is read (empty or oversized steering). Call ids are taken to be distinct within a reply, as
a provider's are. In `SessionTree` the moment of compaction is any request with something to
archive, not a count of tokens. The mesh registration of children is left out. In `LiveHost` the
attention messages, the host's record and its launch are left out, and the worker's link to the
host is always up; a stop that never reaches the worker is covered by the worker not quitting,
which it never has to.

In `Approvals` subjects that are paths, which are normalized first, are left out. In `Improvement`
a hash is the content it is of, and content is told apart only by whether it changed. `McpHub` and
`McpSse` follow one server. `Settings` keeps of a configuration what can make it unusable:
providers, models, fallbacks and how a provider is tuned. In `Chat` a file that was written can be
read; what a save may do otherwise is the store's matter. `Memories`, `Skills` and `Imports` take
a rename as one step and a write as two. Components are checked one at a time: what they share is
only files of which each has its own model.

## 6. What is left

1. `LiveHost` with attention (viewing, unseen), the hosts' records and launch.
2. Streamable HTTP and the discovery dialogue of MCP authorization; rollback of improvements; the
   host functions of plugins.
3. Proofs: refinements of abstract specifications for components other than the run and the
   store, a jobs or an RPC promise among them; what `careful` and `fresh` leave out, as theorems
   of how far the other histories go.

## 7. Running

```
tlc -workers 2 -config MCAgentRun.cfg MCAgentRun
tlc -workers 2 -config MCComponents.cfg MCComponents
tlapm AgentRunProofs.tla
```

Each run of section 3 is a pair of a module and a `.cfg` named in `PROJECT.json`; the longest
takes about four minutes. The eight proof modules take from one minute to eight each.

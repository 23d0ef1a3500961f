--------------------------------- MODULE Plugins ---------------------------------
(***************************************************************************)
(* Plugins (plugin/catalog.rs and the runtimes): what a workspace offers is*)
(* found under several roots, a later one hiding an earlier one of the same*)
(* name; a person approves what a listing showed, which pins its content;  *)
(* an agent is built from what is approved and rechecks what it runs.      *)
(***************************************************************************)
EXTENDS Naturals

CONSTANTS
  Layout,      \* where there are plugins: <<root, name>> -> the runtime there
  Contents,    \* what a directory, and an artifact, may contain
  MaxEdits     \* bound of the model: how often a file is changed

PluginPlaces == DOMAIN Layout
(* Roots come in an order and are few: of some places one is the last.     *)
ASSUME LayoutAssumption ==
  \A places \in SUBSET PluginPlaces :
    places # {} => \E last \in places : \A other \in places : other[1] <= last[1]
ASSUME EditsAssumption == 1 \in Contents /\ MaxEdits \in Nat
PluginNames == {place[2] : place \in PluginPlaces}
NoContent == [tree |-> 0, artifact |-> 0]
NoPlugin == [place |-> <<0, "none">>, pinned |-> NoContent, approved |-> FALSE]

VARIABLES
  plugged,     \* the files: place -> what is in its directory, or NoContent
  edits,
  grants,      \* plugins.json: name -> <<place's runtime, fingerprint>>, or NoGrant
  command,     \* ainz plugins approve or revoke
  agentBuild,  \* an agent: none, discovered, or built
  catalog,     \* the catalog it was built from: name -> plugin or NoPlugin
  trusting,    \* it was built with --yeet
  loaded,      \* its tools: name -> the content compiled or pinned, or 0
  ran,         \* history: what its tools last ran, by name
  described    \* history: fingerprints a person was shown and approved, by name

pluginVars == <<plugged, edits, grants, command, agentBuild, catalog, trusting, loaded, ran, described>>

NoGrant == <<"none", NoContent>>
NoPluginCommand == [step |-> "none", name |-> "none", pinned |-> NoGrant, read |-> [n \in PluginNames |-> NoGrant]]
Unplugged == [n \in PluginNames |-> NoPlugin]

(* The whole directory; an artifact may also lie outside of it, which only *)
(* a process plugin's may.                                                 *)
PluginFiles(place) ==
  {c \in [tree : Contents, artifact : Contents] : Layout[place] = "process" \/ c.artifact = c.tree}

PluginsInit ==
  /\ plugged = [place \in PluginPlaces |-> [tree |-> 1, artifact |-> 1]]
  /\ edits = 0
  /\ grants = [n \in PluginNames |-> NoGrant]
  /\ command = NoPluginCommand
  /\ agentBuild = "none" /\ catalog = Unplugged /\ trusting = FALSE
  /\ loaded = [n \in PluginNames |-> 0]
  /\ ran = [n \in PluginNames |-> 0]
  /\ described = [n \in PluginNames |-> {}]

(* Somebody edits a plugin, takes it away or brings it.                    *)
PluginEdited ==
  /\ edits < MaxEdits
  /\ \E place \in PluginPlaces : \E files \in PluginFiles(place) \union {NoContent} :
       plugged[place] # files /\ plugged' = [plugged EXCEPT ![place] = files]
  /\ edits' = edits + 1
  /\ UNCHANGED <<grants, command, agentBuild, catalog, trusting, loaded, ran, described>>
-----------------------------------------------------------------------------
(* What cannot be read or does not validate is an issue of its own and is  *)
(* as if it were not there; it never hides the others.                     *)
Found(place) == plugged[place] # NoContent

fingerprint(place) == <<Layout[place], plugged[place]>>

(* discover: the last root that has the name provides it, approved when the*)
(* name's grant is this very content's.                                    *)
discovered ==
  [n \in PluginNames |->
     LET roots == {place \in PluginPlaces : place[2] = n /\ Found(place)}
         last == CHOOSE place \in roots : \A other \in roots : other[1] <= place[1]
     IN  IF roots = {} THEN NoPlugin
         ELSE [place |-> last, pinned |-> plugged[last], approved |-> grants[n] = fingerprint(last)]]

(* The command discovers and prints what it is about to trust.             *)
ShowsPlugin ==
  /\ command.step = "none"
  /\ \E n \in PluginNames :
       /\ discovered[n] # NoPlugin
       /\ command' = [NoPluginCommand EXCEPT !.step = "shown", !.name = n,
                        !.pinned = <<Layout[discovered[n].place], discovered[n].pinned>>]
       /\ described' = [described EXCEPT ![n] = @ \union {<<Layout[discovered[n].place], discovered[n].pinned>>}]
  /\ UNCHANGED <<plugged, edits, grants, agentBuild, catalog, trusting, loaded, ran>>

(* approve_with pins what was shown in a fresh copy of the grants.         *)
approve_with ==
  /\ command.step = "shown"
  /\ command' = [command EXCEPT !.step = "saves", !.read = [grants EXCEPT ![command.name] = command.pinned]]
  /\ UNCHANGED <<plugged, edits, grants, agentBuild, catalog, trusting, loaded, ran, described>>

revoke_with ==
  /\ command.step = "none"
  /\ \E n \in PluginNames :
       command' = [NoPluginCommand EXCEPT !.step = "saves", !.name = n, !.read = [grants EXCEPT ![n] = NoGrant]]
  /\ UNCHANGED <<plugged, edits, grants, agentBuild, catalog, trusting, loaded, ran, described>>

(* save replaces the file, or fails and leaves it as it was.               *)
GrantsSaved ==
  /\ command.step = "saves"
  /\ \/ grants' = command.read
     \/ UNCHANGED grants
  /\ command' = NoPluginCommand
  /\ UNCHANGED <<plugged, edits, agentBuild, catalog, trusting, loaded, ran, described>>
-----------------------------------------------------------------------------
(* make_agent_parts: with --yeet everything found counts as approved, and  *)
(* nothing of it is written.                                               *)
AgentDiscovers ==
  /\ agentBuild \in {"none", "built"}
  /\ \E yeet \in BOOLEAN :
       /\ trusting' = yeet
       /\ catalog' = [n \in PluginNames |-> [discovered[n] EXCEPT !.approved = @ \/ (yeet /\ discovered[n] # NoPlugin)]]
  /\ agentBuild' = "discovered"
  /\ loaded' = [n \in PluginNames |-> 0]
  /\ ran' = [n \in PluginNames |-> 0]
  /\ UNCHANGED <<plugged, edits, grants, command, described>>

Runtime(n) == Layout[catalog[n].place]
Now(n) == plugged[catalog[n].place].artifact

(* Mutant: what is compiled is what is there.                              *)
Loads_Unchecked(n) ==
  IF Runtime(n) = "process" THEN catalog[n].pinned.artifact ELSE Now(n)

(* A bundle or component is read again when it is loaded, and must still   *)
(* be what was pinned; 0 where it is not.  A process is only pinned.  The  *)
(* servers of a portable plugin are what its mcp.json says by now, and none*)
(* without one.                                                            *)
Loads(n) ==
  CASE Runtime(n) = "process" -> catalog[n].pinned.artifact
    [] Runtime(n) = "portable" -> Now(n)
    [] OTHER -> IF Now(n) = catalog[n].pinned.artifact THEN Now(n) ELSE 0

(* merge_mcp, approved_tools: one with tools that has changed since ends   *)
(* the whole start, and so does a servers file that no longer parses.      *)
AgentBuilt ==
  /\ agentBuild = "discovered"
  /\ LET approved == {n \in PluginNames : catalog[n].approved}
         changed(n) == plugged[catalog[n].place] # catalog[n].pinned
     IN  \/ /\ \A n \in approved : Runtime(n) # "portable" => Loads(n) # 0
            /\ agentBuild' = "built"
            /\ loaded' = [n \in PluginNames |-> IF n \in approved THEN Loads(n) ELSE 0]
            /\ UNCHANGED catalog
         \/ /\ \E n \in approved : IF Runtime(n) = "portable" THEN changed(n) ELSE Loads(n) = 0
            /\ agentBuild' = "none" /\ catalog' = Unplugged /\ UNCHANGED loaded
  /\ UNCHANGED <<plugged, edits, grants, command, trusting, ran, described>>

(* execute: the program of a process plugin is read and compared on every  *)
(* call, and what is then started is taken to be what was compared; a      *)
(* bundle's bytes are in memory.  Of a portable plugin a server is started *)
(* as its file said when the agent was built, a program or a skill in its  *)
(* directory is taken as it is now, and neither is compared.               *)
MayRun(n) ==
  CASE Runtime(n) = "process" -> {Now(n)} \intersect {loaded[n]}
    [] Runtime(n) = "portable" -> {loaded[n], Now(n)} \ {0}
    [] OTHER -> {loaded[n]}

ToolRuns ==
  /\ agentBuild = "built"
  /\ \E n \in PluginNames :
       /\ loaded[n] # 0
       /\ \E content \in MayRun(n) : ran' = [ran EXCEPT ![n] = content]
  /\ UNCHANGED <<plugged, edits, grants, command, agentBuild, catalog, trusting, loaded, described>>

PluginsNext ==
  \/ PluginEdited \/ ShowsPlugin \/ approve_with \/ revoke_with \/ GrantsSaved
  \/ AgentDiscovers \/ AgentBuilt \/ ToolRuns

PluginsSpec == PluginsInit /\ [][PluginsNext]_pluginVars
-----------------------------------------------------------------------------
PluginsTypeOK ==
  /\ edits \in 0 .. MaxEdits /\ trusting \in BOOLEAN
  /\ command.step \in {"none", "shown", "saves"} /\ agentBuild \in {"none", "discovered", "built"}
  /\ \A n \in PluginNames :
       loaded[n] \in Contents \union {0} /\ ran[n] \in Contents \union {0}

(* Approval covers what a person was shown, however files change between   *)
(* the listing, the grant, the next start and a call: every grant is for   *)
(* content that was shown under that name; an agent that does not trust    *)
(* everything has, of each plugin, found what was shown and approved; and  *)
(* of one with tools of its own it runs nothing else, from the runtime it  *)
(* was approved for.                                                       *)
ApprovedIsShown ==
  /\ \A n \in PluginNames : grants[n] # NoGrant => grants[n] \in described[n]
  /\ ~trusting =>
       \A n \in PluginNames :
         /\ catalog[n].approved => <<Runtime(n), catalog[n].pinned>> \in described[n]
         /\ ran[n] # 0 /\ Runtime(n) # "portable" =>
              \E shown \in described[n] : shown[1] = Runtime(n) /\ shown[2].artifact = ran[n]

(* docs/plugins.md:222-225: an approval covers "every regular file [...]   *)
(* beneath the plugin directory", and "Changing any of them returns the    *)
(* plugin to pending": of a portable plugin too runs only what was shown.  *)
PortableIsShown ==
  ~trusting =>
    \A n \in PluginNames :
      ran[n] # 0 /\ Runtime(n) = "portable" => \E shown \in described[n] : shown[2].artifact = ran[n]
=============================================================================

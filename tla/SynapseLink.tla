----------------------------- MODULE SynapseLink -----------------------------
(***************************************************************************)
(* The connection to Synapse (synapse.rs) is kept in two files: the flags  *)
(* of the configuration and a server of the MCP profile (mcp/mod.rs).      *)
(* Programs load both, change their copies and write them back, the        *)
(* profile through one temporary file and a rename.                        *)
(***************************************************************************)
EXTENDS Naturals, FiniteSets

CONSTANTS
  Linkers,      \* programs that may be at it at once
  OtherServers, \* other servers of the profile
  MaxLinkCalls  \* bound of the model: calls begun

ASSUME LinkCallsAssumption == MaxLinkCalls \in Nat

VARIABLES
  linkFlags,    \* the configuration file's flags, or TornFlags
  linkProfile,  \* the profile file
  linkTemp,     \* the profile's temporary file, or NoTemp
  linkCalls,    \* each program's call
  linkSaid,     \* how the last call to end did
  linkBegun     \* calls begun

linkVars == <<linkFlags, linkProfile, linkTemp, linkCalls, linkSaid, linkBegun>>

Flags == [enabled : BOOLEAN, mesh : BOOLEAN, shared : BOOLEAN]   \* shared: memory.backend
DefaultFlags == [enabled |-> FALSE, mesh |-> FALSE, shared |-> FALSE]
TornFlags == [torn |-> TRUE]   \* a write of the configuration that did not end
Entries == {"absent", "bridge", "foreign"}   \* the server named synapse
McpProfiles == [synapse : Entries, others : SUBSET OtherServers]
NoTemp == [synapse |-> "nothing"]
NoLink == [op |-> "none", step |-> "idle"]

LinkInit ==
  /\ linkFlags = DefaultFlags
  /\ linkProfile \in [synapse : {"absent", "foreign"}, others : {{}}]
  /\ linkTemp = NoTemp
  /\ linkCalls = [c \in Linkers |-> NoLink]
  /\ linkSaid = "none"
  /\ linkBegun = 0

(* Config::load fails on a torn file or, as every field has a default,     *)
(* takes what is missing of it for the default.                            *)
LoadedFlags == IF linkFlags = TornFlags THEN DefaultFlags ELSE linkFlags

LinkOps == {"connect", "disconnect", "profile", "flags"}

(* A call and what it found.  Its `alone` is a history: no other call was  *)
(* under way since it began.                                               *)
LinkBegins(c, op, flags) ==
  /\ linkCalls[c].step = "idle" /\ linkBegun < MaxLinkCalls
  /\ linkCalls' = [d \in Linkers |->
       IF d = c
       THEN [op |-> op, step |-> IF op = "flags" THEN "config" ELSE "load", flags |-> flags,
             found |-> linkProfile, profile |-> linkProfile,
             at |-> <<linkFlags, linkProfile>>,
             alone |-> \A e \in Linkers : linkCalls[e].step = "idle"]
       ELSE IF linkCalls[d].step = "idle" THEN linkCalls[d] ELSE [linkCalls[d] EXCEPT !.alone = FALSE]]
  /\ linkBegun' = linkBegun + 1
  /\ linkSaid' = "none"
  /\ UNCHANGED <<linkFlags, linkProfile, linkTemp>>

LinkGoes(c, call) == linkCalls' = [linkCalls EXCEPT ![c] = call] /\ linkSaid' = "none"
LinkEnds(c, said) == linkCalls' = [linkCalls EXCEPT ![c] = NoLink] /\ linkSaid' = said
-----------------------------------------------------------------------------
(* connect: the copy of the flags changes first.  A command that is not    *)
(* found ends it there.                                                    *)
Connects(c) ==
  \E mesh, shared \in BOOLEAN :
    LinkBegins(c, "connect", [enabled |-> TRUE, mesh |-> mesh \/ LoadedFlags.mesh,
                              shared |-> shared \/ LoadedFlags.shared])

Disconnects(c) == LinkBegins(c, "disconnect", DefaultFlags)

(* synapse enable, disable, mesh, memory backend, and the rows of the      *)
(* settings screen that change one flag: the profile stays as it is.       *)
FlagChanges ==
  LET flags == LoadedFlags
  IN  {[flags EXCEPT !.enabled = TRUE], [flags EXCEPT !.mesh = FALSE],
       [flags EXCEPT !.enabled = TRUE, !.mesh = TRUE],
       [flags EXCEPT !.enabled = TRUE, !.shared = TRUE], [flags EXCEPT !.shared = FALSE],
       DefaultFlags}
SetsFlags(c) == \E flags \in FlagChanges : LinkBegins(c, "flags", flags)

(* mcp add and remove, an import, and the screen of servers change the     *)
(* profile alone.                                                          *)
EditsProfile(c) == LinkBegins(c, "profile", LoadedFlags)

(* McpProfile::load.  It may fail; and a foreign server named synapse is   *)
(* neither replaced nor removed by connect and disconnect.                 *)
ProfileChanges(op, profile) ==
  CASE op = "connect" -> {[profile EXCEPT !.synapse = "bridge"]}
    [] op = "disconnect" -> {[profile EXCEPT !.synapse = "absent"]}
    [] OTHER -> {[profile EXCEPT !.others = others] : others \in SUBSET OtherServers}
                \union {[profile EXCEPT !.synapse = entry] : entry \in {"absent", "foreign"}}
LoadsProfile(c) ==
  LET call == linkCalls[c]
  IN  /\ call.step = "load"
      /\ \/ /\ ~(call.op # "profile" /\ linkProfile.synapse = "foreign")
            /\ \E profile \in ProfileChanges(call.op, linkProfile) :
                 LinkGoes(c, [call EXCEPT !.step = "temp", !.found = linkProfile, !.profile = profile])
         \/ LinkEnds(c, "err")
      /\ UNCHANGED <<linkFlags, linkProfile, linkTemp, linkBegun>>

(* save_to: the temporary file, then its rename over the profile.  Two     *)
(* saves at once share the file: the first rename publishes what is in it  *)
(* and leaves none for the second.                                         *)
WritesTemp(c) ==
  LET call == linkCalls[c]
      text == IF call.step = "temp" THEN call.profile ELSE call.found
      next == IF call.step = "temp" THEN "rename" ELSE "restore"
  IN  /\ call.step \in {"temp", "retemp"}
      /\ \/ linkTemp' = text /\ LinkGoes(c, [call EXCEPT !.step = next])
         \/ linkTemp' \in {linkTemp, NoTemp} /\ LinkEnds(c, IF next = "rename" THEN "err" ELSE "unrestored")
      /\ UNCHANGED <<linkFlags, linkProfile, linkBegun>>

Renames(c) ==
  LET call == linkCalls[c]
      last == call.step = "restore" \/ call.op = "profile"
  IN  /\ call.step \in {"rename", "restore"}
      /\ \/ /\ linkTemp # NoTemp
            /\ linkProfile' = linkTemp /\ linkTemp' = NoTemp
            /\ IF last THEN LinkEnds(c, IF call.step = "restore" THEN "err" ELSE "ok")
               ELSE LinkGoes(c, [call EXCEPT !.step = "config"])
         \/ /\ LinkEnds(c, IF call.step = "restore" THEN "unrestored" ELSE "err")
            /\ UNCHANGED <<linkProfile, linkTemp>>
      /\ UNCHANGED <<linkFlags, linkBegun>>

(* Mutant: an error of the save is returned at once.                       *)
SavesFlags_NoRestore(c) ==
  LET call == linkCalls[c]
  IN  /\ call.step = "config"
      /\ \/ linkFlags' = call.flags /\ LinkEnds(c, "ok")
         \/ linkFlags' \in {linkFlags, TornFlags} /\ LinkEnds(c, "err")
      /\ UNCHANGED <<linkProfile, linkTemp, linkBegun>>

(* The configuration is saved last.  When that fails, which may leave the  *)
(* file torn, the profile that was found is saved again.                   *)
SavesFlags(c) ==
  LET call == linkCalls[c]
  IN  /\ call.step = "config"
      /\ \/ linkFlags' = call.flags /\ LinkEnds(c, "ok")
         \/ /\ linkFlags' \in {linkFlags, TornFlags}
            /\ IF call.op = "flags" THEN LinkEnds(c, "err")
               ELSE LinkGoes(c, [call EXCEPT !.step = "retemp"])
      /\ UNCHANGED <<linkProfile, linkTemp, linkBegun>>

(* The program ends in between.                                            *)
LinkLost(c) ==
  /\ linkCalls[c].step # "idle"
  /\ LinkEnds(c, "lost")
  /\ UNCHANGED <<linkFlags, linkProfile, linkTemp, linkBegun>>

LinkNext ==
  \E c \in Linkers :
    \/ Connects(c) \/ Disconnects(c) \/ SetsFlags(c) \/ EditsProfile(c) \/ LoadsProfile(c)
    \/ WritesTemp(c) \/ Renames(c) \/ SavesFlags(c) \/ LinkLost(c)

LinkSpec == LinkInit /\ [][LinkNext]_linkVars
-----------------------------------------------------------------------------
LinkTypeOK ==
  /\ linkFlags \in Flags \union {TornFlags}
  /\ linkProfile \in McpProfiles /\ linkTemp \in McpProfiles \union {NoTemp}
  /\ \A c \in Linkers : linkCalls[c].step # "idle" =>
       linkCalls[c].op \in LinkOps /\ linkCalls[c].flags \in Flags /\ linkCalls[c].found \in McpProfiles
  /\ linkSaid \in {"none", "ok", "err", "unrestored", "lost"}
  /\ linkBegun \in 0 .. MaxLinkCalls

(* Both records or neither: with no other call in between, a connection    *)
(* or a disconnection that is reported is in both files, and one that      *)
(* failed left the profile as it found it and the flags as they were, or   *)
(* torn by their own write, unless it says that the profile could not be   *)
(* restored.                                                               *)
BothOrNeither ==
  [][\A c \in Linkers :
       LET call == linkCalls[c]
       IN  call.step # "idle" /\ linkCalls'[c].step = "idle" /\ call.alone =>
             /\ linkSaid' = "ok" /\ call.op = "connect" =>
                  linkFlags'.enabled /\ linkProfile'.synapse = "bridge"
             /\ linkSaid' = "ok" /\ call.op = "disconnect" =>
                  ~linkFlags'.enabled /\ linkProfile'.synapse = "absent"
             /\ linkSaid' = "err" =>
                  linkProfile' = call.at[2] /\ linkFlags' \in {call.at[1], TornFlags}]_linkVars
=============================================================================

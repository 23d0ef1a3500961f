------------------------------- MODULE Settings -------------------------------
(***************************************************************************)
(* The configuration file (config.rs) and everything that changes it: the  *)
(* setup screens, the settings screen and the providers and models         *)
(* commands.  Each program loads the whole file into a copy, changes the   *)
(* copy and writes the copy back over the file; nothing is locked.         *)
(* Providers, models and how a provider is tuned are kept; a profile's own *)
(* model is any model, and the rest of the file is left out.               *)
(***************************************************************************)
EXTENDS Naturals, FiniteSets

CONSTANTS
  Programs,     \* programs that may hold a copy at once
  Providers,    \* names of providers
  ModelNames,   \* names of models
  MaxChanges    \* bound of the model: changes made to copies

VARIABLES
  configFile,   \* NoFile, Cut, or the configuration it holds
  copies,       \* each program's copy
  configPast    \* history: see SettingsInit

settingsVars == <<configFile, copies, configPast>>

None == "none"
ASSUME SettingsAssumption ==
  /\ Providers # {} /\ ModelNames # {} /\ None \notin Providers \union ModelNames
  /\ MaxChanges \in Nat
NoFile == [file |-> "none"]
Cut == [file |-> "cut"]       \* a write that has not ended or never did
NoProfile == [kind |-> "none"]
Tunings == {"none", "effort", "thinking"}   \* reasoning_effort, thinking_tokens
Profiles == [kind : {"http", "process"}, wire : {"chat", "responses", "messages"},
             tuned : Tunings, models : SUBSET ModelNames]

(* Config::default names no provider, which stands for its own endpoint,   *)
(* and no model.                                                           *)
DefaultConfig == [provider |-> None, model |-> None, fallback |-> {},
                  profiles |-> [name \in Providers |-> NoProfile]]
Configured(config) == {name \in Providers : config.profiles[name] # NoProfile}

(* ProviderConfig::validate.                                               *)
ProfileIsValid(profile) ==
  /\ profile.tuned = "effort" => profile.wire = "responses"
  /\ profile.tuned = "thinking" => profile.wire = "messages"
  /\ profile.kind = "process" => profile.wire = "chat"

(* Config::validate.                                                       *)
ConfigIsValid(config) ==
  /\ config.model # None
  /\ config.provider # None => config.provider \in Configured(config)
  /\ config.fallback \subseteq Configured(config)
  /\ \A name \in config.fallback \union ({config.provider} \ {None}) :
       ProfileIsValid(config.profiles[name])

Holds(config) == [file |-> "whole", config |-> config]
NoCopy == [step |-> "closed", config |-> DefaultConfig, sound |-> FALSE, partly |-> FALSE]

(* A file that earlier runs left: every provider added, one in use.        *)
PlainProfile == [kind |-> "http", wire |-> "chat", tuned |-> "none", models |-> ModelNames]
EarlierConfig == [provider |-> CHOOSE name \in Providers : TRUE,
                  model |-> CHOOSE model \in ModelNames : TRUE,
                  fallback |-> {}, profiles |-> [name \in Providers |-> PlainProfile]]

(* configPast: changes made, whether a copy that was never valid was       *)
(* written, whether one was that was loaded from part of a file, and       *)
(* whether a write was cut short or met another.                           *)
SettingsInit ==
  /\ configFile \in {NoFile, Holds(EarlierConfig)}
  /\ copies = [c \in Programs |-> NoCopy]
  /\ configPast = [changes |-> 0, unsound |-> FALSE, emptied |-> FALSE,
                   cut |-> FALSE]
-----------------------------------------------------------------------------
(* Config::load, and what the environment and the command line put over    *)
(* it: a model, or a provider by name, or the endpoint in place of one.    *)
(* A file that does not parse is an error.  Every field has a default, so a*)
(* file that was cut off parses if it is empty or ends at the right place: *)
(* what is left of it is not told from the default here, and the copy is   *)
(* marked.                                                                 *)
Overrides == [model : ModelNames, provider : {None}]
             \union [model : {None}, provider : Providers \union {None, "endpoint"}]
Overridden(config, given) ==
  [config EXCEPT
     !.model = IF given.model = None THEN @ ELSE given.model,
     !.provider = CASE given.provider = None -> @
                    [] given.provider = "endpoint" -> None
                    [] OTHER -> given.provider]

Loadable == IF configFile.file = "whole" THEN configFile.config ELSE DefaultConfig

ConfigLoads(c) ==
  /\ copies[c].step = "closed"
  /\ \E given \in Overrides :
       LET config == Overridden(Loadable, given)
       IN  copies' = [copies EXCEPT ![c] =
             [step |-> "open", config |-> config, sound |-> ConfigIsValid(config),
              partly |-> configFile = Cut]]
  /\ UNCHANGED <<configFile, configPast>>

(* A change of the copy, which is to be saved next.                        *)
Changes(c, config) ==
  /\ copies[c].step = "open" /\ configPast.changes < MaxChanges
  /\ copies' = [copies EXCEPT ![c] =
       [step |-> "changed", config |-> config, sound |-> @.sound \/ ConfigIsValid(config),
        partly |-> @.partly]]
  /\ configPast' = [configPast EXCEPT !.changes = @ + 1]
  /\ UNCHANGED configFile

With(config, name, profile) == [config EXCEPT !.profiles[name] = profile]
Serves(profile, model) == [profile EXCEPT !.models = @ \union {model}]

(* setup, on lines or on screens: a preset, a custom provider or one that  *)
(* is configured, with the models its endpoint lists or none, becomes the  *)
(* active provider with the chosen model.                                  *)
Setup(c) ==
  LET config == copies[c].config
      fresh == {profile \in Profiles : profile.tuned = "none"}
  IN  \E name \in Providers, model \in ModelNames :
        \E profile \in fresh \union ({config.profiles[name]} \ {NoProfile}) :
          /\ ProfileIsValid(profile)
          /\ Changes(c, [With(config, name, Serves(profile, model))
                           EXCEPT !.provider = name, !.model = model])

SetFallback(c) ==
  \E names \in SUBSET Configured(copies[c].config) :
    Changes(c, [copies[c].config EXCEPT !.fallback = names])

AddProvider(c) ==
  \E name \in Providers \ Configured(copies[c].config), profile \in Profiles :
    ProfileIsValid(profile) /\ Changes(c, With(copies[c].config, name, profile))

(* Mutant: the name stays among the fallbacks.                             *)
RemoveProvider_KeepsFallback(c) ==
  LET config == copies[c].config
  IN  \E name \in Configured(config) \ {config.provider} : Changes(c, With(config, name, NoProfile))

RemoveProvider(c) ==
  LET config == copies[c].config
  IN  \E name \in Configured(config) \ {config.provider} :
        Changes(c, [With(config, name, NoProfile) EXCEPT !.fallback = @ \ {name}])

(* Use: the model that is given, or the profile's own; else the one in use *)
(* when the profile serves it or lists none, or the first it lists.        *)
UsableModels(config, profile) ==
  IF config.model # None /\ (profile.models = {} \/ config.model \in profile.models)
  THEN {config.model}
  ELSE profile.models

UseProvider(c) ==
  LET config == copies[c].config
  IN  \E name \in Configured(config) :
        \/ \E model \in ModelNames :
             \E profile \in {config.profiles[name], Serves(config.profiles[name], model)} :
               Changes(c, [With(config, name, profile) EXCEPT !.provider = name, !.model = model])
        \/ \E model \in UsableModels(config, config.profiles[name]) :
             Changes(c, [config EXCEPT !.provider = name, !.model = model])

(* models --refresh takes what the endpoint lists now, the model in use or *)
(* not; add and remove change one name.                                    *)
RefreshModels(c) ==
  LET config == copies[c].config
  IN  \E name \in Configured(config), models \in SUBSET ModelNames :
        /\ config.profiles[name].kind = "http"
        /\ Changes(c, With(config, name, [config.profiles[name] EXCEPT !.models = models]))

AddModel(c) ==
  LET config == copies[c].config
  IN  \E name \in Configured(config), model \in ModelNames :
        Changes(c, With(config, name, Serves(config.profiles[name], model)))

RemoveModel(c) ==
  LET config == copies[c].config
  IN  \E name \in Configured(config) : \E model \in config.profiles[name].models :
        /\ ~(config.provider = name /\ config.model = model)
        /\ Changes(c, With(config, name, [config.profiles[name] EXCEPT !.models = @ \ {model}]))

(* The settings screen: the wire of the active provider, which drops the   *)
(* tuning another wire had, and its effort.                                *)
Retuned(profile, wire) ==
  [profile EXCEPT !.wire = wire,
     !.tuned = IF <<@, wire>> \in {<<"effort", "responses">>, <<"thinking", "messages">>} THEN @ ELSE "none"]
TuneProvider(c) ==
  LET config == copies[c].config
      profile == config.profiles[config.provider]
  IN  /\ config.provider \in Configured(config)
      /\ \E tuned \in {Retuned(profile, wire) : wire \in {"chat", "responses", "messages"}}
                      \union {[profile EXCEPT !.tuned = "effort"]}
                      \union (IF profile.tuned = "effort" THEN {[profile EXCEPT !.tuned = "none"]} ELSE {}) :
           ProfileIsValid(tuned) /\ Changes(c, With(config, config.provider, tuned))
-----------------------------------------------------------------------------
(* save_to: the file is cut to nothing and then written.  One that fails   *)
(* before that, or a settings screen that ends in an error, leaves the     *)
(* change in the copy.                                                     *)
SaveBegins(c) ==
  /\ copies[c].step = "changed"
  /\ configFile' = Cut
  /\ copies' = [copies EXCEPT ![c].step = "writing"]
  /\ UNCHANGED configPast

SaveFails(c) ==
  /\ copies[c].step = "changed"
  /\ copies' = [copies EXCEPT ![c].step = "open"]
  /\ UNCHANGED <<configFile, configPast>>

(* Written over what another program wrote meanwhile, a shorter text       *)
(* leaves the end of the longer one.                                       *)
SaveEnds(c) ==
  /\ copies[c].step = "writing"
  /\ configFile' \in {Holds(copies[c].config)} \union (IF configFile = Cut THEN {} ELSE {Cut})
  /\ copies' = [copies EXCEPT ![c].step = "open"]
  /\ configPast' = [configPast EXCEPT
       !.unsound = @ \/ ~copies[c].sound,
       !.emptied = @ \/ copies[c].partly,
       !.cut = @ \/ configFile' = Cut]

(* The program ends, or is killed.                                         *)
ConfigCloses(c) ==
  /\ copies[c].step # "closed"
  /\ copies' = [copies EXCEPT ![c] = NoCopy]
  /\ configPast' = [configPast EXCEPT !.cut = @ \/ copies[c].step = "writing"]
  /\ UNCHANGED configFile

SettingsNext ==
  \E c \in Programs :
    \/ ConfigLoads(c) \/ Setup(c) \/ SetFallback(c) \/ AddProvider(c) \/ RemoveProvider(c)
    \/ UseProvider(c) \/ RefreshModels(c) \/ AddModel(c) \/ RemoveModel(c) \/ TuneProvider(c)
    \/ SaveBegins(c) \/ SaveFails(c) \/ SaveEnds(c) \/ ConfigCloses(c)

SettingsSpec == SettingsInit /\ [][SettingsNext]_settingsVars
-----------------------------------------------------------------------------
Configs == [provider : Providers \union {None}, model : ModelNames \union {None},
            fallback : SUBSET Providers, profiles : [Providers -> Profiles \union {NoProfile}]]
SettingsTypeOK ==
  /\ configFile \in {NoFile, Cut} \/ configFile.config \in Configs
  /\ \A c \in Programs : copies[c].config \in Configs
  /\ configPast.changes \in 0 .. MaxChanges

(* No sequence of setup, settings and commands, in any number of programs  *)
(* with stale copies of each other's file, makes a configuration that      *)
(* could run unusable: what is saved can be loaded and passes validate,    *)
(* unless it comes from a copy that never did (a first file, or an         *)
(* override that names no provider) or that was loaded from part of a file.*)
(* Only a write that was cut short or met another leaves a file that is    *)
(* not whole.                                                              *)
SavedIsUsable ==
  /\ configFile.file = "whole" =>
       ConfigIsValid(configFile.config) \/ configPast.unsound \/ configPast.emptied
  /\ configFile = Cut => configPast.cut \/ \E c \in Programs : copies[c].step = "writing"

(* That a file is never saved from part of itself does not hold: a program *)
(* that starts while another saves, or after one was killed saving, may    *)
(* load an empty file as the default, and save that over everything.       *)
NeverEmptied == ~configPast.emptied
=============================================================================

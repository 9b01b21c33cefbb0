------------------------------- MODULE Launch -------------------------------
(***************************************************************************)
(* How the settings of server.toml reach the engine: main.py reads and     *)
(* checks them and becomes, by exec, one of three launchers: the demo's    *)
(* own, the update's (mac_update_start.py), or the project's               *)
(* start_update_with_compat.py, which hands the settings on through the    *)
(* environment to gemma_update_gateway.py.  Each stage is another process  *)
(* and validates what it was given again.                                  *)
(*                                                                         *)
(* Times are in half milliseconds, enough to tell truncation to whole      *)
(* milliseconds; where the seconds of the code, which are floats, come out *)
(* beside the exact number is a parameter.  The machine, the files a check *)
(* looks for, the models and the text of the prompt document may refuse a  *)
(* launch at any stage.                                                    *)
(***************************************************************************)
EXTENDS Integers

CONSTANTS Configs, \* the settings to launch with
          Lossy,   \* whole milliseconds of which int(seconds * 1000) loses one
          Heavy    \* pairs of times whose sum comes out above the exact one

(* 1.001 * 1000 comes out below 1001, the first whole time that does.  *)
ASSUME LaunchAssumption == \A time \in Lossy : time \in Int /\ time > 2 /\ time % 2 = 0

VARIABLES
  lncConfig,   \* server.toml
  lncAt,       \* the stage that runs
  lncWhy,      \* why a launch was refused
  lncEnv,      \* the MYVOTE_* variables
  lncChanged,  \* an engine file of the update differs from the manifest
  lncLoaded,   \* the engine code that was imported: its own, listed or changed
  lncHas       \* what is installed in the running gateway

launchVars == <<lncConfig, lncAt, lncWhy, lncEnv, lncChanged, lncLoaded, lncHas>>

Seconds(n) == 2000 * n
Unset == -1
Keys == {"selection", "translation", "hold", "total", "interval", "idle"}

(* The defaults of read_config, and those of the installed modules. *)
ConfigDefaults == [selection |-> Seconds(5), translation |-> Seconds(15), hold |-> Seconds(12),
                   total |-> Seconds(45), interval |-> 3000, idle |-> 0]
ModuleDefaults == [selection |-> Seconds(5), translation |-> Seconds(15), hold |-> Seconds(12),
                   total |-> Seconds(45), interval |-> 3000, idle |-> 0]
Given(times, defaults) ==
  [k \in Keys |-> IF times[k] = Unset THEN defaults[k] ELSE times[k]]
NoTimes == [k \in Keys |-> Unset]

Smaller(m, n) == IF m < n THEN m ELSE n

(* The selection prompt: its policy, and the document it is taken from. *)
Official == <<"official", "none">>
(* Nothing of the project's modules is installed. *)
Plain == [schema |-> FALSE, prompt |-> Official, refined |-> FALSE, quality |-> FALSE,
          low |-> FALSE, idle |-> FALSE, metrics |-> FALSE, times |-> NoTimes]
NoEnv == [prompt |-> "none", refined |-> FALSE, quality |-> FALSE, low |-> FALSE,
          times |-> NoTimes]

LaunchInit ==
  /\ lncConfig \in Configs
  /\ lncAt = "config" /\ lncWhy = "none" /\ lncEnv = NoEnv
  /\ lncChanged = FALSE /\ lncLoaded = "none" /\ lncHas = Plain

Refuse(why) ==
  /\ lncAt' = "refused" /\ lncWhy' = why
  /\ UNCHANGED <<lncConfig, lncEnv, lncChanged, lncLoaded, lncHas>>
Proceed(stage) == lncAt' = stage /\ UNCHANGED lncWhy

-----------------------------------------------------------------------------
(* read_config. *)
Exceeds(t, limit) ==
  \/ t.selection + t.translation > limit
  \/ t.selection + t.translation = limit /\ <<t.selection, t.translation>> \in Heavy

WithinLimits(t) ==
  /\ \A k \in Keys \ {"idle"} : 2 <= t[k] /\ t[k] <= Seconds(120)
  /\ 0 <= t.idle /\ t.idle < t.total
  /\ ~Exceeds(t, Smaller(Seconds(120), t.total))
  /\ t.hold <= t.total /\ t.interval < t.total

Accepts(c) ==
  /\ c.quality => c.refined
  /\ c.refined => c.prompt
  /\ c.low => c.quality
  /\ WithinLimits(Given(c.times, ConfigDefaults))
  /\ c.times.idle > 0 => c.quality
  /\ c.schema => c.update
  /\ c.gemma => c.update /\ c.safe
  /\ c.prompt => c.gemma /\ c.schema

ReadConfig ==
  /\ lncAt = "config"
  /\ IF Accepts(lncConfig)
     THEN Proceed("check") /\ UNCHANGED <<lncConfig, lncEnv, lncChanged, lncLoaded, lncHas>>
     ELSE Refuse("config")

(* check, which binds the address and the port, and the exec of main: the  *)
(* environment goes along, with what a user or an earlier launch left in   *)
(* it.                                                                     *)
Stale == [prompt |-> "old", refined |-> TRUE, quality |-> TRUE, low |-> TRUE,
          times |-> [NoTimes EXCEPT !.selection = Seconds(1)]]
Inherited(names) == [k \in DOMAIN NoEnv |-> IF k \in names THEN Stale[k] ELSE NoEnv[k]]

Exec ==
  /\ lncAt = "check"
  /\ \/ lncConfig.net = "mistyped" /\ Refuse("network")
     \/ /\ lncConfig.net # "mistyped"
        /\ Proceed(IF ~lncConfig.update THEN "boot"
                   ELSE IF lncConfig.schema THEN "compat" ELSE "update")
        /\ \E names \in SUBSET DOMAIN NoEnv : lncEnv' = Inherited(names)
        /\ UNCHANGED <<lncConfig, lncChanged, lncLoaded, lncHas>>

(* mac_update_start.main: verify_update, then the bootstrap. *)
UpdateStart ==
  /\ lncAt = "update"
  /\ IF lncChanged THEN Refuse("files")
     ELSE Proceed("boot") /\ UNCHANGED <<lncConfig, lncEnv, lncChanged, lncLoaded, lncHas>>

-----------------------------------------------------------------------------
(* start_update_with_compat.main.  Its options are the settings that main  *)
(* put on the command line: timings only with quality_first.               *)
(* Variant bug: the low latency flag of an earlier launch stays.           *)
ClearedButLatency(env) == [NoEnv EXCEPT !.low = env.low]
Cleared(env) == NoEnv

Consistent(c) ==
  /\ c.low => c.quality
  /\ c.quality => c.refined
  /\ c.refined => c.prompt

Exported(c, env) ==
  [prompt |-> IF c.prompt THEN "new" ELSE env.prompt,
   refined |-> c.refined \/ env.refined,
   quality |-> c.quality \/ env.quality,
   low |-> (c.quality /\ c.low) \/ env.low,
   times |-> IF c.quality THEN c.times ELSE env.times]

CompatStart ==
  /\ lncAt = "compat"
  /\ \/ lncChanged /\ Refuse("files")
     \/ ~lncChanged /\ ~Consistent(lncConfig) /\ Refuse("settings")
     \/ /\ ~lncChanged /\ Consistent(lncConfig)
        /\ lncEnv' = Exported(lncConfig, Cleared(lncEnv))
        /\ Proceed("boot")
        /\ UNCHANGED <<lncConfig, lncChanged, lncLoaded, lncHas>>

(* validate_translation_options; the bootstrap of the demo has none.       *)
ProfileFits(c) == c.update /\ ~c.gemma => ~c.named

(* parse_args, and main of mac_demo_setup, which starts the gateway as a   *)
(* child.                                                                  *)
Bootstrap ==
  /\ lncAt = "boot"
  /\ IF lncConfig.net # "host" THEN Refuse("network")
     ELSE IF ~lncConfig.safe THEN Refuse("model")
     ELSE IF ~ProfileFits(lncConfig) THEN Refuse("name")
     ELSE Proceed("verify") /\ UNCHANGED <<lncConfig, lncEnv, lncChanged, lncLoaded, lncHas>>

-----------------------------------------------------------------------------
(* The gateway: mac_update_gateway.py and gemma_update_gateway.py verify   *)
(* the update again.                                                       *)
Verify ==
  /\ lncAt = "verify"
  /\ IF lncConfig.update /\ lncChanged THEN Refuse("files")
     ELSE Proceed("import") /\ UNCHANGED <<lncConfig, lncEnv, lncChanged, lncLoaded, lncHas>>

(* VerifiedEngineFinder: what is compiled is what the manifest lists, even *)
(* if a file changed after it was verified.  The demo imports its package. *)
Import ==
  /\ lncAt = "import"
  /\ IF lncConfig.update /\ lncChanged THEN Refuse("files")
     ELSE /\ lncLoaded' = IF lncConfig.update THEN "listed" ELSE "own"
          /\ Proceed("install")
          /\ UNCHANGED <<lncConfig, lncEnv, lncChanged, lncHas>>

(* gemma_update_gateway.main. *)
PromptOf(env) ==
  IF env.low THEN <<"low", "none">> ELSE IF env.quality THEN <<"quality", "none">>
  ELSE IF env.prompt = "none" THEN Official
  ELSE <<IF env.refined THEN "extended" ELSE "as it is", env.prompt>>

(* install_quality_provider and install_quality_policy. *)
ProviderAllows(t) ==
  /\ \A k \in {"selection", "translation"} : 0 < t[k] /\ t[k] <= Seconds(120)
  /\ ~Exceeds(t, Seconds(120))
PolicyAllows(t) ==
  /\ t.hold <= t.total /\ ~Exceeds(t, t.total)
  /\ t.interval < t.total /\ 0 <= t.idle /\ t.idle < t.total

(* install_gateway_metadata is given the policy's times as the policy      *)
(* reported them, in whole milliseconds, and the others as they are.       *)
Whole(time) == IF time \in Lossy THEN time - 2 ELSE 2 * (time \div 2)
MetadataAllows(t) ==
  /\ 2 <= Whole(t.interval) /\ 2 <= Whole(t.hold)
  /\ Whole(t.hold) <= Whole(t.total)
  /\ t.idle < Whole(t.total)
  /\ ~Exceeds(t, Whole(t.total))

Allowed(env) ==
  LET t == Given(env.times, ModuleDefaults)
  IN  /\ env.low => env.quality
      /\ env.quality => env.refined /\ env.prompt # "none"
      /\ env.quality => ProviderAllows(t) /\ PolicyAllows(t) /\ MetadataAllows(t)

Installed(env) ==
  LET t == Given(env.times, ModuleDefaults)
  IN  [schema |-> TRUE, prompt |-> PromptOf(env), refined |-> env.refined,
       quality |-> env.quality, low |-> env.low,
       idle |-> env.quality /\ t.idle > 0,
       metrics |-> env.low /\ t.idle = 0,
       times |-> IF env.quality THEN t ELSE NoTimes]

Install ==
  /\ lncAt = "install"
  /\ LET compat == lncConfig.update /\ lncConfig.schema
     IN  IF compat /\ ~Allowed(lncEnv) THEN Refuse("settings")
         ELSE /\ lncHas' = IF compat THEN Installed(lncEnv) ELSE Plain
              /\ Proceed("running")
              /\ UNCHANGED <<lncConfig, lncEnv, lncChanged, lncLoaded>>

-----------------------------------------------------------------------------
(* Something outside the settings refuses the launch. *)
Outside ==
  /\ lncAt \in {"check", "update", "compat", "boot", "install"}
  /\ Refuse("outside")

(* Somebody updates the update while it starts. *)
FileChanges ==
  /\ lncAt \in {"compat", "update", "boot", "verify", "import", "install"} /\ lncConfig.update
  /\ ~lncChanged /\ lncChanged' = TRUE
  /\ UNCHANGED <<lncConfig, lncAt, lncWhy, lncEnv, lncLoaded, lncHas>>

LaunchNext ==
  \/ ReadConfig \/ Exec \/ UpdateStart \/ CompatStart \/ Bootstrap
  \/ Verify \/ Import \/ Install \/ Outside \/ FileChanges

LaunchSpec == LaunchInit /\ [][LaunchNext]_launchVars

-----------------------------------------------------------------------------
(* What server.toml asks for. *)
Wanted(c) ==
  IF ~c.schema THEN Plain
  ELSE [schema |-> TRUE,
        prompt |-> IF c.low THEN <<"low", "none">> ELSE IF c.quality THEN <<"quality", "none">>
                   ELSE IF c.refined THEN <<"extended", "new">>
                   ELSE IF c.prompt THEN <<"as it is", "new">> ELSE Official,
        refined |-> c.refined, quality |-> c.quality, low |-> c.low,
        idle |-> c.times.idle > 0, metrics |-> c.low /\ c.times.idle <= 0,
        times |-> IF c.quality THEN Given(c.times, ConfigDefaults) ELSE NoTimes]

(* The milliseconds of the total budget, truncated, are too few. *)
RoundedAway(c) ==
  LET t == Given(c.times, ConfigDefaults)
  IN  c.quality /\ (t.idle >= Whole(t.total) \/ Exceeds(t, Whole(t.total)))

(* A gateway that runs has exactly what server.toml asks for, whatever the *)
(* environment it was started in, and the code the manifest lists.  And    *)
(* settings read_config accepts are refused later in four cases only: by   *)
(* the gateway, a total budget that covers the requests and the inactivity *)
(* but not once it was truncated to milliseconds; by the check or the      *)
(* bootstrap, an address that is no single host's or a number of the wrong *)
(* type, and in the generic profile a model ID with blanks and, of the     *)
(* update, one that names TranslateGemma.  Of these the last three never   *)
(* run.                                                                    *)
RunsAsConfigured ==
  /\ lncAt = "running" =>
       /\ lncHas = Wanted(lncConfig)
       /\ lncLoaded = IF lncConfig.update THEN "listed" ELSE "own"
       /\ lncConfig.net = "host" /\ lncConfig.safe /\ ProfileFits(lncConfig)
  /\ lncWhy = "settings" => RoundedAway(lncConfig)
  /\ lncWhy = "network" => lncConfig.net # "host"
  /\ lncWhy = "model" => ~lncConfig.gemma /\ ~lncConfig.safe
  /\ lncWhy = "name" => lncConfig.update /\ ~lncConfig.gemma /\ lncConfig.named
=============================================================================

------------------------------ MODULE DemoSetup ------------------------------
(***************************************************************************)
(* scripts/mac_demo_setup.py: what a launcher does before it starts the    *)
(* gateway: check the assets, make and fill the virtual environment,       *)
(* download and verify the speech model, move it to its place file by      *)
(* file, and look at everything once more.  Several launchers may share    *)
(* the folder, and each may be killed anywhere and started again with      *)
(* other options.                                                          *)
(*                                                                         *)
(* A file of the model is absent, the user's own ("own"), unusable         *)
(* ("bad"), or the pinned release ("pinned").  The staging folder is       *)
(* private to its launcher.                                                *)
(***************************************************************************)
EXTENDS Integers, Sequences

CONSTANTS
  Launchers,
  MaxLaunches   \* bound: launches in all

VARIABLES
  setAt, setOpts,   \* where each launcher is, and its options
  setVenv,          \* .venv: absent, half (no python yet), made
  setDeps,          \* its packages: none, some, all
  setAsr,           \* models/whisper-turbo
  setUser,          \* history: what the user put there, if anything
  setMoved,         \* how many files each launcher has moved
  setLaunches

setupVars == <<setAt, setOpts, setVenv, setDeps, setAsr, setUser, setMoved, setLaunches>>
disk == <<setVenv, setDeps, setAsr, setUser>>

Order == <<"config", "weights", "notes">>   \* ASR_FILES, and what comes with them
NoFolder == [dir |-> FALSE, config |-> "absent", weights |-> "absent", notes |-> "absent"]
UserFolders == {[dir |-> TRUE, config |-> c, weights |-> w, notes |-> "absent"] :
                  c \in {"own", "bad"}, w \in {"own", "absent"}}

SetupInit ==
  /\ setAt = [l \in Launchers |-> "off"]
  /\ setOpts = [l \in Launchers |-> [install |-> FALSE, download |-> FALSE]]
  /\ setVenv = "absent" /\ setDeps = "none"
  /\ setAsr = NoFolder /\ setUser = NoFolder
  /\ setMoved = [l \in Launchers |-> 0] /\ setLaunches = 0

At(l, stage) == setAt[l] = stage
Goto(l, stage) == setAt' = [setAt EXCEPT ![l] = stage] /\ UNCHANGED <<setOpts, setLaunches>>
Fail(l) == Goto(l, "off") /\ UNCHANGED <<disk, setMoved>>
Step(l, stage) == Goto(l, stage) /\ UNCHANGED <<disk, setMoved>>

Run(l) ==
  /\ At(l, "off") /\ setLaunches < MaxLaunches
  /\ setAt' = [setAt EXCEPT ![l] = "assets"] /\ setLaunches' = setLaunches + 1
  /\ \E install, download \in BOOLEAN :
       setOpts' = [setOpts EXCEPT ![l] = [install |-> install, download |-> download]]
  /\ UNCHANGED <<disk, setMoved>>

(* Killed, interrupted, or refused for a reason of the machine; also the   *)
(* end of a gateway.                                                       *)
Stops(l) == ~At(l, "off") /\ Fail(l)

(* validate_asr. *)
ValidAsr == setAsr.dir /\ setAsr.config \in {"own", "pinned"} /\ setAsr.weights # "absent"

(* parse_args, validate_runtime, validate_assets. *)
ValidateAssets(l) ==
  /\ At(l, "assets")
  /\ IF IF setAsr.dir THEN ValidAsr ELSE setOpts[l].download
     THEN Step(l, "venv") ELSE Fail(l)

(* ensure_environment: an environment without its python is not touched. *)
EnsureEnvironment(l) ==
  /\ At(l, "venv")
  /\ \/ setVenv = "made" /\ Step(l, IF setOpts[l].install THEN "pip" ELSE "asr")
     \/ setVenv = "half" /\ Fail(l)
     \/ setVenv = "absent" /\ ~setOpts[l].install /\ Fail(l)
     \/ /\ setVenv = "absent" /\ setOpts[l].install
        /\ setVenv' = "half" /\ Goto(l, "making")
        /\ UNCHANGED <<setDeps, setAsr, setUser, setMoved>>
MakeVenv(l) ==
  /\ At(l, "making")
  /\ setVenv' = "made" /\ Goto(l, "pip")
  /\ UNCHANGED <<setDeps, setAsr, setUser, setMoved>>

(* pip install: the engine's own package is always replaced.  Two of them  *)
(* at once may leave anything.                                             *)
Installing == {l \in Launchers : setAt[l] = "installing"}
PipBegins(l) ==
  /\ At(l, "pip")
  /\ setDeps' = "some" /\ Goto(l, "installing")
  /\ UNCHANGED <<setVenv, setAsr, setUser, setMoved>>
PipEnds(l) ==
  /\ At(l, "installing")
  /\ setDeps' \in IF Installing = {l} THEN {"all"} ELSE {"some", "all"}
  /\ Goto(l, "asr")
  /\ UNCHANGED <<setVenv, setAsr, setUser, setMoved>>

-----------------------------------------------------------------------------
(* download_asr: a release that is not the pinned one never leaves the     *)
(* staging folder.                                                         *)
ChooseAsr(l) ==
  /\ At(l, "asr")
  /\ Step(l, IF setOpts[l].download /\ ~setAsr.dir THEN "fetched" ELSE "look")

(* Variant bug: mkdir(exist_ok=True). *)
MkdirShared(l) ==
  /\ At(l, "fetched")
  /\ setAsr' = [setAsr EXCEPT !.dir = TRUE]
  /\ setMoved' = [setMoved EXCEPT ![l] = 0]
  /\ Goto(l, "moving") /\ UNCHANGED <<setVenv, setDeps, setUser>>

(* destination.mkdir(exist_ok=False). *)
Mkdir(l) ==
  /\ At(l, "fetched")
  /\ \/ setAsr.dir /\ Fail(l)
     \/ /\ ~setAsr.dir
        /\ setAsr' = [NoFolder EXCEPT !.dir = TRUE]
        /\ setMoved' = [setMoved EXCEPT ![l] = 0]
        /\ Goto(l, "moving") /\ UNCHANGED <<setVenv, setDeps, setUser>>

Rename(l) ==
  /\ At(l, "moving") /\ setMoved[l] < Len(Order)
  /\ setAsr' = [setAsr EXCEPT ![Order[setMoved[l] + 1]] = "pinned"]
  /\ setMoved' = [setMoved EXCEPT ![l] = @ + 1]
  /\ Goto(l, IF setMoved[l] + 1 = Len(Order) THEN "look" ELSE "moving")
  /\ UNCHANGED <<setVenv, setDeps, setUser>>

(* The user copies a model folder of his own. *)
UserPlaces ==
  /\ ~setAsr.dir
  /\ \E folder \in UserFolders : setAsr' = folder /\ setUser' = folder
  /\ UNCHANGED <<setAt, setOpts, setVenv, setDeps, setMoved, setLaunches>>

-----------------------------------------------------------------------------
(* validate_asr, then validate_dependencies_and_tls; the models LM Studio  *)
(* lists are the business of Launch.                                       *)
Look(l) == At(l, "look") /\ IF ValidAsr THEN Step(l, "deps") ELSE Fail(l)
Dependencies(l) == At(l, "deps") /\ IF setDeps = "all" THEN Step(l, "models") ELSE Fail(l)
Start(l) == At(l, "models") /\ Step(l, "up")

SetupNext ==
  \/ \E l \in Launchers :
       \/ Run(l) \/ Stops(l) \/ ValidateAssets(l) \/ EnsureEnvironment(l) \/ MakeVenv(l)
       \/ PipBegins(l) \/ PipEnds(l) \/ ChooseAsr(l) \/ Mkdir(l) \/ Rename(l)
       \/ Look(l) \/ Dependencies(l) \/ Start(l)
  \/ UserPlaces

SetupSpec == SetupInit /\ [][SetupNext]_setupVars

-----------------------------------------------------------------------------
(* Whatever other launchers do or left undone: a gateway is started only   *)
(* with a whole speech model, all of it from one source, in a finished     *)
(* environment, and a file of the user's is never replaced.                *)
WholeAsr == setAsr.config \in {"own", "pinned"} /\ setAsr.weights = setAsr.config
StartsWhole ==
  /\ \A l \in Launchers : At(l, "up") => WholeAsr /\ setVenv = "made"
  /\ setUser.dir => setAsr = setUser
=============================================================================

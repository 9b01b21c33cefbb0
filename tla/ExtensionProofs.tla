-------------------------- MODULE ExtensionProofs ---------------------------
(***************************************************************************)
(* Proofs about the launch and the extensions of the engine, a section for *)
(* each: DemoSetup, Launch, BoundaryGenerations, BoundaryLanes and         *)
(* NaturalBoundaries; and, last, about UtteranceSource of the streaming    *)
(* gateway, the one module here whose names carry no prefix.               *)
(***************************************************************************)
EXTENDS DemoSetup, Launch, BoundaryGenerations, BoundaryLanes, NaturalBoundaries,
        UtteranceSource, DequesProofs, FiniteSetTheorems, SequenceTheorems, TLAPS

-----------------------------------------------------------------------------
(* DemoSetup.  A launcher that has looked at the model may start long      *)
(* after, so what it saw must stay: the folder is made once, filled in     *)
(* order by the one launcher that made it, and touched by nobody after.    *)
Working == {"pip", "installing", "asr", "fetched", "moving", "look", "deps", "models", "up"}
SetupStages == {"off", "assets", "venv", "making"} \cup Working

(* The folder after n files have been moved into it. *)
Filled(n) ==
  /\ DOMAIN setAsr = {"dir", "config", "weights", "notes"} /\ setAsr.dir
  /\ setAsr.config = IF n >= 1 THEN "pinned" ELSE "absent"
  /\ setAsr.weights = IF n >= 2 THEN "pinned" ELSE "absent"

(* The folder is missing, the user's, or filled so far by one launcher. *)
OneSource ==
  \/ setUser = NoFolder /\ setAsr = NoFolder
  \/ setUser \in UserFolders /\ setAsr = setUser
  \/ setUser = NoFolder /\ \E n \in 0 .. 3 : Filled(n)

OneMover ==
  /\ \A l \in Launchers : At(l, "moving") =>
       setUser = NoFolder /\ setMoved[l] \in 0 .. 2 /\ Filled(setMoved[l])
  /\ \A l, m \in Launchers : At(l, "moving") /\ At(m, "moving") => l = m

SetupInv ==
  /\ setAt \in [Launchers -> SetupStages] /\ setMoved \in [Launchers -> 0 .. 3]
  /\ OneSource /\ OneMover
  /\ \A l \in Launchers : setAt[l] \in Working => setVenv = "made"
  /\ \A l \in Launchers : setAt[l] \in {"deps", "models", "up"} => WholeAsr

(* How the folder fills, file by file. *)
LEMMA FillMore ==
  ASSUME NEW n \in 0 .. 2, Filled(n), setAsr' = [setAsr EXCEPT ![Order[n + 1]] = "pinned"]
  PROVE  Filled(n + 1)'
<1>0. Order[1] = "config" /\ Order[2] = "weights" /\ Order[3] = "notes"
  BY DEF Order
<1>1. CASE n = 0
  BY <1>0, <1>1 DEF Filled
<1>2. CASE n = 1
  BY <1>0, <1>2 DEF Filled
<1>3. CASE n = 2
  BY <1>0, <1>3 DEF Filled
<1> QED
  BY <1>1, <1>2, <1>3

(* At the start nobody runs and nothing is there. *)
LEMMA InitSetup == SetupInit => SetupInv
BY DEF SetupInit, SetupInv, OneSource, OneMover, NoFolder, UserFolders, At, SetupStages, Working

(* What validate_asr accepts is whole. *)
LEMMA ValidIsWhole == OneSource /\ ValidAsr => WholeAsr
BY DEF OneSource, ValidAsr, WholeAsr, NoFolder, UserFolders, Filled

(* A launcher that moves on, or stops, and leaves the disk alone. *)
LEMMA StepSetup ==
  ASSUME SetupInv, NEW l \in Launchers, NEW goal \in SetupStages,
         setAt' = [setAt EXCEPT ![l] = goal], UNCHANGED <<disk, setMoved>>,
         goal # "moving",
         goal \in Working => setVenv = "made",
         goal \in {"deps", "models", "up"} => WholeAsr
  PROVE  SetupInv'
<1>1. setAt' \in [Launchers -> SetupStages] /\ setMoved' \in [Launchers -> 0 .. 3]
  BY DEF SetupInv
<1>2. OneSource'
  BY DEF SetupInv, OneSource, disk, Filled
<1>3. \A m \in Launchers : setAt'[m] = setAt[m] \/ (m = l /\ setAt'[m] = goal)
  BY DEF SetupInv
<1>4. OneMover'
  BY <1>3 DEF SetupInv, OneMover, disk, At, Filled
<1>5. \A m \in Launchers : setAt'[m] \in Working => setVenv' = "made"
  BY <1>3 DEF SetupInv, disk
<1>6. \A m \in Launchers : setAt'[m] \in {"deps", "models", "up"} => WholeAsr'
  BY <1>3 DEF SetupInv, disk, WholeAsr
<1> QED
  BY <1>1, <1>2, <1>4, <1>5, <1>6 DEF SetupInv

(* The steps of a launcher that only look. *)
LEMMA LookSetup ==
  ASSUME SetupInv, NEW l \in Launchers,
         \/ Run(l) \/ Stops(l) \/ ValidateAssets(l) \/ ChooseAsr(l)
         \/ Look(l) \/ Dependencies(l) \/ Start(l)
  PROVE  SetupInv'
<1>1. UNCHANGED <<disk, setMoved>>
  BY DEF Run, Stops, ValidateAssets, ChooseAsr, Look, Dependencies, Start, Step, Fail
<1>2. PICK goal \in SetupStages : setAt' = [setAt EXCEPT ![l] = goal]
  BY DEF Run, Stops, ValidateAssets, ChooseAsr, Look, Dependencies, Start, Step, Fail, Goto,
     SetupStages, Working
<1>3. /\ setAt[l] \in Working => setVenv = "made"
      /\ setAt[l] \in {"deps", "models"} => WholeAsr
  BY DEF SetupInv
<1>4. goal = setAt'[l]
  BY <1>2 DEF SetupInv
<1>5. goal # "moving" /\ (goal \in Working => setAt[l] \in Working)
  BY <1>4 DEF SetupInv, Run, Stops, ValidateAssets, ChooseAsr, Look, Dependencies, Start, Step,
     Fail, Goto, At, Working
<1>6. goal \in {"deps", "models", "up"} => WholeAsr
  <2>1. Look(l) /\ goal \in {"deps", "models", "up"} => ValidAsr
    BY <1>4 DEF SetupInv, Look, Fail, Goto
  <2>2. ~Look(l) /\ goal \in {"deps", "models", "up"} => setAt[l] \in {"deps", "models"}
    BY <1>4 DEF SetupInv, Run, Stops, ValidateAssets, ChooseAsr, Dependencies, Start, Step,
       Fail, Goto, At
  <2> QED
    BY <1>3, <2>1, <2>2, ValidIsWhole DEF SetupInv
<1> QED
  BY <1>1, <1>2, <1>3, <1>5, <1>6, StepSetup

(* The environment: once made, it stays. *)
LEMMA VenvSetup ==
  ASSUME SetupInv, NEW l \in Launchers,
         EnsureEnvironment(l) \/ MakeVenv(l) \/ PipBegins(l) \/ PipEnds(l)
  PROVE  SetupInv'
<1>1. UNCHANGED <<setAsr, setUser, setMoved>>
  BY DEF EnsureEnvironment, MakeVenv, PipBegins, PipEnds, Step, Fail, disk
<1>2. PICK goal \in SetupStages : setAt' = [setAt EXCEPT ![l] = goal]
  BY DEF EnsureEnvironment, MakeVenv, PipBegins, PipEnds, Step, Fail, Goto, SetupStages, Working
<1>3. goal = setAt'[l] /\ goal \notin {"moving", "deps", "models", "up"}
  BY <1>2 DEF SetupInv, EnsureEnvironment, MakeVenv, PipBegins, PipEnds, Step, Fail, Goto
<1>4. /\ setVenv = "made" => setVenv' = "made"
      /\ goal \in Working => setVenv' = "made"
  <2>1. setAt[l] \in Working => setVenv = "made"
    BY DEF SetupInv
  <2> QED
    BY <1>3, <2>1 DEF SetupInv, EnsureEnvironment, MakeVenv, PipBegins, PipEnds, Step, Fail,
       Goto, At, Working, disk
<1>5. \A m \in Launchers : setAt'[m] = setAt[m] \/ (m = l /\ setAt'[m] = goal)
  BY <1>2 DEF SetupInv
<1>6. setAt' \in [Launchers -> SetupStages] /\ setMoved' \in [Launchers -> 0 .. 3]
  BY <1>1, <1>2 DEF SetupInv
<1>7. OneSource' /\ OneMover'
  BY <1>1, <1>3, <1>5 DEF SetupInv, OneSource, OneMover, At, Filled
<1>8. \A m \in Launchers : setAt'[m] \in Working => setVenv' = "made"
  BY <1>4, <1>5 DEF SetupInv
<1>9. \A m \in Launchers : setAt'[m] \in {"deps", "models", "up"} => WholeAsr'
  BY <1>1, <1>3, <1>5 DEF SetupInv, WholeAsr
<1> QED
  BY <1>6, <1>7, <1>8, <1>9 DEF SetupInv

(* The launcher that makes the folder is the only one that fills it. *)
LEMMA MkdirSetup ==
  ASSUME SetupInv, NEW l \in Launchers, Mkdir(l)
  PROVE  SetupInv'
<1>1. CASE Fail(l)
  BY <1>1, StepSetup DEF Fail, Goto, SetupStages, Working
<1>2. CASE ~setAsr.dir /\ setAsr' = [NoFolder EXCEPT !.dir = TRUE] /\ ~Fail(l)
  <2>1. /\ setAt' = [setAt EXCEPT ![l] = "moving"] /\ setMoved' = [setMoved EXCEPT ![l] = 0]
        /\ setAt[l] = "fetched" /\ UNCHANGED <<setVenv, setUser>>
    BY <1>2 DEF Mkdir, Fail, Goto, At, disk
  <2>2. setUser = NoFolder /\ setAsr = NoFolder /\ Filled(0)'
    <3>1. \A folder \in UserFolders : folder.dir
      BY DEF UserFolders
    <3>2. setUser = NoFolder /\ setAsr = NoFolder
      BY <1>2, <3>1 DEF SetupInv, OneSource, Filled
    <3>3. Filled(0)'
      BY <1>2 DEF Filled, NoFolder
    <3> QED
      BY <3>2, <3>3
  <2>3. \A m \in Launchers : setAt[m] \notin {"moving", "deps", "models", "up"}
    BY <2>2 DEF SetupInv, OneMover, At, Filled, NoFolder, WholeAsr
  <2>4. setAt' \in [Launchers -> SetupStages] /\ setMoved' \in [Launchers -> 0 .. 3]
    BY <2>1 DEF SetupInv, SetupStages, Working
  <2>5. OneSource'
    BY <2>1, <2>2 DEF OneSource
  <2>6. \A m \in Launchers : m # l => setAt'[m] = setAt[m]
    BY <2>1 DEF SetupInv
  <2>7. setAt'[l] = "moving" /\ setMoved'[l] = 0
    BY <2>1 DEF SetupInv
  <2>8. OneMover'
    BY <2>1, <2>2, <2>3, <2>6, <2>7 DEF OneMover, At
  <2>9. \A m \in Launchers : setAt'[m] \in Working => setVenv' = "made"
    BY <2>1, <2>6 DEF SetupInv, Working
  <2>10. \A m \in Launchers : setAt'[m] \notin {"deps", "models", "up"}
    BY <2>3, <2>6, <2>7
  <2> QED
    BY <2>4, <2>5, <2>8, <2>9, <2>10 DEF SetupInv
<1> QED
  BY <1>1, <1>2 DEF Mkdir

(* A file is moved: what was whole stays whole. *)
LEMMA RenameSetup ==
  ASSUME SetupInv, NEW l \in Launchers, Rename(l)
  PROVE  SetupInv'
<1>1. /\ At(l, "moving") /\ setUser = NoFolder /\ setMoved[l] \in 0 .. 2
      /\ Filled(setMoved[l])
  BY DEF SetupInv, OneMover, Rename
<1>2. PICK n \in 0 .. 2 : n = setMoved[l]
  BY <1>1
<1>0. Len(Order) = 3 /\ Order[1] = "config" /\ Order[2] = "weights" /\ Order[3] = "notes"
  BY DEF Order
<1>3. Filled(n + 1)'
  BY <1>1, <1>2, FillMore DEF Rename
<1>4. PICK to \in {"look", "moving"} : setAt' = [setAt EXCEPT ![l] = to] /\ (n = 2 => to = "look")
  <2>1. setAt' = [setAt EXCEPT ![l] = IF n + 1 = Len(Order) THEN "look" ELSE "moving"]
    BY <1>2 DEF Rename, Goto
  <2>2. CASE n = 2
    BY <1>0, <2>1, <2>2
  <2>3. CASE n # 2
    BY <1>0, <2>1, <2>3
  <2> QED
    BY <2>2, <2>3
<1>5. setMoved' = [setMoved EXCEPT ![l] = n + 1] /\ UNCHANGED <<setVenv, setUser>>
  BY <1>2 DEF Rename
<1>6. setAt' \in [Launchers -> SetupStages] /\ setMoved' \in [Launchers -> 0 .. 3]
  BY <1>4, <1>5 DEF SetupInv, SetupStages, Working
<1>7. OneSource'
  BY <1>1, <1>3, <1>5 DEF OneSource
<1>8. /\ \A m \in Launchers : m # l => setAt'[m] = setAt[m]
      /\ setAt'[l] = to /\ setMoved'[l] = n + 1
  BY <1>4, <1>5 DEF SetupInv
<1>9. \A m \in Launchers : At(m, "moving") => m = l
  BY <1>1 DEF SetupInv, OneMover
<1>10. OneMover'
  <2>1. \A m \in Launchers : At(m, "moving")' => m = l /\ n # 2
    BY <1>4, <1>8, <1>9 DEF At
  <2> QED
    BY <1>1, <1>3, <1>5, <1>8, <2>1 DEF OneMover
<1>11. \A m \in Launchers : setAt'[m] \in Working => setVenv' = "made"
  BY <1>1, <1>5, <1>8 DEF SetupInv, At, Working
<1>12. WholeAsr => WholeAsr'
  BY <1>1, <1>2, <1>3 DEF WholeAsr, Filled
<1>13. \A m \in Launchers : setAt'[m] \in {"deps", "models", "up"} => WholeAsr'
  BY <1>8, <1>12 DEF SetupInv
<1> QED
  BY <1>6, <1>7, <1>10, <1>11, <1>13 DEF SetupInv

(* The user brings a folder where none is. *)
LEMMA UserSetup ==
  ASSUME SetupInv, UserPlaces
  PROVE  SetupInv'
<1>1. ~setAsr.dir /\ UNCHANGED <<setAt, setMoved, setVenv>>
  BY DEF UserPlaces
<1>2. setUser' \in UserFolders /\ setAsr' = setUser'
  BY DEF UserPlaces
<1>3. setAsr = NoFolder
  BY <1>1 DEF SetupInv, OneSource, UserFolders, Filled
<1>4. \A m \in Launchers : setAt[m] \notin {"moving", "deps", "models", "up"}
  BY <1>3 DEF SetupInv, OneMover, At, Filled, NoFolder, WholeAsr
<1> QED
  BY <1>1, <1>2, <1>4 DEF SetupInv, OneSource, OneMover, At

(* Every step keeps it. *)
LEMMA NextSetup == SetupInv /\ [SetupNext]_setupVars => SetupInv'
<1> SUFFICES ASSUME SetupInv, [SetupNext]_setupVars PROVE SetupInv'
  OBVIOUS
<1>1. CASE UNCHANGED setupVars
  BY <1>1 DEF setupVars, SetupInv, OneSource, OneMover, At, WholeAsr, Filled
<1> QED
  BY <1>1, LookSetup, VenvSetup, MkdirSetup, RenameSetup, UserSetup DEF SetupNext

(* However many launchers share the folder, wherever they are killed and   *)
(* whatever the user does meanwhile: a gateway starts with a whole model   *)
(* in a finished environment, and no file of the user's is replaced.       *)
THEOREM StartsAreWhole == SetupSpec => []StartsWhole
<1>1. SetupInv => StartsWhole
  BY DEF SetupInv, StartsWhole, OneSource, At, Working, NoFolder, Filled
<1> QED
  BY <1>1, InitSetup, NextSetup, PTL DEF SetupSpec

-----------------------------------------------------------------------------
(* Launch.  Each stage validates again what the stage before it has        *)
(* checked: from "check" on the settings are accepted ones, and from the   *)
(* bootstrap on the environment of the update holds exactly what they ask  *)
(* for, whatever it held before.                                           *)
Flags == {"update", "schema", "gemma", "named", "prompt", "refined", "quality", "low",
          "safe"}
Setting(c) == (\A k \in Flags : c[k] \in BOOLEAN) /\ c.times \in [Keys -> Int]

(* What the environment of the update holds. *)
LEMMA ExportedIs ==
  ASSUME NEW c, Setting(c), Accepts(c)
  PROVE  LET e == Exported(c, NoEnv)
         IN  /\ e.prompt = IF c.prompt THEN "new" ELSE "none"
             /\ e.refined = c.refined
             /\ e.quality = c.quality
             /\ e.low = c.low
             /\ e.times = IF c.quality THEN c.times ELSE NoTimes
<1> DEFINE e == Exported(c, NoEnv)
<1>0. /\ c.refined \in BOOLEAN /\ c.quality \in BOOLEAN /\ c.low \in BOOLEAN /\ c.prompt \in BOOLEAN
      /\ c.low => c.quality
  BY DEF Setting, Flags, Accepts
<1>1. e.prompt = IF c.prompt THEN "new" ELSE "none"
  BY DEF Exported, NoEnv
<1>2. e.refined = c.refined
  BY <1>0 DEF Exported, NoEnv
<1>3. e.quality = c.quality
  BY <1>0 DEF Exported, NoEnv
<1>4. e.low = c.low
  BY <1>0 DEF Exported, NoEnv
<1>5. e.times = IF c.quality THEN c.times ELSE NoTimes
  BY DEF Exported, NoEnv
<1> QED
  BY <1>1, <1>2, <1>3, <1>4, <1>5

(* The times that count. *)
LEMMA GivenIs ==
  ASSUME NEW times \in [Keys -> Int]
  PROVE  /\ Given(times, ConfigDefaults) = Given(times, ModuleDefaults)
         /\ Given(times, ConfigDefaults) \in [Keys -> Int]
         /\ \A k \in Keys : times[k] # Unset => Given(times, ConfigDefaults)[k] = times[k]
         /\ times.idle = Unset => Given(times, ConfigDefaults).idle = 0
<1>1. ConfigDefaults = ModuleDefaults
  BY DEF ConfigDefaults, ModuleDefaults
<1>2. \A k \in Keys : ConfigDefaults[k] \in Int
  BY DEF Keys, ConfigDefaults, Seconds
<1>3. Given(times, ConfigDefaults) \in [Keys -> Int]
  BY <1>2 DEF Given
<1>4. \A k \in Keys : times[k] # Unset => Given(times, ConfigDefaults)[k] = times[k]
  BY DEF Given
<1>5. times.idle = Unset => Given(times, ConfigDefaults).idle = 0
  BY DEF Given, Keys, ConfigDefaults
<1> QED
  BY <1>1, <1>3, <1>4, <1>5

(* Truncation to milliseconds keeps the order, and leaves at least one. *)
LEMMA WholeTimes ==
  ASSUME NEW m \in Int, NEW n \in Int, 0 <= m, m <= n
  PROVE  Whole(m) <= Whole(n) /\ Whole(m) \in Int /\ Whole(m) <= m /\ (2 <= m => 2 <= Whole(m))
<1>1. (m \in Lossy => m > 2 /\ m % 2 = 0) /\ (n \in Lossy => n % 2 = 0)
  BY LaunchAssumption
<1> QED
  BY <1>1 DEF Whole

(* What read_config accepts the gateway allows, unless rounding spoils it. *)
LEMMA AcceptedIsAllowed ==
  ASSUME NEW c, Setting(c), Accepts(c), ~RoundedAway(c)
  PROVE  Allowed(Exported(c, NoEnv))
<1> DEFINE t == Given(c.times, ConfigDefaults)
           e == Exported(c, NoEnv)
<1>1. t \in [Keys -> Int] /\ t = Given(c.times, ModuleDefaults)
  BY GivenIs DEF Setting
<1>2. WithinLimits(t)
  BY DEF Accepts
<1>3. CASE ~c.quality
  BY <1>3, ExportedIs DEF Allowed, Accepts
<1>4. CASE c.quality
  <2>1. e.refined /\ e.prompt # "none" /\ Given(e.times, ModuleDefaults) = t /\ e.quality
    BY <1>1, <1>4, ExportedIs DEF Accepts
  <2>2. /\ t.selection \in Int /\ t.translation \in Int /\ t.hold \in Int
        /\ t.total \in Int /\ t.interval \in Int /\ t.idle \in Int
    BY <1>1 DEF Keys
  <2>3. \A k \in {"selection", "translation", "hold", "total", "interval"} : 2 <= t[k] /\ t[k] <= Seconds(120)
    BY <1>2 DEF WithinLimits, Keys
  <2>30. /\ 2 <= t.selection /\ t.selection <= 240000 /\ 2 <= t.translation /\ t.translation <= 240000
         /\ 2 <= t.hold /\ 2 <= t.total /\ 2 <= t.interval
    BY <2>3 DEF Seconds
  <2>31. 0 <= t.idle /\ t.idle < t.total /\ t.hold <= t.total /\ t.interval < t.total
    BY <1>2 DEF WithinLimits
  <2>32. ~Exceeds(t, Seconds(120)) /\ ~Exceeds(t, t.total)
    <3>1. ~Exceeds(t, Smaller(Seconds(120), t.total)) /\ Seconds(120) \in Int
      BY <1>2 DEF WithinLimits, Seconds
    <3> QED
      BY <2>2, <3>1 DEF Exceeds, Smaller
  <2>4. ProviderAllows(t)
    BY <2>2, <2>30, <2>32 DEF ProviderAllows, Seconds
  <2>5. PolicyAllows(t)
    BY <2>31, <2>32 DEF PolicyAllows
  <2>6. t.idle < Whole(t.total) /\ ~Exceeds(t, Whole(t.total))
    <3>1. Whole(t.total) \in Int
      BY <2>2, <2>30, WholeTimes
    <3> QED
      BY <1>4, <2>2, <3>1 DEF RoundedAway
  <2>7. MetadataAllows(t)
    <3>1. 2 <= Whole(t.interval)
      BY <2>2, <2>30, WholeTimes
    <3>2. 2 <= Whole(t.hold) /\ Whole(t.hold) <= Whole(t.total)
      BY <2>2, <2>30, <2>31, WholeTimes
    <3> QED
      BY <2>6, <3>1, <3>2 DEF MetadataAllows
  <2> QED
    BY <2>1, <2>4, <2>5, <2>7 DEF Allowed
<1> QED
  BY <1>3, <1>4

(* What the environment makes the gateway install is what was asked for. *)
LEMMA InstalledIsWanted ==
  ASSUME NEW c, Setting(c), Accepts(c), c.schema
  PROVE  Installed(Exported(c, NoEnv)) = Wanted(c)
<1> DEFINE t == Given(c.times, ConfigDefaults)
           e == Exported(c, NoEnv)
           u == Given(e.times, ModuleDefaults)
<1>0. /\ c.refined \in BOOLEAN /\ c.quality \in BOOLEAN /\ c.low \in BOOLEAN /\ c.prompt \in BOOLEAN
      /\ c.low => c.quality
      /\ c.quality => c.refined
      /\ c.refined => c.prompt
      /\ c.times.idle > 0 => c.quality
      /\ c.times.idle \in Int /\ c.times \in [Keys -> Int]
  BY DEF Setting, Flags, Accepts, Keys
<1>1. t \in [Keys -> Int] /\ t = Given(c.times, ModuleDefaults) /\ 0 <= t.idle
      /\ (t.idle = c.times.idle \/ (c.times.idle = -1 /\ t.idle = 0))
  <2>1. t \in [Keys -> Int] /\ t = Given(c.times, ModuleDefaults)
    BY <1>0, GivenIs
  <2>2. 0 <= t.idle
    BY DEF Accepts, WithinLimits
  <2>3. t.idle = c.times.idle \/ (c.times.idle = -1 /\ t.idle = 0)
    BY <1>0, GivenIs DEF Keys, Unset
  <2> QED
    BY <2>1, <2>2, <2>3
<1>2. e.prompt = (IF c.prompt THEN "new" ELSE "none") /\ e.refined = c.refined
      /\ e.quality = c.quality /\ e.low = c.low
      /\ e.times = IF c.quality THEN c.times ELSE NoTimes
  BY ExportedIs
<1>3. c.quality => u = t
  BY <1>1, <1>2
<1>4. PromptOf(e) = IF c.low THEN <<"low", "none">> ELSE IF c.quality THEN <<"quality", "none">>
                   ELSE IF c.refined THEN <<"extended", "new">>
                   ELSE IF c.prompt THEN <<"as it is", "new">> ELSE Official
  BY <1>0, <1>2 DEF PromptOf
<1>5. (e.quality /\ u.idle > 0) <=> (c.times.idle > 0)
  BY <1>0, <1>1, <1>2, <1>3
<1>6. (e.low /\ u.idle = 0) <=> (c.low /\ c.times.idle <= 0)
  BY <1>0, <1>1, <1>2, <1>3
<1>7. (IF e.quality THEN u ELSE NoTimes) = (IF c.quality THEN t ELSE NoTimes)
  BY <1>2, <1>3
<1> HIDE DEF t, e, u
<1>8. Installed(e) = [schema |-> TRUE, prompt |-> PromptOf(e), refined |-> c.refined,
       quality |-> c.quality, low |-> c.low,
       idle |-> e.quality /\ u.idle > 0,
       metrics |-> e.low /\ u.idle = 0,
       times |-> IF e.quality THEN u ELSE NoTimes]
  BY <1>2 DEF Installed, u
<1>9. Wanted(c) = [schema |-> TRUE, prompt |-> PromptOf(e), refined |-> c.refined,
       quality |-> c.quality, low |-> c.low,
       idle |-> c.times.idle > 0,
       metrics |-> c.low /\ c.times.idle <= 0,
       times |-> IF e.quality THEN u ELSE NoTimes]
  BY <1>4, <1>7 DEF Wanted, t
<1>10. (e.quality /\ u.idle > 0) = (c.times.idle > 0)
  BY <1>5
<1>11. (e.low /\ u.idle = 0) = (c.low /\ c.times.idle <= 0)
  BY <1>6, Zenon
<1>12. Installed(e) = Wanted(c)
  BY <1>8, <1>9, <1>10, <1>11, Zenon
<1> QED
  BY <1>12 DEF e

Importing == {"install", "running"}
Exporting == {"boot", "verify", "import"} \cup Importing
Checked == {"check", "update", "compat"} \cup Exporting

(* The settings that account for a refusal. *)
JustifiedBy(why, c) ==
  /\ why = "settings" => RoundedAway(c)
  /\ why = "network" => c.net # "host"
  /\ why = "model" => ~c.gemma /\ ~c.safe
  /\ why = "name" => c.update /\ ~c.gemma /\ c.named

LaunchInv ==
  /\ Setting(lncConfig) /\ lncAt \in {"config", "refused"} \cup Checked
  /\ lncAt \in Checked => Accepts(lncConfig)
  /\ lncAt # "refused" => lncWhy = "none"
  /\ lncAt = "compat" => lncConfig.schema
  /\ lncAt = "update" => ~lncConfig.schema
  /\ lncAt \in Exporting /\ lncConfig.schema => lncEnv = Exported(lncConfig, NoEnv)
  /\ lncAt \in Importing => lncLoaded = (IF lncConfig.update THEN "listed" ELSE "own")
  /\ lncAt = "running" => lncHas = Wanted(lncConfig)
  /\ lncAt \in {"verify", "import"} \cup Importing =>
       lncConfig.net = "host" /\ lncConfig.safe /\ ProfileFits(lncConfig)
  /\ JustifiedBy(lncWhy, lncConfig)

(* Refusing a launch needs a reason only for the four reasons that count. *)
LEMMA RefuseLaunch ==
  ASSUME LaunchInv, NEW why, Refuse(why), JustifiedBy(why, lncConfig)
  PROVE  LaunchInv'
<1>1. JustifiedBy(lncWhy, lncConfig)'
  BY DEF Refuse, JustifiedBy, RoundedAway
<1> QED
  BY <1>1 DEF LaunchInv, Refuse, Checked, Exporting, Importing, Setting

(* Going on to a stage needs what the stages before it have seen to. *)
LEMMA ProceedLaunch ==
  ASSUME LaunchInv, NEW stage \in Checked, lncAt # "refused", Proceed(stage), lncConfig' = lncConfig,
         Accepts(lncConfig),
         stage = "compat" => lncConfig.schema,
         stage = "update" => ~lncConfig.schema,
         stage \in Exporting /\ lncConfig.schema => lncEnv' = Exported(lncConfig, NoEnv),
         stage \in Importing => lncLoaded' = (IF lncConfig.update THEN "listed" ELSE "own"),
         stage = "running" => lncHas' = Wanted(lncConfig),
         stage \in {"verify", "import"} \cup Importing =>
           lncConfig.net = "host" /\ lncConfig.safe /\ ProfileFits(lncConfig)
  PROVE  LaunchInv'
<1>1. JustifiedBy(lncWhy, lncConfig)'
  BY DEF LaunchInv, Proceed, JustifiedBy, RoundedAway
<1> QED
  BY <1>1 DEF LaunchInv, Proceed, Checked, Exporting, Importing, Setting

(* The stages before the gateway. *)
LEMMA StartLaunch ==
  ASSUME LaunchInv, ReadConfig \/ Exec \/ UpdateStart \/ CompatStart \/ Bootstrap
  PROVE  LaunchInv'
<1> USE DEF Checked, Exporting, Importing
<1>1. CASE ReadConfig
  BY <1>1, RefuseLaunch, ProceedLaunch DEF ReadConfig, JustifiedBy
<1>2. CASE Exec
  <2>1. Accepts(lncConfig) /\ (lncConfig.schema => lncConfig.update)
    BY <1>2 DEF LaunchInv, Exec, Accepts
  <2>2. CASE Refuse("network") /\ lncConfig.net = "mistyped"
    BY <2>2, RefuseLaunch DEF JustifiedBy
  <2>3. CASE Proceed(IF ~lncConfig.update THEN "boot" ELSE IF lncConfig.schema THEN "compat" ELSE "update")
    BY <1>2, <2>1, <2>3, ProceedLaunch DEF Exec, Refuse, Proceed
  <2> QED
    BY <1>2, <2>2, <2>3 DEF Exec
<1>3. CASE UpdateStart
  BY <1>3, RefuseLaunch, ProceedLaunch DEF LaunchInv, UpdateStart, JustifiedBy
<1>4. CASE CompatStart
  <2>1. Consistent(lncConfig)
    BY <1>4 DEF LaunchInv, CompatStart, Accepts, Consistent
  <2> QED
    BY <1>4, <2>1, RefuseLaunch, ProceedLaunch DEF LaunchInv, CompatStart, Cleared, JustifiedBy
<1>5. CASE Bootstrap
  <2>1. Accepts(lncConfig) /\ (lncConfig.gemma => lncConfig.safe) /\ lncConfig.gemma \in BOOLEAN
        /\ lncConfig.safe \in BOOLEAN /\ lncConfig.update \in BOOLEAN /\ lncConfig.named \in BOOLEAN
    BY <1>5 DEF LaunchInv, Bootstrap, Accepts, Setting, Flags
  <2>2. CASE Refuse("network") /\ lncConfig.net # "host"
    BY <2>2, RefuseLaunch DEF JustifiedBy
  <2>3. CASE Refuse("model") /\ ~lncConfig.safe
    BY <2>1, <2>3, RefuseLaunch DEF JustifiedBy
  <2>4. CASE Refuse("name") /\ ~ProfileFits(lncConfig)
    BY <2>1, <2>4, RefuseLaunch DEF JustifiedBy, ProfileFits
  <2>5. CASE /\ Proceed("verify") /\ lncConfig.net = "host" /\ lncConfig.safe /\ ProfileFits(lncConfig)
             /\ UNCHANGED <<lncConfig, lncEnv, lncChanged, lncLoaded, lncHas>>
    BY <1>5, <2>1, <2>5, ProceedLaunch DEF LaunchInv, Bootstrap
  <2> QED
    BY <1>5, <2>2, <2>3, <2>4, <2>5 DEF Bootstrap
<1> QED
  BY <1>1, <1>2, <1>3, <1>4, <1>5

(* The gateway itself. *)
LEMMA GatewayLaunch ==
  ASSUME LaunchInv, Verify \/ Import \/ Install \/ Outside \/ FileChanges
  PROVE  LaunchInv'
<1> USE DEF Checked, Exporting, Importing
<1>1. CASE Verify
  BY <1>1, RefuseLaunch, ProceedLaunch DEF LaunchInv, Verify, JustifiedBy
<1>2. CASE Import
  BY <1>2, RefuseLaunch, ProceedLaunch DEF LaunchInv, Import, JustifiedBy
<1>3. CASE Install
  <2>1. Accepts(lncConfig) /\ lncAt = "install"
    BY <1>3 DEF LaunchInv, Install
  <2>2. lncConfig.schema => lncConfig.update /\ lncEnv = Exported(lncConfig, NoEnv)
    BY <2>1 DEF LaunchInv, Accepts
  <2>3. CASE Refuse("settings") /\ lncConfig.schema /\ ~Allowed(lncEnv)
    BY <2>1, <2>2, <2>3, AcceptedIsAllowed, RefuseLaunch DEF LaunchInv, JustifiedBy
  <2>4. CASE /\ lncHas' = IF lncConfig.schema THEN Installed(lncEnv) ELSE Plain
             /\ Proceed("running") /\ UNCHANGED <<lncConfig, lncEnv, lncChanged, lncLoaded>>
    <3>1. lncHas' = Wanted(lncConfig)
      BY <2>1, <2>2, <2>4, InstalledIsWanted DEF LaunchInv, Wanted
    <3> QED
      BY <2>1, <2>2, <2>4, <3>1, ProceedLaunch DEF LaunchInv
  <2> QED
    BY <1>3, <2>2, <2>3, <2>4 DEF Install
<1>4. CASE Outside
  BY <1>4, RefuseLaunch DEF Outside, JustifiedBy
<1>5. CASE FileChanges
  <2>1. JustifiedBy(lncWhy, lncConfig)'
    BY <1>5 DEF LaunchInv, FileChanges, JustifiedBy, RoundedAway
  <2> QED
    BY <1>5, <2>1 DEF LaunchInv, FileChanges, Setting
<1> QED
  BY <1>1, <1>2, <1>3, <1>4, <1>5

(* Whatever the settings and the environment, and whoever updates the      *)
(* files meanwhile: a gateway that runs has what server.toml asks for and  *)
(* the code the manifest lists, and settings that were accepted are        *)
(* refused later in the four known cases only, whichever milliseconds and  *)
(* sums the floats of the code do not meet.                                *)
THEOREM LaunchesAsConfigured ==
  ASSUME \A c \in Configs : Setting(c)
  PROVE  LaunchSpec => []RunsAsConfigured
<1>1. LaunchInit => LaunchInv
  BY DEF LaunchInit, LaunchInv, JustifiedBy, Checked, Exporting, Importing
<1>2. LaunchInv /\ [LaunchNext]_launchVars => LaunchInv'
  <2> SUFFICES ASSUME LaunchInv, [LaunchNext]_launchVars PROVE LaunchInv'
    OBVIOUS
  <2>1. CASE UNCHANGED launchVars
    <3>1. JustifiedBy(lncWhy, lncConfig)'
      BY <2>1 DEF launchVars, LaunchInv, JustifiedBy, RoundedAway
    <3> QED
      BY <2>1, <3>1 DEF launchVars, LaunchInv, Setting
  <2> QED
    BY <2>1, StartLaunch, GatewayLaunch DEF LaunchNext
<1>3. LaunchInv => RunsAsConfigured
  BY DEF LaunchInv, RunsAsConfigured, JustifiedBy, Importing
<1> QED
  BY <1>1, <1>2, <1>3, PTL DEF LaunchSpec

-----------------------------------------------------------------------------
(* BoundaryGenerations.  No hole comes after a window that has the current *)
(* generation, so what is stamped next joins nothing across a hole; a cut moves the queue, and the current     *)
(* generation with it, behind everything stamped before.                   *)
Windows == [seg : Int, n : Int, final : BOOLEAN, gen : Int]
Marks == [gen : Int, n : Int]

(* The windows the caption pipeline has, or is about to have. *)
Behind == gnAccepted \cup {[gen |-> gnActive[i].gen, n |-> gnActive[i].n] : i \in DOMAIN gnActive}

GenerationTypes ==
  /\ gnPending \in Seq(Windows) /\ gnActive \in Seq(Windows) /\ gnHeld \in Seq(Windows)
  /\ gnAccepted \in SUBSET Marks /\ gnHoles \in SUBSET Int
  /\ gnNext \in Int /\ gnSeg \in Int /\ gnCapture \in Int
  /\ Len(gnActive) = IF gnAt = "none" THEN 0 ELSE 1
  /\ Len(gnHeld) = IF gnFeed \in {"stop", "told"} THEN 1 ELSE 0

(* The order in which sound was heard. *)
InOrder ==
  /\ \A i, j \in DOMAIN gnPending : i < j =>
       gnPending[i].n < gnPending[j].n /\ gnPending[i].seg < gnPending[j].seg
  /\ \A i \in DOMAIN gnPending : gnPending[i].n < gnNext /\ gnPending[i].seg <= gnSeg
  /\ \A i \in DOMAIN gnPending, k \in DOMAIN gnHeld :
       gnPending[i].n < gnHeld[k].n /\ gnPending[i].seg < gnHeld[k].seg
  /\ \A k \in DOMAIN gnHeld :
       gnHeld[k].n = gnNext - 1 /\ gnHeld[k].seg <= gnSeg /\ \A h \in gnHoles : h < 2 * gnHeld[k].n
  /\ \A h \in gnHoles : h < 2 * gnNext
  /\ \A a \in Behind :
       /\ a.n < gnNext /\ \A i \in DOMAIN gnPending : a.n < gnPending[i].n
       /\ \A k \in DOMAIN gnHeld : a.n < gnHeld[k].n

Latest == \A a \in gnAccepted, k \in DOMAIN gnActive : a.n <= gnActive[k].n

(* Nothing was stamped with a generation that is still to come. *)
NotAhead ==
  /\ \A i \in DOMAIN gnPending : gnPending[i].gen <= gnCapture
  /\ \A a \in Behind : a.gen <= gnCapture

NoHoleAfter(w) == \A h \in gnHoles : h <= 2 * w.n
Apart ==
  /\ \A a, b \in Behind : ~Bridged(a, b)
  /\ \A i, j \in DOMAIN gnPending : ~Bridged(gnPending[i], gnPending[j])
  /\ \A i \in DOMAIN gnPending : gnPending[i].gen = gnCapture => NoHoleAfter(gnPending[i])
  /\ gnFeed # "stop" =>
       /\ \A a \in Behind, i \in DOMAIN gnPending : ~Bridged(a, gnPending[i])
       /\ \A a \in Behind : a.gen = gnCapture => NoHoleAfter(a)

GenerationInv ==
  /\ GenerationTypes /\ InOrder /\ Latest /\ NotAhead
  /\ gnRaced \/ Apart

-----------------------------------------------------------------------------
(* Retag. *)

(* What a queue holds. *)
LEMMA WindowIs ==
  ASSUME NEW w \in Windows
  PROVE  /\ w.seg \in Int /\ w.n \in Int /\ w.gen \in Int
         /\ \A g \in Int : /\ [w EXCEPT !.gen = g] \in Windows
                          /\ [w EXCEPT !.gen = g].gen = g
                          /\ [w EXCEPT !.gen = g].n = w.n
                          /\ [w EXCEPT !.gen = g].seg = w.seg
BY DEF Windows

(* What a queue of windows is. *)
LEMMA QueueIs ==
  ASSUME NEW ws \in Seq(Windows)
  PROVE  /\ DOMAIN ws = 1 .. Len(ws) /\ Len(ws) \in Nat
         /\ \A i \in DOMAIN ws :
              /\ ws[i] \in Windows /\ ws[i].seg \in Int /\ ws[i].n \in Int
              /\ ws[i].gen \in Int /\ ws[i].gen \in Gens(ws)
         /\ \A g \in Gens(ws) : g \in Int
<1>1. DOMAIN ws = 1 .. Len(ws) /\ Len(ws) \in Nat
  OBVIOUS
<1>2. \A i \in DOMAIN ws : ws[i] \in Windows
  OBVIOUS
<1>3. \A i \in DOMAIN ws : ws[i].seg \in Int /\ ws[i].n \in Int /\ ws[i].gen \in Int
  BY <1>2, WindowIs
<1> QED
  BY <1>1, <1>2, <1>3 DEF Gens

(* A queue holds finitely many generations. *)
LEMMA GensFinite ==
  ASSUME NEW ws \in Seq(Windows)
  PROVE  IsFiniteSet(Gens(ws)) /\ Gens(ws) \in SUBSET Int
<1> DEFINE f == [i \in 1 .. Len(ws) |-> ws[i].gen]
<1>1. f \in Surjection(1 .. Len(ws), Gens(ws))
  BY DEF Gens, Surjection
<1>2. IsFiniteSet(1 .. Len(ws))
  BY FS_Interval
<1>3. IsFiniteSet(Gens(ws))
  BY <1>1, <1>2, FS_Surjection
<1>4. Gens(ws) \in SUBSET Int
  BY QueueIs
<1> QED
  BY <1>3, <1>4

(* The new generations lie behind the current one and keep their order. *)
LEMMA RetagOrder ==
  ASSUME NEW ws \in Seq(Windows), gnCapture \in Int
  PROVE  /\ \A g \in Int : Retag(ws, g) \in Int /\ Retag(ws, g) > gnCapture
         /\ \A g \in Gens(ws), k \in Int : g < k => Retag(ws, g) < Retag(ws, k)
<1> DEFINE Below(g) == {x \in Gens(ws) : x < g}
<1>1. \A g \in Int : IsFiniteSet(Below(g)) /\ Cardinality(Below(g)) \in Nat
  <2>1. \A g \in Int : Below(g) \in SUBSET Gens(ws)
    OBVIOUS
  <2> QED
    BY <2>1, GensFinite, FS_Subset, FS_CardinalityType
<1>2. \A g \in Gens(ws), k \in Int : g < k => Cardinality(Below(g)) < Cardinality(Below(k))
  <2> SUFFICES ASSUME NEW g \in Gens(ws), NEW k \in Int, g < k
               PROVE  Cardinality(Below(g)) < Cardinality(Below(k))
    OBVIOUS
  <2>1. g \in Int /\ \A x \in Gens(ws) : x \in Int
    BY GensFinite
  <2>2. g \in Below(k) /\ g \notin Below(g)
    BY <2>1
  <2>5. \A x \in Int : x < g => x < k
    BY <2>1
  <2>6. Below(g) \in SUBSET Below(k)
    BY <2>1, <2>5
  <2>3. Below(g) # Below(k)
    BY <2>2
  <2>4. Cardinality(Below(g)) <= Cardinality(Below(k)) /\ Cardinality(Below(g)) # Cardinality(Below(k))
    BY <1>1, <2>6, <2>3, FS_Subset
  <2>7. Cardinality(Below(g)) \in Nat /\ Cardinality(Below(k)) \in Nat
    BY <1>1, <2>1
  <2> HIDE DEF Below
  <2> QED
    BY <2>4, <2>7
<1> QED
  <2>1. \A g : Retag(ws, g) = gnCapture + 1 + Cardinality(Below(g))
    BY DEF Retag
  <2>2. \A g \in Gens(ws) : g \in Int
    BY GensFinite
  <2> HIDE DEF Below
  <2>3. ASSUME NEW g \in Int
        PROVE  Retag(ws, g) \in Int /\ Retag(ws, g) > gnCapture
    <3>1. Cardinality(Below(g)) \in Nat
      BY <1>1
    <3> QED
      BY <2>1, <3>1
  <2>4. ASSUME NEW g \in Gens(ws), NEW k \in Int, g < k
        PROVE  Retag(ws, g) < Retag(ws, k)
    <3>1. Cardinality(Below(g)) < Cardinality(Below(k)) /\ Cardinality(Below(g)) \in Nat
          /\ Cardinality(Below(k)) \in Nat
      BY <1>1, <1>2, <2>2, <2>4
    <3> QED
      BY <2>1, <3>1
  <2> QED
    BY <2>3, <2>4

(* What a cut makes of a queue that is not ahead. *)
LEMMA CutIs ==
  ASSUME NEW ws \in Seq(Windows), gnCapture \in Int,
         \A i \in DOMAIN ws : ws[i].gen <= gnCapture
  PROVE  /\ Retagged(ws) \in Seq(Windows) /\ DOMAIN Retagged(ws) = DOMAIN ws
         /\ NewCapture(ws) \in Int /\ NewCapture(ws) > gnCapture
         /\ \A i \in DOMAIN ws :
              /\ Retagged(ws)[i].n = ws[i].n /\ Retagged(ws)[i].seg = ws[i].seg
              /\ Retagged(ws)[i].gen > gnCapture /\ Retagged(ws)[i].gen <= NewCapture(ws)
              /\ Retagged(ws)[i].gen = NewCapture(ws) => ws[i].gen = gnCapture
         /\ \A i, j \in DOMAIN ws :
              Retagged(ws)[i].gen = Retagged(ws)[j].gen => ws[i].gen = ws[j].gen
<1>1. DOMAIN ws = 1 .. Len(ws) /\ Len(ws) \in Nat
  BY QueueIs
<1>2. \A i \in DOMAIN ws : ws[i].gen \in Gens(ws) /\ ws[i].gen \in Int /\ ws[i] \in Windows
  BY QueueIs
<1>3. \A i \in DOMAIN ws :
        /\ Retagged(ws)[i] \in Windows
        /\ Retagged(ws)[i].gen = Retag(ws, ws[i].gen)
        /\ Retagged(ws)[i].n = ws[i].n /\ Retagged(ws)[i].seg = ws[i].seg
  BY <1>1, <1>2, RetagOrder, WindowIs DEF Retagged
<1>4. Retagged(ws) \in Seq(Windows) /\ DOMAIN Retagged(ws) = DOMAIN ws
  <2>1. DOMAIN Retagged(ws) = 1 .. Len(ws)
    BY DEF Retagged
  <2>2. Retagged(ws) \in [1 .. Len(ws) -> Windows]
    BY <1>1, <1>3, <2>1 DEF Retagged
  <2> QED
    BY <1>1, <2>1, <2>2
<1>5. NewCapture(ws) \in Int /\ NewCapture(ws) > gnCapture
  BY RetagOrder DEF NewCapture
<1>6. \A i \in DOMAIN ws : Retag(ws, ws[i].gen) > gnCapture
  BY <1>2, RetagOrder
<1>7. \A i \in DOMAIN ws :
        /\ Retag(ws, ws[i].gen) <= NewCapture(ws)
        /\ Retag(ws, ws[i].gen) = NewCapture(ws) => ws[i].gen = gnCapture
  <2> SUFFICES ASSUME NEW i \in DOMAIN ws
               PROVE  /\ Retag(ws, ws[i].gen) <= NewCapture(ws)
                      /\ Retag(ws, ws[i].gen) = NewCapture(ws) => ws[i].gen = gnCapture
    OBVIOUS
  <2>1. Retag(ws, ws[i].gen) \in Int
    BY <1>2, RetagOrder
  <2>2. CASE gnCapture \in Gens(ws) /\ ws[i].gen = gnCapture
    BY <2>1, <2>2 DEF NewCapture
  <2>3. CASE gnCapture \in Gens(ws) /\ ws[i].gen # gnCapture
    <3>1. ws[i].gen < gnCapture
      BY <1>2, <2>3
    <3>2. Retag(ws, ws[i].gen) < Retag(ws, gnCapture)
      BY <1>2, <3>1, RetagOrder
    <3> QED
      BY <1>5, <2>1, <2>3, <3>2 DEF NewCapture
  <2>4. CASE gnCapture \notin Gens(ws)
    <3>1. ws[i].gen < gnCapture + 1 /\ gnCapture + 1 \in Int
      BY <1>2
    <3>2. Retag(ws, ws[i].gen) < Retag(ws, gnCapture + 1)
      BY <1>2, <3>1, RetagOrder
    <3> QED
      BY <1>5, <2>1, <2>4, <3>2 DEF NewCapture
  <2> QED
    BY <2>2, <2>3, <2>4
<1>8. \A i, j \in DOMAIN ws :
        Retag(ws, ws[i].gen) = Retag(ws, ws[j].gen) => ws[i].gen = ws[j].gen
  <2> SUFFICES ASSUME NEW i \in DOMAIN ws, NEW j \in DOMAIN ws, ws[i].gen # ws[j].gen
               PROVE  Retag(ws, ws[i].gen) # Retag(ws, ws[j].gen)
    OBVIOUS
  <2>1. ws[i].gen < ws[j].gen \/ ws[j].gen < ws[i].gen
    BY <1>2
  <2>2. Retag(ws, ws[i].gen) \in Int /\ Retag(ws, ws[j].gen) \in Int
    BY <1>2, RetagOrder
  <2>3. Retag(ws, ws[i].gen) < Retag(ws, ws[j].gen) \/ Retag(ws, ws[j].gen) < Retag(ws, ws[i].gen)
    BY <1>2, <2>1, RetagOrder
  <2> QED
    BY <2>2, <2>3
<1> QED
  BY <1>3, <1>4, <1>5, <1>6, <1>7, <1>8

-----------------------------------------------------------------------------
(* The shapes a step can have. *)

(* The types, taken apart. *)
LEMMA GenerationFacts ==
  ASSUME GenerationTypes
  PROVE  /\ \A i \in DOMAIN gnPending : gnPending[i] \in Windows /\ gnPending[i].n \in Int
              /\ gnPending[i].seg \in Int /\ gnPending[i].gen \in Int
         /\ \A k \in DOMAIN gnHeld : gnHeld[k] \in Windows /\ gnHeld[k].n \in Int
              /\ gnHeld[k].seg \in Int
         /\ \A k \in DOMAIN gnActive : gnActive[k].n \in Int /\ gnActive[k].gen \in Int
         /\ \A a \in Behind : a.n \in Int /\ a.gen \in Int
         /\ \A h \in gnHoles : h \in Int
         /\ gnNext \in Int /\ gnSeg \in Int /\ gnCapture \in Int
         /\ DOMAIN gnPending = 1 .. Len(gnPending) /\ Len(gnPending) \in Nat
         /\ DOMAIN gnHeld = 1 .. Len(gnHeld) /\ DOMAIN gnActive = 1 .. Len(gnActive)
<1>1. gnPending \in Seq(Windows) /\ gnActive \in Seq(Windows) /\ gnHeld \in Seq(Windows)
  BY DEF GenerationTypes
<1>2. \A k \in DOMAIN gnActive : gnActive[k].n \in Int /\ gnActive[k].gen \in Int
  BY <1>1, QueueIs
<1>3. \A a \in Behind : a.n \in Int /\ a.gen \in Int
  BY <1>2 DEF Behind, GenerationTypes, Marks
<1> QED
  BY <1>1, <1>2, <1>3, QueueIs DEF GenerationTypes

(* Nothing that counts changes, or a window is done with. *)
LEMMA QuietStep ==
  ASSUME GenerationInv, GenerationTypes', Latest',
         UNCHANGED <<gnPending, gnHoles, gnCapture, gnHeld, gnNext, gnSeg, gnRaced, gnFeed>>,
         \A a \in Behind' : a \in Behind
  PROVE  GenerationInv'
<1>1. InOrder' /\ NotAhead'
  BY DEF GenerationInv, InOrder, NotAhead
<1>2. gnRaced \/ Apart'
  BY DEF GenerationInv, Apart, Bridged, NoHoleAfter
<1> QED
  BY <1>1, <1>2 DEF GenerationInv

(* A cut keeps apart what was apart, and divides what is behind from what  *)
(* is pending, whatever holes came between them.                           *)
LEMMA CutStep ==
  ASSUME GenerationInv, NEW ws \in Seq(Windows),
         \A i \in DOMAIN ws : \E k \in DOMAIN gnPending : ws[i] = gnPending[k],
         gnPending' = Retagged(ws), gnCapture' = NewCapture(ws), gnRaced' = gnRaced,
         \A a \in Behind' : a \in Behind,
         \A h \in gnHoles' : h \in gnHoles \/
            /\ h \in Int /\ \A i \in DOMAIN ws : h < 2 * ws[i].n
            /\ \A a \in Behind' : 2 * a.n <= h
  PROVE  /\ NotAhead' /\ (gnRaced \/ Apart')
         /\ gnPending' \in Seq(Windows) /\ gnCapture' \in Int
         /\ DOMAIN gnPending' = DOMAIN ws
         /\ \A i \in DOMAIN ws : gnPending'[i].n = ws[i].n /\ gnPending'[i].seg = ws[i].seg
<1>1. GenerationTypes
  BY DEF GenerationInv
<1>2. \A i \in DOMAIN ws : ws[i].gen <= gnCapture /\ ws[i].gen \in Int /\ ws[i].n \in Int
  BY <1>1, GenerationFacts DEF GenerationInv, NotAhead
<1>3. /\ gnPending' \in Seq(Windows) /\ DOMAIN gnPending' = DOMAIN ws
      /\ gnCapture' \in Int /\ gnCapture' > gnCapture
      /\ \A i \in DOMAIN ws :
           /\ gnPending'[i].n = ws[i].n /\ gnPending'[i].seg = ws[i].seg
           /\ gnPending'[i].gen > gnCapture /\ gnPending'[i].gen <= gnCapture'
           /\ gnPending'[i].gen = gnCapture' => ws[i].gen = gnCapture
      /\ \A i, j \in DOMAIN ws : gnPending'[i].gen = gnPending'[j].gen => ws[i].gen = ws[j].gen
  BY <1>1, <1>2, CutIs, GenerationFacts
<1>4. \A a \in Behind' : a.gen <= gnCapture /\ a.gen \in Int /\ a.n \in Int
  BY <1>1, GenerationFacts DEF GenerationInv, NotAhead
<1>5. NotAhead'
  BY <1>1, <1>3, <1>4, GenerationFacts DEF NotAhead
<1>6. ASSUME ~gnRaced PROVE Apart'
  <2>1. Apart
    BY <1>6 DEF GenerationInv
  <2>2. ASSUME NEW a \in Behind', NEW b \in Behind' PROVE ~Bridged(a, b)'
    BY <1>1, <1>4, <2>1, <2>2, GenerationFacts DEF Apart, Bridged
  <2>3. ASSUME NEW i \in DOMAIN ws, NEW j \in DOMAIN ws
        PROVE  ~Bridged(gnPending[i], gnPending[j])'
    <3>1. ~Bridged(ws[i], ws[j])
      BY <2>1 DEF Apart
    <3>2. gnPending'[i].gen = gnPending'[j].gen => ws[i].gen = ws[j].gen
      BY <1>3
    <3>3. gnPending'[i].n = ws[i].n /\ gnPending'[j].n = ws[j].n
      BY <1>3
    <3>4. \A h \in gnHoles' : h \in gnHoles \/ ~(2 * ws[i].n < h)
      BY <1>2
    <3> QED
      BY <3>1, <3>2, <3>3, <3>4 DEF Bridged
  <2>4. ASSUME NEW i \in DOMAIN ws, gnPending'[i].gen = gnCapture'
        PROVE  NoHoleAfter(gnPending[i])'
    <3>1. NoHoleAfter(ws[i])
      BY <1>3, <2>1, <2>4 DEF Apart
    <3> QED
      BY <1>1, <1>2, <1>3, <3>1, GenerationFacts DEF NoHoleAfter
  <2>5. ASSUME NEW a \in Behind', NEW i \in DOMAIN ws PROVE ~Bridged(a, gnPending[i])'
    BY <1>1, <1>3, <1>4, GenerationFacts DEF Bridged
  <2>6. ASSUME NEW a \in Behind' PROVE a.gen # gnCapture'
    BY <1>1, <1>3, <1>4, GenerationFacts
  <2> QED
    BY <1>3, <2>2, <2>3, <2>4, <2>5, <2>6 DEF Apart
<1> QED
  BY <1>3, <1>5, <1>6

(* A window with the current generation joins the queue at its end, or     *)
(* takes the last place.                                                   *)
LEMMA JoinStep ==
  ASSUME GenerationInv, gnFeed # "stop", GenerationTypes',
         NEW w \in Windows, w.gen = gnCapture, w.n < gnNext', w.seg <= gnSeg',
         gnNext <= gnNext', gnSeg <= gnSeg', gnHeld' = <<>>,
         \A h \in gnHoles : h < 2 * w.n,
         \A a \in Behind : a.n < w.n,
         \A i \in DOMAIN gnPending' :
            \/ i = Len(gnPending') /\ gnPending'[i] = w
            \/ /\ i < Len(gnPending') /\ i \in DOMAIN gnPending /\ gnPending'[i] = gnPending[i]
               /\ gnPending[i].n < w.n /\ gnPending[i].seg < w.seg,
         UNCHANGED <<gnHoles, gnCapture, gnRaced, gnAccepted, gnActive>>
  PROVE  GenerationInv'
<1>1. GenerationTypes /\ Behind' = Behind
  BY DEF GenerationInv, Behind
<1>2. InOrder'
  <2>1. DOMAIN gnPending' = 1 .. Len(gnPending') /\ Len(gnPending') \in Nat /\ DOMAIN gnHeld' = {}
    BY DEF GenerationTypes
  <2>2. InOrder
    BY DEF GenerationInv
  <2>3. gnNext' \in Int /\ gnSeg' \in Int
    BY DEF GenerationTypes
  <2>4. \A i, j \in DOMAIN gnPending' : i < j =>
          gnPending'[i].n < gnPending'[j].n /\ gnPending'[i].seg < gnPending'[j].seg
    BY <2>1, <2>2 DEF InOrder
  <2>5. \A i \in DOMAIN gnPending' : gnPending'[i].n < gnNext' /\ gnPending'[i].seg <= gnSeg'
    BY <1>1, <2>2, <2>3, GenerationFacts DEF InOrder
  <2>6. \A h \in gnHoles' : h < 2 * gnNext'
    BY <1>1, <2>2, <2>3, GenerationFacts DEF InOrder
  <2>7. \A a \in Behind' : a.n < gnNext' /\ \A i \in DOMAIN gnPending' : a.n < gnPending'[i].n
    BY <1>1, <2>2, <2>3, GenerationFacts DEF InOrder
  <2> QED
    BY <2>1, <2>4, <2>5, <2>6, <2>7 DEF InOrder
<1>3. NotAhead'
  BY <1>1, GenerationFacts DEF GenerationInv, NotAhead
<1>4. ASSUME ~gnRaced PROVE Apart'
  <2>1. Apart
    BY <1>4 DEF GenerationInv
  <2>2. NoHoleAfter(w)'
    BY <1>1, WindowIs, GenerationFacts DEF NoHoleAfter
  <2>3. \A a \in Behind : ~Bridged(a, w)'
    BY <1>1, <2>1, WindowIs, GenerationFacts DEF Apart, Bridged, NoHoleAfter
  <2>4. \A i \in DOMAIN gnPending : ~Bridged(gnPending[i], w)
    BY <1>1, <2>1, WindowIs, GenerationFacts DEF Apart, Bridged, NoHoleAfter
  <2>5. \A i, j \in DOMAIN gnPending' : ~Bridged(gnPending[i], gnPending[j])'
    <3>1. ~Bridged(w, w) /\ \A i \in DOMAIN gnPending : ~Bridged(w, gnPending[i])
      BY <1>1, <2>2, WindowIs, GenerationFacts DEF Bridged, NoHoleAfter, GenerationInv, InOrder
    <3> QED
      BY <2>1, <2>4, <3>1 DEF Apart, Bridged
  <2>6. \A i \in DOMAIN gnPending' :
          gnPending'[i].gen = gnCapture' => NoHoleAfter(gnPending[i])'
    BY <2>1, <2>2 DEF Apart, NoHoleAfter
  <2>7. \A a \in Behind', i \in DOMAIN gnPending' : ~Bridged(a, gnPending[i])'
    BY <1>1, <2>1, <2>3 DEF Apart, Bridged
  <2> QED
    BY <1>1, <2>1, <2>5, <2>6, <2>7 DEF Apart, Bridged, NoHoleAfter
<1> QED
  BY <1>2, <1>3, <1>4 DEF GenerationInv, Latest

-----------------------------------------------------------------------------
(* The recogniser's steps. *)

(* Taking the oldest window. *)
LEMMA TakeStep == GenerationInv /\ Take => GenerationInv'
<1> SUFFICES ASSUME GenerationInv, Take PROVE GenerationInv'
  OBVIOUS
<1>1. /\ GenerationTypes /\ gnAt = "none" /\ gnPending # <<>>
      /\ gnActive' = <<gnPending[1]>> /\ gnPending' = Tail(gnPending) /\ gnAt' = "calling"
      /\ UNCHANGED <<gnNext, gnSeg, gnCapture, gnFeed, gnHeld, gnAccepted, gnHoles>>
      /\ gnRaced' = (gnRaced \/ gnFeed = "stop")
  BY DEF GenerationInv, Take, Builder
<1>2. /\ Len(gnPending) \in Nat \ {0} /\ 1 \in DOMAIN gnPending
      /\ DOMAIN gnPending' = 1 .. Len(gnPending) - 1
      /\ \A i \in DOMAIN gnPending' : i + 1 \in DOMAIN gnPending /\ gnPending'[i] = gnPending[i + 1]
      /\ gnActive = <<>>
  BY <1>1 DEF GenerationTypes
<1>3. GenerationTypes'
  BY <1>1, <1>2 DEF GenerationTypes
<1> DEFINE head == [gen |-> gnPending[1].gen, n |-> gnPending[1].n]
<1>4. \A a \in Behind' : a \in Behind \/ a = head
  BY <1>1 DEF Behind
<1>9. /\ head.n = gnPending[1].n /\ head.gen = gnPending[1].gen
      /\ head.n \in Int /\ head.gen \in Int /\ head.n < gnNext /\ head.gen <= gnCapture
      /\ \A i \in DOMAIN gnPending' : head.n < gnPending'[i].n
      /\ \A k \in DOMAIN gnHeld : head.n < gnHeld[k].n
      /\ \A a \in Behind : a.n < head.n /\ a.n \in Int
  BY SMTT(20), <1>1, <1>2, GenerationFacts DEF GenerationInv, InOrder, NotAhead
<1> HIDE DEF head
<1>5. InOrder'
  <2>1. InOrder
    BY DEF GenerationInv
  <2>2. \A i, j \in DOMAIN gnPending' : i < j => i + 1 < j + 1
    BY <1>2
  <2>3. \A i, j \in DOMAIN gnPending' : i < j =>
          gnPending'[i].n < gnPending'[j].n /\ gnPending'[i].seg < gnPending'[j].seg
    BY <1>2, <2>1, <2>2 DEF InOrder
  <2>4. \A i \in DOMAIN gnPending' :
          /\ gnPending'[i].n < gnNext /\ gnPending'[i].seg <= gnSeg
          /\ \A k \in DOMAIN gnHeld :
               gnPending'[i].n < gnHeld[k].n /\ gnPending'[i].seg < gnHeld[k].seg
          /\ \A a \in Behind : a.n < gnPending'[i].n
    BY <1>2, <2>1 DEF InOrder
  <2> QED
    BY <1>1, <1>4, <1>9, <2>1, <2>3, <2>4 DEF InOrder
<1>6. NotAhead'
  BY <1>1, <1>2, <1>4, <1>9 DEF GenerationInv, NotAhead
<1>7. ASSUME ~gnRaced' PROVE Apart'
  <2>1. Apart /\ gnFeed # "stop"
    BY <1>1, <1>7 DEF GenerationInv
  <2>2. \A a \in Behind : ~Bridged(head, a)
    BY <1>1, <1>9, GenerationFacts DEF Bridged
  <2>3. \A a \in Behind : ~Bridged(a, head)
    BY <1>2, <1>9, <2>1 DEF Apart, Bridged
  <2>4. \A i \in DOMAIN gnPending' : ~Bridged(head, gnPending'[i])
    BY <1>2, <1>9, <2>1 DEF Apart, Bridged
  <2>5. head.gen = gnCapture => NoHoleAfter(head)
    BY <1>2, <1>9, <2>1 DEF Apart, NoHoleAfter
  <2>6. ~Bridged(head, head)
    BY <1>1, <1>9, GenerationFacts DEF Bridged
  <2>7. \A a, b : Bridged(a, b)' <=> Bridged(a, b)
    BY <1>1 DEF Bridged
  <2>8. \A a, b \in Behind' : ~Bridged(a, b)
    BY <1>4, <2>1, <2>2, <2>3, <2>6 DEF Apart
  <2>9. \A i, j \in DOMAIN gnPending' : ~Bridged(gnPending'[i], gnPending'[j])
    BY <1>2, <2>1 DEF Apart
  <2>10. \A a \in Behind', i \in DOMAIN gnPending' : ~Bridged(a, gnPending'[i])
    BY <1>2, <1>4, <2>1, <2>4 DEF Apart
  <2>11. \A i \in DOMAIN gnPending' : gnPending'[i].gen = gnCapture => NoHoleAfter(gnPending'[i])
    BY <1>2, <2>1 DEF Apart
  <2>12. \A a \in Behind' : a.gen = gnCapture => NoHoleAfter(a)
    BY <1>4, <2>1, <2>5 DEF Apart
  <2>13. \A a : NoHoleAfter(a)' <=> NoHoleAfter(a)
    BY <1>1 DEF NoHoleAfter
  <2>14. \A a, b \in Behind' : ~Bridged(a, b)'
    BY <2>7, <2>8
  <2>15. \A i, j \in DOMAIN gnPending' : ~Bridged(gnPending[i], gnPending[j])'
    BY <2>9, <1>1 DEF Bridged
  <2>16. \A a \in Behind', i \in DOMAIN gnPending' : ~Bridged(a, gnPending[i])'
    BY <2>10, <1>1 DEF Bridged
  <2>17. \A i \in DOMAIN gnPending' : gnPending'[i].gen = gnCapture' => NoHoleAfter(gnPending[i])'
    BY <2>11, <1>1 DEF NoHoleAfter
  <2>18. \A a \in Behind' : a.gen = gnCapture' => NoHoleAfter(a)'
    BY <2>12, <2>13, <1>1
  <2> QED
    BY <2>14, <2>15, <2>16, <2>17, <2>18 DEF Apart
<1>8. Latest'
  BY <1>1, <1>2, GenerationFacts DEF GenerationInv, InOrder, Latest, Behind
<1> QED
  BY <1>3, <1>5, <1>6, <1>7, <1>8 DEF GenerationInv

(* The captions have the window, or it ends well. *)
LEMMA AcceptStep == GenerationInv /\ (AcceptWindow \/ Processed) => GenerationInv'
<1> SUFFICES ASSUME GenerationInv, AcceptWindow \/ Processed PROVE GenerationInv'
  OBVIOUS
<1>1. GenerationTypes /\ UNCHANGED <<gnPending, gnHoles, gnCapture, gnHeld, gnNext, gnSeg, gnRaced, gnFeed>>
  BY DEF GenerationInv, AcceptWindow, Processed, Builder
<1>2. CASE AcceptWindow
  <2>1. Len(gnActive) = 1 /\ DOMAIN gnActive = {1} /\ gnAt' = "accepting" /\ gnActive' = gnActive
    BY <1>1, <1>2 DEF AcceptWindow, GenerationTypes
  <2>2. gnAccepted' = gnAccepted \cup {[gen |-> gnActive[1].gen, n |-> gnActive[1].n]}
    BY <1>2 DEF AcceptWindow
  <2>3. \A a \in Behind' : a \in Behind
    BY <2>1, <2>2 DEF Behind
  <2>4. GenerationTypes'
    BY <1>1, <2>1, <2>2, GenerationFacts DEF GenerationTypes, Marks
  <2>5. Latest'
    BY <1>1, <2>1, <2>2, GenerationFacts DEF GenerationInv, Latest
  <2> QED
    BY <1>1, <2>3, <2>4, <2>5, QuietStep
<1>3. CASE Processed
  <2>1. gnActive' = <<>> /\ gnAccepted' = gnAccepted /\ gnAt' = "none"
    BY <1>3 DEF Processed
  <2>2. \A a \in Behind' : a \in Behind
    BY <2>1 DEF Behind
  <2>3. GenerationTypes'
    BY <1>1, <2>1 DEF GenerationTypes
  <2> QED
    BY <1>1, <2>1, <2>2, <2>3, QuietStep DEF Latest
<1> QED
  BY <1>2, <1>3

(* A window fails. *)
LEMMA FailStep == GenerationInv /\ ProcessFails => GenerationInv'
<1> SUFFICES ASSUME GenerationInv, ProcessFails PROVE GenerationInv'
  OBVIOUS
<1>1. /\ GenerationTypes /\ UNCHANGED <<gnHeld, gnNext, gnSeg, gnRaced, gnFeed, gnAccepted>>
      /\ gnActive' = <<>> /\ gnAt' = "none" /\ gnAt # "none"
  BY DEF GenerationInv, ProcessFails, Builder
<1>2. \A a \in Behind' : a \in Behind
  BY <1>1 DEF Behind
<1>3. CASE gnActive[1].final
  <2>1. /\ gnHoles' = gnHoles \cup {2 * gnActive[1].n}
        /\ gnPending' = Retagged(gnPending) /\ gnCapture' = NewCapture(gnPending)
    BY <1>3 DEF ProcessFails, CutRetagging
  <2>2. 1 \in DOMAIN gnActive
    BY <1>1 DEF GenerationTypes
  <2> DEFINE a1 == [gen |-> gnActive[1].gen, n |-> gnActive[1].n]
  <2>3. a1 \in Behind /\ a1.n = gnActive[1].n
    BY <2>2 DEF Behind
  <2>4. /\ gnActive[1].n \in Int /\ gnActive[1].n < gnNext
        /\ \A i \in DOMAIN gnPending : gnActive[1].n < gnPending[i].n
        /\ \A k \in DOMAIN gnHeld : gnActive[1].n < gnHeld[k].n
    BY <1>1, <2>2, <2>3, GenerationFacts DEF GenerationInv, InOrder
  <2>5. PICK h : h = 2 * gnActive[1].n
    OBVIOUS
  <2>6. /\ h \in Int /\ h < 2 * gnNext /\ \A i \in DOMAIN gnPending : h < 2 * gnPending[i].n
        /\ \A k \in DOMAIN gnHeld : h < 2 * gnHeld[k].n
    BY SMTT(20), <1>1, <2>4, <2>5, GenerationFacts
  <2>7. \A a \in Behind' : 2 * a.n <= h
    <3>1. Behind' = gnAccepted
      BY <1>1 DEF Behind
    <3>2. \A a \in gnAccepted : a.n <= gnActive[1].n /\ a.n \in Int
      BY <1>1, <2>2, GenerationFacts DEF GenerationInv, Latest, Behind
    <3> QED
      BY <2>4, <2>5, <3>1, <3>2
  <2>8. gnPending \in Seq(Windows)
    BY <1>1 DEF GenerationTypes
  <2>9. \A x \in gnHoles' : x \in gnHoles \/ x = h
    BY <2>1, <2>5
  <2>10. /\ NotAhead' /\ (gnRaced \/ Apart')
         /\ gnPending' \in Seq(Windows) /\ gnCapture' \in Int
         /\ DOMAIN gnPending' = DOMAIN gnPending
         /\ \A i \in DOMAIN gnPending :
              gnPending'[i].n = gnPending[i].n /\ gnPending'[i].seg = gnPending[i].seg
    <3>1. \A x \in gnHoles' : x \in gnHoles \/
            /\ x \in Int /\ \A i \in DOMAIN gnPending : x < 2 * gnPending[i].n
            /\ \A a \in Behind' : 2 * a.n <= x
      BY <2>6, <2>7, <2>9
    <3> QED
      BY <1>1, <1>2, <2>1, <2>8, <3>1, CutStep
  <2>11. GenerationTypes'
    <3>1. gnHoles' \in SUBSET Int
      BY <1>1, <2>6, <2>9 DEF GenerationTypes
    <3> QED
      BY <1>1, <2>10, <3>1 DEF GenerationTypes
  <2>12. InOrder'
    BY <1>1, <1>2, <2>6, <2>9, <2>10 DEF GenerationInv, InOrder
  <2>13. Latest'
    BY <1>1 DEF Latest
  <2> QED
    BY <1>1, <2>10, <2>11, <2>12, <2>13 DEF GenerationInv
<1>4. CASE ~gnActive[1].final
  <2>1. UNCHANGED <<gnPending, gnCapture, gnHoles>>
    BY <1>4 DEF ProcessFails
  <2>2. GenerationTypes'
    BY <1>1, <2>1 DEF GenerationTypes
  <2> QED
    BY <1>1, <1>2, <2>1, <2>2, QuietStep DEF Latest
<1> QED
  BY <1>3, <1>4

-----------------------------------------------------------------------------
(* The feeding task's steps. *)

(* A gap in the sound. *)
LEMMA GapStep == GenerationInv /\ GapCut => GenerationInv'
<1> SUFFICES ASSUME GenerationInv, GapCut PROVE GenerationInv'
  OBVIOUS
<1>1. /\ GenerationTypes /\ gnFeed = "gap" /\ gnFeed' = "none" /\ gnHoles' = gnHoles \cup {2 * gnNext - 1}
      /\ gnCapture' = gnCapture + 1
      /\ UNCHANGED <<gnNext, gnSeg, gnPending, gnActive, gnAt, gnHeld, gnAccepted, gnRaced>>
  BY DEF GenerationInv, GapCut, Builder
<1>2. Behind' = Behind /\ DOMAIN gnHeld = {} /\ gnNext \in Int /\ gnCapture \in Int
  BY <1>1 DEF Behind, GenerationTypes
<1>3. GenerationTypes'
  BY <1>1, <1>2 DEF GenerationTypes
<1>4. InOrder' /\ Latest'
  BY <1>1, <1>2, GenerationFacts DEF GenerationInv, InOrder, Latest
<1>5. NotAhead'
  BY <1>1, <1>2, GenerationFacts DEF GenerationInv, NotAhead
<1>6. /\ \A a \in Behind : a.gen # gnCapture' /\ a.n < gnNext /\ a.n \in Int
      /\ \A i \in DOMAIN gnPending :
           gnPending[i].gen # gnCapture' /\ gnPending[i].n < gnNext /\ gnPending[i].n \in Int
  BY <1>1, <1>2, GenerationFacts DEF GenerationInv, NotAhead, InOrder
<1>7. ASSUME ~gnRaced PROVE Apart'
  <2>1. Apart /\ gnFeed # "stop"
    BY <1>1, <1>7 DEF GenerationInv
  <2>2. ASSUME NEW a, NEW b, b.n \in Int, b.n < gnNext, ~Bridged(a, b)
        PROVE  ~Bridged(a, b)'
    BY <1>1, <1>2, <2>2 DEF Bridged
  <2> QED
    BY <1>1, <1>2, <1>6, <2>1, <2>2 DEF Apart
<1> QED
  BY <1>1, <1>3, <1>4, <1>5, <1>7 DEF GenerationInv

(* The notice of an overload goes out before the window it held up. *)
LEMMA ToldStep == GenerationInv /\ OverloadTold => GenerationInv'
<1> SUFFICES ASSUME GenerationInv, OverloadTold PROVE GenerationInv'
  OBVIOUS
<1>1. /\ GenerationTypes /\ gnFeed = "told" /\ gnHeld' = <<>> /\ gnFeed' \in {"gap", "none"}
      /\ gnPending' = Append(gnPending, [gnHeld[1] EXCEPT !.gen = gnCapture])
      /\ UNCHANGED <<gnNext, gnSeg, gnActive, gnAt, gnCapture, gnAccepted, gnHoles, gnRaced>>
  BY DEF GenerationInv, OverloadTold, Builder
<1>2. 1 \in DOMAIN gnHeld /\ gnHeld[1] \in Windows /\ gnCapture \in Int /\ gnNext \in Int
  BY <1>1, GenerationFacts DEF GenerationTypes
<1>3. PICK w : w = [gnHeld[1] EXCEPT !.gen = gnCapture]
  OBVIOUS
<1>4. w \in Windows /\ w.gen = gnCapture /\ w.n = gnHeld[1].n /\ w.seg = gnHeld[1].seg
  BY <1>2, <1>3, WindowIs
<1>5. /\ w.n < gnNext /\ w.seg <= gnSeg /\ \A h \in gnHoles : h < 2 * w.n
      /\ \A a \in Behind : a.n < w.n
      /\ \A i \in DOMAIN gnPending : gnPending[i].n < w.n /\ gnPending[i].seg < w.seg
  BY <1>2, <1>4 DEF GenerationInv, InOrder
<1>6. GenerationTypes'
  BY <1>1, <1>3, <1>4 DEF GenerationTypes
<1>7. \A i \in DOMAIN gnPending' :
        \/ i = Len(gnPending') /\ gnPending'[i] = w
        \/ i < Len(gnPending') /\ i \in DOMAIN gnPending /\ gnPending'[i] = gnPending[i]
  BY <1>1, <1>3, <1>4 DEF GenerationTypes
<1>8. gnNext <= gnNext' /\ gnSeg <= gnSeg' /\ w.n < gnNext' /\ w.seg <= gnSeg'
  BY <1>1, <1>5 DEF GenerationTypes
<1>9. \A i \in DOMAIN gnPending' :
        \/ i = Len(gnPending') /\ gnPending'[i] = w
        \/ /\ i < Len(gnPending') /\ i \in DOMAIN gnPending /\ gnPending'[i] = gnPending[i]
           /\ gnPending[i].n < w.n /\ gnPending[i].seg < w.seg
  BY <1>5, <1>7
<1> QED
  BY <1>1, <1>4, <1>5, <1>6, <1>8, <1>9, JoinStep

(* The idle task has ended, and the skip is a cut at last. *)
LEMMA OverloadStep == GenerationInv /\ OverloadCut => GenerationInv'
<1> SUFFICES ASSUME GenerationInv, OverloadCut PROVE GenerationInv'
  OBVIOUS
<1>1. /\ GenerationTypes /\ gnFeed = "stop" /\ gnFeed' = "told"
      /\ gnPending' = Retagged(gnPending) /\ gnCapture' = NewCapture(gnPending)
      /\ UNCHANGED <<gnNext, gnSeg, gnActive, gnAt, gnHeld, gnAccepted, gnHoles, gnRaced>>
  BY DEF GenerationInv, OverloadCut, CutRetagging, Builder
<1>2. Behind' = Behind /\ gnPending \in Seq(Windows)
  BY <1>1 DEF Behind, GenerationTypes
<1>3. /\ NotAhead' /\ (gnRaced \/ Apart')
      /\ gnPending' \in Seq(Windows) /\ gnCapture' \in Int
      /\ DOMAIN gnPending' = DOMAIN gnPending
      /\ \A i \in DOMAIN gnPending :
           gnPending'[i].n = gnPending[i].n /\ gnPending'[i].seg = gnPending[i].seg
  BY <1>1, <1>2, CutStep
<1>4. GenerationTypes'
  BY <1>1, <1>3 DEF GenerationTypes
<1>5. InOrder' /\ Latest'
  BY <1>1, <1>2, <1>3 DEF GenerationInv, InOrder, Latest
<1> QED
  BY <1>1, <1>3, <1>4, <1>5 DEF GenerationInv

(* A window is queued: it takes its segment's place, joins the queue, or   *)
(* pushes the oldest window out.                                           *)
LEMMA EnqueueStep ==
  ASSUME MaxPending \in Nat \ {0}, GenerationInv, gnFeed = "none",
         NEW ending \in BOOLEAN, NEW last \in BOOLEAN,
         gnNext' = gnNext + 1, gnSeg' \in {gnSeg, gnSeg + 1}, Enqueue(Window(ending), last),
         UNCHANGED <<gnActive, gnAt, gnAccepted, gnRaced>>
  PROVE  GenerationInv'
<1>0. PICK w : w = Window(ending)
  OBVIOUS
<1> DEFINE same == {i \in 1 .. Len(gnPending) : gnPending[i].seg = w.seg}
<1>1. /\ GenerationTypes /\ gnPending \in Seq(Windows) /\ Len(gnPending) \in Nat
      /\ gnNext \in Int /\ gnSeg \in Int /\ gnCapture \in Int
      /\ gnHeld = <<>> /\ DOMAIN gnPending = 1 .. Len(gnPending)
  BY DEF GenerationInv, GenerationTypes
<1>2. w \in Windows /\ w.gen = gnCapture /\ w.n = gnNext /\ w.seg = gnSeg
  BY <1>0, <1>1 DEF Window, Windows
<1>3. Behind' = Behind
  BY DEF Behind
<1>4. /\ w.n < gnNext' /\ w.seg <= gnSeg' /\ gnNext <= gnNext' /\ gnSeg <= gnSeg'
      /\ gnNext' \in Int /\ gnSeg' \in Int
      /\ \A h \in gnHoles : h < 2 * w.n
      /\ \A a \in Behind : a.n < w.n
      /\ \A i \in DOMAIN gnPending : gnPending[i].n < w.n /\ gnPending[i].seg <= w.seg
  BY <1>1, <1>2 DEF GenerationInv, InOrder
<1>5. CASE ~(same = {} /\ Len(gnPending) >= MaxPending)
  <2>1. /\ gnPending' = IF same = {} THEN Append(gnPending, w)
                        ELSE [i \in 1 .. Len(gnPending) |-> IF i \in same THEN w ELSE gnPending[i]]
        /\ gnFeed' \in {"gap", "none"} /\ UNCHANGED <<gnHoles, gnHeld, gnCapture>>
    BY <1>0, <1>5 DEF Enqueue
  <2>2. CASE same = {}
    <3>1. gnPending' = Append(gnPending, w)
      BY <2>1, <2>2
    <3>2. \A i \in DOMAIN gnPending : gnPending[i].seg < w.seg
      BY <1>1, <1>2, <1>4, <2>2, GenerationFacts
    <3>3. \A i \in DOMAIN gnPending' :
            \/ i = Len(gnPending') /\ gnPending'[i] = w
            \/ /\ i < Len(gnPending') /\ i \in DOMAIN gnPending /\ gnPending'[i] = gnPending[i]
               /\ gnPending[i].n < w.n /\ gnPending[i].seg < w.seg
      BY <1>1, <1>2, <1>4, <3>1, <3>2
    <3>4. GenerationTypes'
      <4>1. gnPending' \in Seq(Windows)
        BY <1>1, <1>2, <3>1
      <4> QED
        BY <1>1, <1>4, <2>1, <4>1 DEF GenerationTypes
    <3> QED
      BY <1>1, <1>2, <1>4, <2>1, <3>3, <3>4, JoinStep
  <2>3. CASE same # {}
    <3>1. gnPending' = [i \in 1 .. Len(gnPending) |-> IF i \in same THEN w ELSE gnPending[i]]
      BY <2>1, <2>3
    <3>2. \A i \in same : i = Len(gnPending)
      <4>1. ASSUME NEW i \in same, i # Len(gnPending) PROVE FALSE
        <5>1. i \in DOMAIN gnPending /\ Len(gnPending) \in DOMAIN gnPending /\ i < Len(gnPending)
          BY <1>1, <4>1
        <5>2. gnPending[i].seg < gnPending[Len(gnPending)].seg /\ gnPending[i].seg = w.seg
          BY <4>1, <5>1 DEF GenerationInv, InOrder
        <5> QED
          BY <1>1, <1>2, <1>4, <5>1, <5>2, GenerationFacts
      <4> QED
        BY <4>1
    <3>3. Len(gnPending) \in same
      BY <2>3, <3>2
    <3>4. gnPending' \in Seq(Windows) /\ Len(gnPending') = Len(gnPending)
      BY <1>1, <1>2, <3>1
    <3>5. \A i \in DOMAIN gnPending' : i # Len(gnPending') =>
            /\ i < Len(gnPending') /\ i \in DOMAIN gnPending /\ gnPending'[i] = gnPending[i]
            /\ gnPending[i].seg # w.seg
      <4>1. DOMAIN gnPending' = 1 .. Len(gnPending)
        BY <3>1
      <4>2. ASSUME NEW i \in 1 .. Len(gnPending), i # Len(gnPending)
            PROVE  i < Len(gnPending) /\ i \notin same /\ gnPending[i].seg # w.seg
        <5>1. i < Len(gnPending)
          <6>1. Len(gnPending) \in Nat
            BY <1>1
          <6> HIDE DEF same
          <6> QED
            BY <4>2, <6>1
        <5>2. i \notin same
          BY <3>2, <4>2
        <5> QED
          BY <4>2, <5>1, <5>2
      <4>3. \A i \in 1 .. Len(gnPending) : i # Len(gnPending) => gnPending'[i] = gnPending[i]
        BY <3>1, <4>2
      <4> HIDE DEF same
      <4> QED
        BY <1>1, <3>4, <4>1, <4>2, <4>3
    <3>6. \A i \in DOMAIN gnPending' :
            \/ i = Len(gnPending') /\ gnPending'[i] = w
            \/ /\ i < Len(gnPending') /\ i \in DOMAIN gnPending /\ gnPending'[i] = gnPending[i]
               /\ gnPending[i].n < w.n /\ gnPending[i].seg < w.seg
      <4>1. gnPending'[Len(gnPending')] = w
        BY <3>1, <3>3, <3>4
      <4> QED
        BY <1>1, <1>2, <1>4, <3>5, <4>1, GenerationFacts
    <3>7. GenerationTypes'
      BY <1>1, <1>4, <2>1, <3>4 DEF GenerationTypes
    <3> QED
      BY <1>1, <1>2, <1>4, <2>1, <3>6, <3>7, JoinStep
  <2> QED
    BY <2>2, <2>3
<1>6. CASE same = {} /\ Len(gnPending) >= MaxPending
  <2>0. PICK rest : rest = Tail(gnPending)
    OBVIOUS
  <2>1. /\ gnHoles' = gnHoles \cup {2 * gnPending[1].n} /\ gnHeld' = <<w>>
        /\ \/ gnFeed' = "stop" /\ gnPending' = rest /\ gnCapture' = gnCapture
           \/ gnFeed' = "told" /\ gnPending' = Retagged(rest) /\ gnCapture' = NewCapture(rest)
    BY <1>0, <1>6, <2>0 DEF Enqueue, CutRetagging
  <2>2. /\ 1 \in DOMAIN gnPending /\ rest \in Seq(Windows) /\ DOMAIN rest = 1 .. Len(gnPending) - 1
        /\ \A i \in DOMAIN rest : i + 1 \in DOMAIN gnPending /\ rest[i] = gnPending[i + 1]
    BY <1>1, <1>6, <2>0
  <2>3. PICK h : h = 2 * gnPending[1].n
    OBVIOUS
  <2>4. /\ h \in Int /\ h < 2 * w.n /\ \A i \in DOMAIN rest : h < 2 * rest[i].n
        /\ \A a \in Behind : 2 * a.n <= h
    <3>1. \A i \in DOMAIN rest : 1 < i + 1
      BY <1>1, <2>2
    <3>2. \A i \in DOMAIN rest : gnPending[1].n < rest[i].n /\ rest[i].n \in Int
      BY <1>1, <2>2, <3>1, GenerationFacts DEF GenerationInv, InOrder
    <3>3. gnPending[1].n \in Int /\ gnPending[1].n < w.n
      BY <1>1, <1>4, <2>2, GenerationFacts
    <3>4. \A a \in Behind : a.n < gnPending[1].n /\ a.n \in Int
      BY <1>1, <2>2, GenerationFacts DEF GenerationInv, InOrder
    <3> QED
      BY <1>1, <1>2, <2>3, <3>2, <3>3, <3>4
  <2>5. \A x \in gnHoles' : x \in gnHoles \/ x = h
    BY <2>1, <2>3
  <2>6. gnHoles' \in SUBSET Int
    BY <1>1, <2>4, <2>5 DEF GenerationTypes
  <2>7. \A i \in DOMAIN rest :
          /\ rest[i].n < w.n /\ rest[i].seg < w.seg /\ rest[i].n < gnNext' /\ rest[i].seg <= gnSeg'
          /\ \A a \in Behind : a.n < rest[i].n
          /\ \A j \in DOMAIN rest : i < j => rest[i].n < rest[j].n /\ rest[i].seg < rest[j].seg
    <3>1. \A i \in DOMAIN gnPending : gnPending[i].seg < w.seg
      BY <1>1, <1>2, <1>4, <1>6, GenerationFacts
    <3>2. \A i \in DOMAIN gnPending : gnPending[i].n < gnNext' /\ gnPending[i].seg <= gnSeg'
      BY <1>1, <1>2, <1>4, GenerationFacts
    <3>3. \A i, j \in DOMAIN rest : i < j => i + 1 < j + 1
      BY <1>1, <2>2
    <3> QED
      BY <1>4, <2>2, <3>1, <3>2, <3>3 DEF GenerationInv, InOrder
  <2>8. /\ NotAhead' /\ (gnRaced \/ Apart')
        /\ gnPending' \in Seq(Windows) /\ gnCapture' \in Int
        /\ DOMAIN gnPending' = DOMAIN rest
        /\ \A i \in DOMAIN rest : gnPending'[i].n = rest[i].n /\ gnPending'[i].seg = rest[i].seg
    <3>1. CASE gnPending' = Retagged(rest) /\ gnCapture' = NewCapture(rest)
      <4>1. \A x \in gnHoles' : x \in gnHoles \/
              /\ x \in Int /\ \A i \in DOMAIN rest : x < 2 * rest[i].n
              /\ \A a \in Behind' : 2 * a.n <= x
        BY <1>3, <2>4, <2>5
      <4>2. \A i \in DOMAIN rest : \E k \in DOMAIN gnPending : rest[i] = gnPending[k]
        BY <2>2
      <4> QED
        BY <1>3, <2>2, <3>1, <4>1, <4>2, CutStep
    <3>2. CASE gnFeed' = "stop" /\ gnPending' = rest /\ gnCapture' = gnCapture
      <4>1. NotAhead'
        BY <1>3, <2>2, <3>2 DEF GenerationInv, NotAhead
      <4>2. ASSUME ~gnRaced PROVE Apart'
        <5>1. Apart
          BY <4>2 DEF GenerationInv
        <5>2. \A a, b \in Behind : ~Bridged(a, b)'
          BY <1>1, <2>4, <2>5, <5>1, GenerationFacts DEF Apart, Bridged
        <5>3. \A i, j \in DOMAIN rest : ~Bridged(rest[i], rest[j])'
          <6>1. \A i, j \in DOMAIN rest : ~Bridged(rest[i], rest[j])
            BY <2>2, <5>1 DEF Apart
          <6>2. \A i \in DOMAIN rest : rest[i].n \in Int
            BY <1>1, <2>2, GenerationFacts
          <6> QED
            BY <2>4, <2>5, <6>1, <6>2 DEF Bridged
        <5>4. \A i \in DOMAIN rest : rest[i].gen = gnCapture => NoHoleAfter(rest[i])'
          <6>1. \A i \in DOMAIN rest : rest[i].gen = gnCapture => NoHoleAfter(rest[i])
            BY <2>2, <5>1 DEF Apart
          <6>2. \A i \in DOMAIN rest : rest[i].n \in Int
            BY <1>1, <2>2, GenerationFacts
          <6> QED
            BY <2>4, <2>5, <6>1, <6>2 DEF NoHoleAfter
        <5> QED
          BY <1>3, <3>2, <5>2, <5>3, <5>4 DEF Apart, Bridged, NoHoleAfter
      <4> QED
        BY <1>1, <2>2, <3>2, <4>1, <4>2
    <3> QED
      BY <2>1, <3>1, <3>2
  <2>9. GenerationTypes'
    BY <1>1, <1>2, <1>4, <2>1, <2>6, <2>8 DEF GenerationTypes
  <2>10. InOrder'
    <3>1. DOMAIN gnHeld' = {1} /\ gnHeld'[1] = w /\ w.n = gnNext' - 1
      BY <1>1, <1>2, <2>1
    <3>2. \A x \in gnHoles' : x < 2 * w.n
      BY <1>4, <2>4, <2>5
    <3>3. \A x \in gnHoles' : x < 2 * gnNext'
      BY <1>1, <1>2, <2>6, <3>2
    <3>4. \A a \in Behind' : a.n < w.n /\ a.n < gnNext'
      BY <1>1, <1>2, <1>3, <1>4, GenerationFacts
    <3> QED
      BY <1>3, <1>4, <2>7, <2>8, <3>1, <3>2, <3>3, <3>4 DEF InOrder
  <2>11. Latest'
    BY DEF GenerationInv, Latest
  <2> QED
    BY <2>8, <2>9, <2>10, <2>11 DEF GenerationInv
<1> QED
  BY <1>5, <1>6

(* The feeding task and the idle task. *)
LEMMA FeedStep ==
  ASSUME MaxPending \in Nat \ {0}, GenerationInv,
         (\E ending \in BOOLEAN : Feed(ending)) \/ AudioGap \/ IdleCheckpoint
  PROVE  GenerationInv'
<1>1. CASE \E ending \in BOOLEAN : Feed(ending)
  <2>1. PICK ending \in BOOLEAN : Feed(ending)
    BY <1>1
  <2> QED
    BY <2>1, EnqueueStep DEF Feed
<1>2. CASE AudioGap /\ gnOpen
  BY <1>2, EnqueueStep DEF AudioGap
<1>3. CASE AudioGap /\ ~gnOpen
  <2>1. /\ GenerationTypes /\ gnFeed = "none" /\ gnFeed' = "gap"
        /\ UNCHANGED <<gnNext, gnSeg, gnPending, gnHoles, gnHeld, gnCapture, gnActive, gnAt,
                       gnAccepted, gnRaced>>
    BY <1>3 DEF AudioGap, GenerationInv
  <2>2. GenerationTypes' /\ Behind' = Behind
    BY <2>1 DEF GenerationTypes, Behind
  <2> QED
    BY <2>1, <2>2 DEF GenerationInv, InOrder, NotAhead, Latest, Apart, Bridged, NoHoleAfter
<1>4. CASE IdleCheckpoint
  <2>1. /\ GenerationTypes /\ gnFeed = "none" /\ gnPending = <<>> /\ gnPending' = <<Window(TRUE)>>
        /\ gnNext' = gnNext + 1 /\ gnSeg' = gnSeg + 1 /\ gnHeld = <<>>
        /\ UNCHANGED <<gnHoles, gnHeld, gnCapture, gnActive, gnAt, gnFeed, gnAccepted, gnRaced>>
    BY <1>4 DEF IdleCheckpoint, GenerationInv, GenerationTypes
  <2>2. PICK w : w = Window(TRUE)
    OBVIOUS
  <2>3. /\ w \in Windows /\ w.gen = gnCapture /\ w.n = gnNext /\ w.seg = gnSeg
        /\ gnNext \in Int /\ gnSeg \in Int
    BY <2>1, <2>2 DEF Window, Windows, GenerationTypes
  <2>4. /\ w.n < gnNext' /\ w.seg <= gnSeg' /\ gnNext <= gnNext' /\ gnSeg <= gnSeg'
        /\ \A h \in gnHoles : h < 2 * w.n
        /\ \A a \in Behind : a.n < w.n
    BY <2>1, <2>3 DEF GenerationInv, InOrder
  <2>5. \A i \in DOMAIN gnPending' : i = Len(gnPending') /\ gnPending'[i] = w
    <3>1. gnPending' = <<w>>
      BY <2>1, <2>2
    <3> QED
      BY <3>1
  <2>6. GenerationTypes'
    <3>1. gnPending' = <<w>>
      BY <2>1, <2>2
    <3>2. gnPending' \in Seq(Windows) /\ gnNext' \in Int /\ gnSeg' \in Int
      <4>1. <<w>> \in Seq(Windows)
        BY <2>3
      <4> QED
        <5>1. gnPending' \in Seq(Windows)
          BY <3>1, <4>1
        <5>2. gnNext' \in Int /\ gnSeg' \in Int
          BY <2>1, <2>3
        <5> QED
          BY <5>1, <5>2
    <3> QED
      BY <2>1, <3>2 DEF GenerationTypes
  <2> QED
    BY <2>1, <2>3, <2>4, <2>5, <2>6, JoinStep
<1> QED
  BY <1>1, <1>2, <1>3, <1>4

(* However slow the recogniser is: no two windows the captions accepted in *)
(* one generation have a hole between them, unless one was taken between a *)
(* skip and its cut.                                                       *)
THEOREM HolesAreNotBridged ==
  ASSUME MaxPending \in Nat \ {0}
  PROVE  GnSpec => []NeverBridgedUnlessRaced
<1>1. GnInit => GenerationInv
  BY DEF GnInit, GenerationInv, GenerationTypes, InOrder, Latest, NotAhead, Apart, Behind
<1>2. GenerationInv /\ [GnNext]_gnVars => GenerationInv'
  <2> SUFFICES ASSUME GenerationInv, [GnNext]_gnVars PROVE GenerationInv'
    OBVIOUS
  <2>1. CASE UNCHANGED gnVars
    <3>1. GenerationTypes'
      BY <2>1 DEF gnVars, GenerationInv, GenerationTypes
    <3>2. InOrder'
      BY <2>1 DEF gnVars, GenerationInv, InOrder, Behind
    <3>3. Latest' /\ NotAhead'
      BY <2>1 DEF gnVars, GenerationInv, Latest, NotAhead, Behind
    <3>4. gnRaced' \/ Apart'
      BY <2>1 DEF gnVars, GenerationInv, Apart, Behind, Bridged, NoHoleAfter
    <3> QED
      BY <3>1, <3>2, <3>3, <3>4 DEF GenerationInv
  <2> QED
    BY <2>1, TakeStep, AcceptStep, FailStep, GapStep, ToldStep, OverloadStep, FeedStep DEF GnNext
<1>3. GenerationInv => NeverBridgedUnlessRaced
  BY DEF GenerationInv, Apart, Behind, NeverBridgedUnlessRaced
<1> QED
  BY <1>1, <1>2, <1>3, PTL DEF GnSpec

-----------------------------------------------------------------------------
(* BoundaryLanes.  The pipeline's context speaks for every word of the     *)
(* lane it may grow, also for those that left the buffer: whose voice they *)
(* were given to when they joined, whether they were spoken against, and   *)
(* their generation.                                                       *)
Covers(ctx) ==
  \A w \in 1 .. lnWords : lnLane[w] = ctx.last =>
    /\ lnEvAt[w] \in Voices => lnEvAt[w] = ctx.anchor
    /\ lnEvAt[w] = Adverse <=> ctx.adverse
    /\ lnGenOf[w] = lnGen

(* A remembered endpoint of the lane remembers the same voice. *)
Remembers(ctx, ends) ==
  \A e \in ends :
    /\ e.route # 0 /\ (e.route = ctx.last => e.anchor = ctx.anchor)
    /\ \A f \in ends : f = e

Context(ctx) ==
  /\ DOMAIN ctx = {"last", "turn", "anchor", "adverse", "cont", "end"}
  /\ ctx.last \in 0 .. lnWords /\ ctx.anchor \in Voices \cup {Nobody} /\ ctx.adverse \in BOOLEAN

LaneTypes ==
  /\ lnWords \in 0 .. MaxWords
  /\ lnEv \in [Words -> Voices \cup {Nobody, Adverse}]
  /\ lnEvAt \in [Words -> Voices \cup {Nobody, Adverse}]
  /\ lnLane \in [Words -> Nat] /\ \A w \in 1 .. lnWords : lnLane[w] \in 1 .. w
  /\ DOMAIN lnGenOf = Words /\ DOMAIN lnView = {"turn", "route", "carried", "ended"}
  /\ lnView.ended \in BOOLEAN

LaneInv ==
  /\ LaneTypes /\ Context(lnCtx) /\ Covers(lnCtx)
  /\ Remembers(lnCtx, lnCtx.end) /\ Remembers(lnCtx, lnView.carried)
  /\ lnCtx.end # {} => lnView.ended
  /\ LanesHoldOneVoice

(* What the constants are. *)
Named == MaxWords \in Nat /\ IsFiniteSet(Voices) /\ {Nobody, Adverse} \cap Voices = {} /\ Nobody # Adverse

-----------------------------------------------------------------------------
(* A compatible word agrees with the voice its lane was given to.          *)
LEMMA CompatibleVoice ==
  ASSUME Named, LaneTypes, NEW r, NEW ev \in Voices \cup {Nobody, Adverse},
         NEW anchor \in Voices \cup {Nobody}, Compatible(r, ev, anchor)
  PROVE  /\ ev # Adverse
         /\ AnchorOf(r, ev, anchor) \in Voices \cup {Nobody}
         /\ ev \in Voices => AnchorOf(r, ev, anchor) = ev
         /\ anchor \in Voices => AnchorOf(r, ev, anchor) = anchor
<1> DEFINE C == ConfirmedVoices(r, ev, anchor)
<1>1. C \in SUBSET Voices
  <2>1. \A v \in Pending(r) : v \in Words
    BY DEF Pending, LaneTypes, Words, Named
  <2>2. \A v \in Pending(r) : lnEv[v] \in Voices \cup {Nobody, Adverse}
    BY <2>1 DEF LaneTypes
  <2> QED
    BY <2>2 DEF ConfirmedVoices
<1>2. IsFiniteSet(C) /\ Cardinality(C) \in Nat /\ Cardinality(C) <= 1
  BY <1>1, FS_Subset, FS_CardinalityType DEF Named, Compatible
<1>3. \A x, y \in C : x = y
  <2>1. CASE Cardinality(C) = 0
    BY <1>2, <2>1, FS_EmptySet
  <2>2. CASE Cardinality(C) = 1
    <3>1. PICK x : C = {x}
      BY <1>2, <2>2, FS_Singleton
    <3> QED
      BY <3>1
  <2> QED
    BY <1>2, <2>1, <2>2
<1>4. ev # Adverse
  BY DEF Compatible
<1>5. ev \in Voices => ev \in C
  BY DEF ConfirmedVoices, Named
<1>6. anchor \in Voices => anchor \in C
  BY DEF ConfirmedVoices, Named
<1>7. AnchorOf(r, ev, anchor) = IF C = {} THEN Nobody ELSE CHOOSE v \in C : TRUE
  BY DEF AnchorOf
<1> HIDE DEF C
<1>8. C # {} => AnchorOf(r, ev, anchor) \in C
  BY <1>7
<1>9. C = {} => AnchorOf(r, ev, anchor) = Nobody
  BY <1>7
<1> QED
  BY <1>1, <1>3, <1>4, <1>5, <1>6, <1>8, <1>9

(* A new segment, or a new generation, only forgets. *)
LEMMA EnteredKeeps ==
  ASSUME LaneInv, NEW g, NEW new \in BOOLEAN, NEW joined \in BOOLEAN, lnView.ended => new,
         NEW in, in = Entered(g, new, joined)
  PROVE  /\ Context(in.ctx) /\ in.ctx.end = {}
         /\ g # lnGen => in.ctx.last = 0
         /\ Covers(in.ctx) /\ Remembers(in.ctx, in.view.carried)
         /\ DOMAIN in.view = {"turn", "route", "carried", "ended"}
<1> DEFINE ctx == IF g # lnGen THEN Broken ELSE lnCtx
<1>1. lnWords \in Nat /\ \A w \in 1 .. lnWords : lnLane[w] # 0
  BY DEF LaneInv, LaneTypes
<1>2. Context(Broken) /\ Broken.last = 0 /\ Broken.end = {} /\ Covers(Broken)
  BY <1>1 DEF Context, Broken, Covers
<1>3. /\ Context(ctx) /\ Covers(ctx) /\ (g # lnGen => ctx.last = 0)
      /\ Remembers(ctx, ctx.end) /\ Remembers(ctx, lnView.carried)
  BY <1>2 DEF LaneInv, Remembers
<1>4. CASE ~new
  <2>1. in = [ctx |-> ctx, view |-> lnView]
    BY <1>4 DEF Entered
  <2>2. in.ctx = ctx /\ in.view = lnView
    BY <2>1
  <2>3. ctx.end = {}
    BY <1>2, <1>4 DEF LaneInv
  <2> HIDE DEF ctx
  <2>4. DOMAIN in.view = {"turn", "route", "carried", "ended"}
    BY <2>2 DEF LaneInv, LaneTypes
  <2> QED
    BY <1>3, <2>2, <2>3, <2>4
<1>5. CASE new
  <2>1. /\ in.ctx = [ctx EXCEPT !.cont = 0, !.end = {}] /\ in.view.carried = ctx.end
        /\ DOMAIN in.view = {"turn", "route", "carried", "ended"}
    BY <1>5 DEF Entered
  <2> HIDE DEF ctx
  <2>2. /\ Context(in.ctx) /\ in.ctx.end = {} /\ in.ctx.last = ctx.last
        /\ in.ctx.anchor = ctx.anchor /\ in.ctx.adverse = ctx.adverse
    BY <1>3, <2>1 DEF Context
  <2>3. Covers(in.ctx) /\ Remembers(in.ctx, in.view.carried)
    BY <1>3, <2>1, <2>2 DEF Covers, Remembers
  <2> QED
    BY <1>3, <2>1, <2>2, <2>3
<1> QED
  BY <1>4, <1>5

(* The next word opens a lane of its own, or joins the lane of the word    *)
(* before it, whose voice it shares.                                       *)
Joins(in, out, w, ev) ==
  /\ DOMAIN out.ctx = {"last", "turn", "anchor", "adverse", "cont", "end"}
  /\ DOMAIN out.view = {"turn", "route", "carried", "ended"}
  /\ out.view.route = out.ctx.last /\ out.view.carried = {} /\ out.ctx.end = {}
  /\ out.ctx.anchor \in Voices \cup {Nobody}
  /\ out.ctx.adverse \in BOOLEAN /\ (out.ctx.adverse <=> ev = Adverse)
  /\ ev \in Voices => out.ctx.anchor = ev
  /\ \/ out.ctx.last = w
     \/ /\ out.ctx.last = in.ctx.last /\ in.ctx.last # 0
        /\ in.ctx.adverse <=> ev = Adverse
        /\ ~in.ctx.adverse /\ in.ctx.anchor \in Voices => out.ctx.anchor = in.ctx.anchor

(* That is what placing a word does. *)
LEMMA PlacedJoins ==
  ASSUME Named, LaneTypes, NEW in, NEW w \in Nat \ {0},
         NEW ev \in Voices \cup {Nobody, Adverse}, NEW near \in BOOLEAN,
         Context(in.ctx), in.ctx.end = {}, Remembers(in.ctx, in.view.carried),
         NEW out, out = Placed(in, w, ev, near)
  PROVE  Joins(in, out, w, ev)
<1>2. PICK e : e = CHOOSE x \in in.view.carried : TRUE
  OBVIOUS
<1>3. PICK ctx : ctx = IF Resumes(in.ctx, in.view, ev, near)
                       THEN [in.ctx EXCEPT !.anchor = AnchorOf(e.route, ev, e.anchor)] ELSE in.ctx
  OBVIOUS
<1>4. /\ DOMAIN ctx = {"last", "turn", "anchor", "adverse", "cont", "end"}
      /\ ctx.last = in.ctx.last /\ ctx.adverse = in.ctx.adverse /\ ctx.end = {}
      /\ ctx.anchor \in Voices \cup {Nobody}
      /\ in.ctx.anchor \in Voices => ctx.anchor = in.ctx.anchor
  <2>1. CASE Resumes(in.ctx, in.view, ev, near)
    <3>1. PICK f \in in.view.carried : f.route = in.ctx.last /\ Compatible(f.route, ev, f.anchor)
      BY <2>1 DEF Resumes
    <3>2. e \in in.view.carried
      BY <1>2, <3>1
    <3>3. f = e /\ e.anchor = in.ctx.anchor
      BY <3>1, <3>2 DEF Remembers
    <3>4. /\ AnchorOf(e.route, ev, e.anchor) \in Voices \cup {Nobody}
          /\ e.anchor \in Voices => AnchorOf(e.route, ev, e.anchor) = e.anchor
      BY <3>1, <3>3, CompatibleVoice DEF Context
    <3> QED
      BY <1>3, <2>1, <3>3, <3>4 DEF Context
  <2>2. CASE ~Resumes(in.ctx, in.view, ev, near)
    BY <1>3, <2>2 DEF Context
  <2> QED
    BY <2>1, <2>2
<1>5. PICK turn : turn = IF Resumes(in.ctx, in.view, ev, near) THEN e.turn ELSE in.view.turn
  OBVIOUS
<1>6. PICK own : own = IF ev \in Voices THEN ev ELSE Nobody
  OBVIOUS
<1>7. PICK route : route = IF Reuses(ctx, turn, ev) THEN ctx.last ELSE w
  OBVIOUS
<1>8. PICK anchor : anchor = IF ~Reuses(ctx, turn, ev) THEN own
                             ELSE IF ev = Adverse THEN Nobody ELSE AnchorOf(ctx.last, ev, ctx.anchor)
  OBVIOUS
<1>10. /\ out.ctx = [ctx EXCEPT !.last = route, !.turn = turn, !.adverse = ev = Adverse, !.anchor = anchor]
       /\ out.view = [turn |-> turn, route |-> route, carried |-> {}, ended |-> FALSE]
  BY <1>2, <1>3, <1>5, <1>6, <1>7, <1>8 DEF Placed
<1>11. /\ DOMAIN out.ctx = {"last", "turn", "anchor", "adverse", "cont", "end"}
       /\ DOMAIN out.view = {"turn", "route", "carried", "ended"}
       /\ out.ctx.last = route /\ out.view.route = route /\ out.view.carried = {}
       /\ out.ctx.end = {} /\ out.ctx.anchor = anchor
       /\ out.ctx.adverse = (ev = Adverse)
  BY <1>4, <1>10
<1>12. CASE ~Reuses(ctx, turn, ev)
  BY <1>6, <1>7, <1>8, <1>11, <1>12 DEF Named, Joins
<1>13. CASE Reuses(ctx, turn, ev)
  <2>1. /\ route = in.ctx.last /\ in.ctx.last # 0 /\ (in.ctx.adverse <=> ev = Adverse)
        /\ ev # Adverse => Compatible(ctx.last, ev, ctx.anchor)
    BY <1>4, <1>7, <1>13 DEF Reuses, Context
  <2>2. CASE ev = Adverse
    BY <1>8, <1>11, <1>13, <2>1, <2>2 DEF Named, Joins
  <2>3. CASE ev # Adverse
    <3>1. /\ anchor \in Voices \cup {Nobody} /\ (ev \in Voices => anchor = ev)
          /\ in.ctx.anchor \in Voices => anchor = in.ctx.anchor
      BY <1>4, <1>8, <1>13, <2>1, <2>3, CompatibleVoice
    <3> QED
      BY <1>11, <2>1, <2>3, <3>1 DEF Joins
  <2> QED
    BY <2>2, <2>3
<1> QED
  BY <1>12, <1>13

(* How a segment ends changes only what is remembered for the next one. *)
LEMMA EndedKeeps ==
  ASSUME NEW ctx, NEW view, NEW reason, NEW mine, ctx.end = {},
         DOMAIN ctx = {"last", "turn", "anchor", "adverse", "cont", "end"},
         NEW end, end = EndedCtx(ctx, view, reason, mine)
  PROVE  /\ DOMAIN end = DOMAIN ctx /\ end.last = ctx.last /\ end.anchor = ctx.anchor
         /\ end.adverse = ctx.adverse /\ (end.end # {} => reason = "endpoint")
         /\ Remembers(end, end.end)
<1>1. CASE reason = "max_window"
  <2>1. end = [ctx EXCEPT !.cont = view.turn, !.end = {}]
    BY <1>1 DEF EndedCtx
  <2> QED
    BY <2>1 DEF Remembers
<1>2. CASE reason = "endpoint"
  <2>1. PICK word : word = CHOOSE w \in LastOf(mine) : TRUE
    OBVIOUS
  <2>2. end = [ctx EXCEPT !.cont = 0,
                 !.end = IF view.route # 0 /\ view.route = ctx.last /\ mine # {}
                         THEN {[turn |-> view.turn, route |-> view.route, anchor |-> ctx.anchor,
                                word |-> word]} ELSE {}]
    BY <1>2, <2>1 DEF EndedCtx
  <2>3. CASE view.route # 0 /\ view.route = ctx.last /\ mine # {}
    <3>1. PICK e : e = [turn |-> view.turn, route |-> view.route, anchor |-> ctx.anchor, word |-> word]
      OBVIOUS
    <3>2. e.route = view.route /\ e.anchor = ctx.anchor
      BY <3>1
    <3>3. end = [ctx EXCEPT !.cont = 0, !.end = {e}]
      BY <2>2, <2>3, <3>1
    <3> QED
      BY <1>2, <2>3, <3>2, <3>3 DEF Remembers
  <2>4. CASE ~(view.route # 0 /\ view.route = ctx.last /\ mine # {})
    BY <2>2, <2>4 DEF Remembers
  <2> QED
    BY <2>3, <2>4
<1>3. CASE reason \in {"transcript_inactivity", "stop"}
  <2>1. end = [ctx EXCEPT !.cont = 0, !.end = {}]
    BY <1>3 DEF EndedCtx
  <2> QED
    BY <2>1 DEF Remembers
<1>4. CASE reason \notin {"max_window", "endpoint", "transcript_inactivity", "stop"}
  <2>1. end = ctx
    BY <1>4 DEF EndedCtx
  <2> QED
    BY <2>1 DEF Remembers
<1> QED
  BY <1>1, <1>2, <1>3, <1>4

(* A whole accept(). *)
LEMMA AcceptLane ==
  ASSUME Named, LaneInv, NEW g, NEW new \in BOOLEAN, NEW joined \in BOOLEAN, NEW word \in BOOLEAN,
         NEW ev \in Voices \cup {Nobody, Adverse}, NEW near \in BOOLEAN, NEW reason,
         word => lnWords < MaxWords, Accept(g, new, joined, word, ev, near, reason)
  PROVE  LaneInv'
<1>0. LaneTypes /\ lnWords \in Nat /\ lnWords + 1 \in Nat \ {0} /\ MaxWords \in Nat
  BY DEF LaneInv, LaneTypes, Named
<1>1. PICK in : in = Entered(g, new, joined)
  OBVIOUS
<1>2. PICK w : w = lnWords + 1
  OBVIOUS
<1>3. PICK out : out = IF word THEN Placed(in, w, ev, near)
                       ELSE [ctx |-> in.ctx, view |-> in.view, soft |-> lnSoft]
  OBVIOUS
<1>4. \E mine : lnCtx' = EndedCtx(out.ctx, out.view, reason, mine)
  BY <1>1, <1>2, <1>3 DEF Accept
<1>5. PICK mine : lnCtx' = EndedCtx(out.ctx, out.view, reason, mine)
  BY <1>4
<1>6. /\ lnView.ended => new
      /\ lnGen' = g
      /\ lnWords' = IF word THEN w ELSE lnWords
      /\ lnLane' = IF word THEN [lnLane EXCEPT ![w] = out.view.route] ELSE lnLane
      /\ lnEvAt' = IF word THEN [lnEvAt EXCEPT ![w] = ev] ELSE lnEvAt
      /\ lnEv' = IF word THEN [lnEv EXCEPT ![w] = ev] ELSE lnEv
      /\ lnGenOf' = IF word THEN [lnGenOf EXCEPT ![w] = g] ELSE lnGenOf
      /\ lnView' = [out.view EXCEPT !.ended = reason # "live"]
  BY <1>1, <1>2, <1>3 DEF Accept
<1>7. /\ Context(in.ctx) /\ in.ctx.end = {} /\ (g # lnGen => in.ctx.last = 0)
      /\ Covers(in.ctx) /\ Remembers(in.ctx, in.view.carried)
      /\ DOMAIN in.view = {"turn", "route", "carried", "ended"}
  BY ZenonT(30), <1>1, <1>6, EnteredKeeps
<1>13. word => out = Placed(in, w, ev, near)
  BY <1>3
<1>14. w \in Nat \ {0} /\ LaneTypes
  BY <1>0, <1>2
<1>15. word => Joins(in, out, w, ev)
  BY <1>7, <1>13, <1>14, PlacedJoins
<1>8. /\ DOMAIN out.ctx = {"last", "turn", "anchor", "adverse", "cont", "end"}
      /\ DOMAIN out.view = {"turn", "route", "carried", "ended"} /\ out.ctx.end = {}
      /\ out.ctx.anchor \in Voices \cup {Nobody} /\ out.ctx.adverse \in BOOLEAN
  <2>1. CASE word
    BY <1>15, <2>1 DEF Joins
  <2>2. CASE ~word
    BY <1>3, <1>7, <2>2 DEF Context
  <2> QED
    BY <2>1, <2>2
<1>9. /\ DOMAIN lnCtx' = DOMAIN out.ctx /\ lnCtx'.last = out.ctx.last
      /\ lnCtx'.anchor = out.ctx.anchor /\ lnCtx'.adverse = out.ctx.adverse
      /\ lnCtx'.end # {} => reason = "endpoint"
      /\ Remembers(lnCtx', lnCtx'.end)
  <2>1. PICK end : end = EndedCtx(out.ctx, out.view, reason, mine)
    OBVIOUS
  <2> QED
    BY <1>5, <1>8, <2>1, EndedKeeps
<1>10. /\ DOMAIN lnView' = {"turn", "route", "carried", "ended"} /\ lnView'.carried = out.view.carried
       /\ lnView'.ended \in BOOLEAN /\ (reason = "endpoint" => lnView'.ended)
  BY <1>6, <1>8
<1>11. CASE word
  <2>1. /\ out.view.route = out.ctx.last /\ out.view.carried = {}
        /\ out.ctx.adverse <=> ev = Adverse
        /\ ev \in Voices => out.ctx.anchor = ev
        /\ \/ out.ctx.last = w
           \/ /\ out.ctx.last = in.ctx.last /\ in.ctx.last # 0
              /\ in.ctx.adverse <=> ev = Adverse
              /\ ~in.ctx.adverse /\ in.ctx.anchor \in Voices => out.ctx.anchor = in.ctx.anchor
    BY <1>11, <1>15 DEF Joins
  <2>2. /\ w \in Words /\ lnWords' = w /\ w = lnWords + 1
        /\ lnLane' = [lnLane EXCEPT ![w] = out.ctx.last] /\ lnEvAt' = [lnEvAt EXCEPT ![w] = ev]
        /\ lnEv' = [lnEv EXCEPT ![w] = ev] /\ lnGenOf' = [lnGenOf EXCEPT ![w] = g]
    BY <1>0, <1>2, <1>6, <1>11, <2>1 DEF Words
  <2>3. out.ctx.last \in 1 .. w
    BY <1>0, <1>7, <2>1, <2>2 DEF Context
  <2>4. /\ lnLane'[w] = out.ctx.last /\ lnEvAt'[w] = ev /\ lnGenOf'[w] = g
        /\ \A v \in 1 .. lnWords : v # w /\ v \in Words /\ lnLane'[v] = lnLane[v]
             /\ lnEvAt'[v] = lnEvAt[v] /\ lnGenOf'[v] = lnGenOf[v]
        /\ 1 .. lnWords' = (1 .. lnWords) \cup {w}
    BY <1>0, <2>2 DEF LaneTypes, Words
  <2>5. LaneTypes'
    <3>1. lnWords' \in 0 .. MaxWords
      BY <1>0, <2>2 DEF Words
    <3>2. /\ lnEv' \in [Words -> Voices \cup {Nobody, Adverse}]
          /\ lnEvAt' \in [Words -> Voices \cup {Nobody, Adverse}]
          /\ lnLane' \in [Words -> Nat] /\ DOMAIN lnGenOf' = Words
      BY <1>0, <2>2, <2>3 DEF LaneTypes
    <3>3. \A v \in 1 .. lnWords' : lnLane'[v] \in 1 .. v
      BY <1>0, <2>3, <2>4 DEF LaneTypes
    <3> QED
      BY <1>10, <3>1, <3>2, <3>3 DEF LaneTypes
  <2>6. Context(lnCtx)'
    BY <1>0, <1>8, <1>9, <2>2, <2>3 DEF Context
  <2>7. \A v \in 1 .. lnWords : lnLane[v] = out.ctx.last =>
          /\ lnEvAt[v] \in Voices => lnEvAt[v] = out.ctx.anchor
          /\ lnEvAt[v] = Adverse <=> ev = Adverse
          /\ lnGenOf[v] = g
    <3>1. CASE out.ctx.last = w
      BY <1>0, <2>2, <3>1 DEF LaneTypes
    <3>2. CASE out.ctx.last = in.ctx.last /\ in.ctx.last # 0
      <4>1. /\ g = lnGen /\ (in.ctx.adverse <=> ev = Adverse)
            /\ ~in.ctx.adverse /\ in.ctx.anchor \in Voices => out.ctx.anchor = in.ctx.anchor
        BY <1>0, <1>7, <2>1, <2>2, <3>2 DEF Context
      <4>2. Adverse \notin Voices
        BY DEF Named
      <4> QED
        BY <1>7, <3>2, <4>1, <4>2 DEF Covers
    <3> QED
      BY <2>1, <3>1, <3>2
  <2>8. Covers(lnCtx)'
    BY <1>6, <1>9, <2>1, <2>2, <2>4, <2>7 DEF Covers, Named
  <2>9. LanesHoldOneVoice'
    <3>1. LanesHoldOneVoice
      BY DEF LaneInv
    <3>2. \A u, v \in 1 .. lnWords : lnLane'[u] = lnLane'[v] =>
            /\ {lnEvAt'[u], lnEvAt'[v]} \subseteq Voices => lnEvAt'[u] = lnEvAt'[v]
            /\ lnEvAt'[u] = Adverse <=> lnEvAt'[v] = Adverse
            /\ lnGenOf'[u] = lnGenOf'[v]
      BY <2>4, <3>1 DEF LanesHoldOneVoice
    <3>3. \A v \in 1 .. lnWords : lnLane'[v] = lnLane'[w] =>
            /\ {lnEvAt'[v], lnEvAt'[w]} \subseteq Voices => lnEvAt'[v] = lnEvAt'[w]
            /\ lnEvAt'[v] = Adverse <=> lnEvAt'[w] = Adverse
            /\ lnGenOf'[v] = lnGenOf'[w]
      BY <2>1, <2>4, <2>7
    <3>4. \A u, v \in (1 .. lnWords) \cup {w} : lnLane'[u] = lnLane'[v] =>
            /\ {lnEvAt'[u], lnEvAt'[v]} \subseteq Voices => lnEvAt'[u] = lnEvAt'[v]
            /\ lnEvAt'[u] = Adverse <=> lnEvAt'[v] = Adverse
            /\ lnGenOf'[u] = lnGenOf'[v]
      BY <3>2, <3>3
    <3> QED
      BY <2>4, <3>4 DEF LanesHoldOneVoice
  <2>10. Remembers(lnCtx, lnView.carried)'
    BY <1>10, <2>1 DEF Remembers
  <2> QED
    BY <1>9, <1>10, <2>5, <2>6, <2>8, <2>9, <2>10 DEF LaneInv, Remembers
<1>12. CASE ~word
  <2>1. out.ctx = in.ctx /\ out.view = in.view
    BY <1>3, <1>12
  <2>2. UNCHANGED <<lnWords, lnLane, lnEvAt, lnEv, lnGenOf>>
    BY <1>6, <1>12
  <2>3. LaneTypes' /\ LanesHoldOneVoice'
    BY <1>10, <2>2 DEF LaneInv, LaneTypes, LanesHoldOneVoice
  <2>4. Context(lnCtx)'
    BY <1>7, <1>8, <1>9, <2>1, <2>2 DEF Context
  <2>5. Covers(lnCtx)'
    <3>1. \A v \in 1 .. lnWords : lnLane[v] # 0
      BY <1>0 DEF LaneTypes
    <3> QED
      BY <1>6, <1>7, <1>9, <2>1, <2>2, <3>1 DEF Covers
  <2>6. Remembers(lnCtx, lnView.carried)'
    BY <1>7, <1>9, <1>10, <2>1 DEF Remembers
  <2> QED
    BY <1>9, <1>10, <2>3, <2>4, <2>5, <2>6 DEF LaneInv, Remembers
<1> QED
  BY <1>11, <1>12

(* However late the evidence about who speaks arrives: the words of one    *)
(* lane were never given to two voices, to an overlap and to one voice, or *)
(* to both sides of a hole.                                                *)
THEOREM LanesAreOneVoice ==
  ASSUME Named
  PROVE  LnSpec => []LanesHoldOneVoice
<1>1. LnInit => LaneInv
  BY DEF Named, LnInit, LaneInv, LaneTypes, Context, Covers, Remembers, LanesHoldOneVoice, Broken,
     Fresh, Words
<1>2. LaneInv /\ [LnNext]_lnVars => LaneInv'
  <2> SUFFICES ASSUME LaneInv, [LnNext]_lnVars PROVE LaneInv'
    OBVIOUS
  <2>1. CASE AcceptsWord
    BY <2>1, AcceptLane DEF AcceptsWord
  <2>2. CASE EvidenceArrives \/ WordsLeave \/ UNCHANGED lnVars
    <3>1. UNCHANGED <<lnEvAt, lnLane, lnGenOf, lnWords, lnGen, lnCtx, lnView>>
      BY <2>2 DEF EvidenceArrives, WordsLeave, lnVars
    <3>2. lnEv' \in [Words -> Voices \cup {Nobody, Adverse}]
      BY <2>2 DEF EvidenceArrives, WordsLeave, lnVars, LaneInv, LaneTypes
    <3> QED
      BY <3>1, <3>2 DEF LaneInv, LaneTypes, Context, Covers, Remembers, LanesHoldOneVoice
  <2> QED
    BY <2>1, <2>2 DEF LnNext
<1>3. LaneInv => LanesHoldOneVoice
  BY DEF LaneInv
<1> QED
  BY <1>1, <1>2, <1>3, PTL DEF LnSpec

-----------------------------------------------------------------------------
(* NaturalBoundaries.  Marks may be set while a request is out, but only on *)
(* the last pending unit, which is no inner unit of the request.            *)

(* The pending units are in the order of their arrival. *)
Arrived ==
  /\ nbNext \in Nat /\ nbPending \in Seq(Nat)
  /\ \A i \in 1 .. Len(nbPending) : nbPending[i] < nbNext
  /\ \A i, j \in 1 .. Len(nbPending) : i < j => nbPending[i] < nbPending[j]

(* A request was made of the first pending units, none of which but the    *)
(* last is a boundary, and so they are still.                              *)
OneTurn ==
  Querying =>
    /\ nbUnits \in Seq(Nat) /\ Len(nbUnits) \in 1 .. Len(nbPending)
    /\ \A j \in 1 .. Len(nbUnits) : nbUnits[j] = nbPending[j]
    /\ \A j \in 1 .. Len(nbUnits) - 1 : nbPending[j] \notin nbSoft \cup nbHard

TurnInv == Arrived /\ OneTurn

(* What is left of the pending units is in their order. *)
LEMMA RestArrived ==
  ASSUME Arrived, NEW n \in Nat, n <= Len(nbPending), nbPending' = SubSeq(nbPending, n + 1, Len(nbPending)),
         nbNext' = nbNext
  PROVE  Arrived'
<1>1. PICK m \in Nat : m = Len(nbPending) - n /\ Len(nbPending) = n + m
  <2>1. Len(nbPending) \in Nat
    BY DEF Arrived
  <2>2. Len(nbPending) - n \in Nat /\ Len(nbPending) = n + (Len(nbPending) - n)
    BY <2>1
  <2> QED
    BY <2>2
<1>2. nbPending \in Seq(Nat) /\ nbNext \in Nat
  BY DEF Arrived
<1>3. nbPending' \in Seq(Nat) /\ Len(nbPending') = m
  <2>1. nbPending' \in Seq(Nat) /\ Len(nbPending') = IF n + 1 <= n + m THEN (n + m) - (n + 1) + 1 ELSE 0
    <3>1. n + 1 \in Int /\ n + m \in Int /\ \A i \in n + 1 .. n + m : nbPending[i] \in Nat
      BY <1>1, <1>2
    <3> QED
      BY <1>1, <3>1, SubSeqProperties
  <2> QED
    BY <1>1, <2>1
<1>4. ASSUME NEW i \in 1 .. m PROVE nbPending'[i] = nbPending[n + i] /\ n + i \in 1 .. Len(nbPending)
  <2>1. n + 1 \in Int /\ n + m \in Int /\ \A k \in n + 1 .. n + m : nbPending[k] \in Nat
    BY <1>1, <1>2
  <2>2. \A k \in 1 .. (n + m) - (n + 1) + 1 : nbPending'[k] = nbPending[(n + 1) + k - 1]
    BY <1>1, <2>1, SubSeqProperties
  <2>3. (n + m) - (n + 1) + 1 = m /\ (n + 1) + i - 1 = n + i
    BY <1>1
  <2> QED
    BY <1>1, <2>2, <2>3
<1>5. ASSUME NEW i \in 1 .. m, NEW j \in 1 .. m, i < j PROVE nbPending'[i] < nbPending'[j]
  <2>1. n + i < n + j
    BY <1>5
  <2> QED
    BY <1>4, <2>1 DEF Arrived
<1> QED
  BY <1>2, <1>3, <1>4, <1>5 DEF Arrived

(* Only the last pending unit is marked, and boundaries become harder. *)
LEMMA MarksLast ==
  ASSUME TurnInv, nbPending # <<>>, nbSoft' \cup nbHard' \subseteq nbSoft \cup nbHard \cup {Last_(nbPending)},
         UNCHANGED <<nbNext, nbPending, nbRequest, nbUnits>>
  PROVE  TurnInv'
<1>1. Arrived'
  BY DEF TurnInv, Arrived
<1>2. ASSUME Querying, NEW j \in 1 .. Len(nbUnits) - 1 PROVE nbPending[j] \notin nbSoft' \cup nbHard'
  <2>1. Len(nbPending) \in Nat /\ Len(nbUnits) \in 1 .. Len(nbPending)
    BY <1>2 DEF TurnInv, OneTurn, Arrived
  <2>2. j \in 1 .. Len(nbPending) /\ Len(nbPending) \in 1 .. Len(nbPending) /\ j < Len(nbPending)
    BY <2>1
  <2>3. nbPending[j] < nbPending[Len(nbPending)] /\ nbPending[j] \in Nat
    BY <2>2 DEF TurnInv, Arrived
  <2>4. nbPending[j] # Last_(nbPending)
    BY <2>2, <2>3 DEF Last_, TurnInv, Arrived
  <2> QED
    BY <1>2, <2>4 DEF TurnInv, OneTurn
<1>3. OneTurn'
  BY <1>2 DEF TurnInv, OneTurn, Querying
<1> QED
  BY <1>1, <1>3 DEF TurnInv

(* The head ends at the first boundary. *)
LEMMA HeadEnds ==
  ASSUME Arrived, nbPending # <<>>
  PROVE  /\ HeadLen \in 1 .. Len(nbPending)
         /\ \A j \in 1 .. HeadLen - 1 : nbPending[j] \notin nbSoft \cup nbHard
<1>1. Len(nbPending) \in Nat /\ Len(nbPending) # 0
  BY DEF Arrived
<1>2. PICK marks : marks = {i \in 1 .. Len(nbPending) : nbPending[i] \in nbSoft \cup nbHard}
  OBVIOUS
<1>3. HeadLen = IF marks = {} THEN Len(nbPending) ELSE CHOOSE i \in marks : \A j \in marks : i <= j
  BY <1>2 DEF HeadLen
<1>4. CASE marks = {}
  <2>1. HeadLen = Len(nbPending)
    BY <1>3, <1>4
  <2> QED
    BY <1>1, <1>2, <1>4, <2>1
<1>5. CASE marks # {}
  <2>1. \E i \in marks : \A j \in marks : i <= j
    <3>1. marks \in SUBSET Nat
      BY <1>2
    <3> QED
      BY <1>5, <3>1, LeastNatural
  <2>2. HeadLen \in marks /\ \A j \in marks : HeadLen <= j
    BY <1>3, <1>5, <2>1
  <2>3. HeadLen \in 1 .. Len(nbPending)
    BY <1>2, <2>2
  <2>4. ASSUME NEW j \in 1 .. HeadLen - 1, nbPending[j] \in nbSoft \cup nbHard PROVE FALSE
    BY <1>1, <1>2, <2>2, <2>3, <2>4
  <2> QED
    BY <2>3, <2>4
<1> QED
  BY <1>4, <1>5

-----------------------------------------------------------------------------
(* The units of a request leave the buffer. *)
LEMMA RequestLeaves ==
  ASSUME TurnInv, Querying, NEW n \in 1 .. Len(nbUnits), RemovePrefix(n), nbNext' = nbNext,
         nbRequest' \in {"none", "lingering"}
  PROVE  TurnInv'
<1>1. Len(nbUnits) \in 1 .. Len(nbPending) /\ Len(nbPending) \in Nat
  BY DEF TurnInv, OneTurn, Arrived
<1>2. n \in Nat /\ n <= Len(nbPending)
  BY <1>1
<1>3. Arrived'
  BY <1>2, RestArrived DEF RemovePrefix, TurnInv
<1> QED
  BY <1>3 DEF TurnInv, OneTurn, Querying

(* What a request hands over has no boundary inside. *)
LEMMA GivenApart ==
  ASSUME TurnInv, Querying, NEW n \in 1 .. Len(nbUnits), nbGiven' = SubSeq(nbUnits, 1, n)
  PROVE  \A j \in 1 .. Len(nbGiven') - 1 : nbGiven'[j] \notin nbSoft \cup nbHard
<1>1. nbUnits \in Seq(Nat) /\ Len(nbUnits) \in Nat /\ n \in Nat /\ n <= Len(nbUnits)
  BY DEF TurnInv, OneTurn
<1>2. 1 \in Int /\ n \in Int /\ \A i \in 1 .. n : nbUnits[i] \in Nat
  BY <1>1
<1>3. /\ Len(nbGiven') = IF 1 <= n THEN n - 1 + 1 ELSE 0
      /\ \A i \in 1 .. n - 1 + 1 : nbGiven'[i] = nbUnits[1 + i - 1]
  BY <1>2, SubSeqProperties
<1>4. Len(nbGiven') = n /\ \A i \in 1 .. n : nbGiven'[i] = nbUnits[i]
  BY <1>1, <1>3
<1>5. ASSUME NEW j \in 1 .. n - 1 PROVE j \in 1 .. n /\ j \in 1 .. Len(nbUnits) /\ j \in 1 .. Len(nbUnits) - 1
  BY <1>1
<1> QED
  BY <1>4, <1>5 DEF TurnInv, OneTurn

(* Nor has it when all of it is handed over. *)
LEMMA WholeGivenApart ==
  ASSUME TurnInv, Querying, nbGiven' = nbUnits
  PROVE  \A j \in 1 .. Len(nbGiven') - 1 : nbGiven'[j] \notin nbSoft \cup nbHard
BY DEF TurnInv, OneTurn

(* A request is made of the head. *)
LEMMA QueryTurn ==
  ASSUME TurnInv, Query PROVE TurnInv'
<1>1. Arrived /\ nbPending # <<>> /\ nbUnits' = SubSeq(nbPending, 1, HeadLen)
  BY DEF TurnInv, Query, Units_
<1>2. PICK n : n = HeadLen
  OBVIOUS
<1>3. n \in 1 .. Len(nbPending) /\ \A j \in 1 .. n - 1 : nbPending[j] \notin nbSoft \cup nbHard
  BY <1>1, <1>2, HeadEnds
<1>4. nbPending \in Seq(Nat) /\ Len(nbPending) \in Nat
  BY <1>1 DEF Arrived
<1>5. 1 \in Int /\ n \in Int /\ \A i \in 1 .. n : nbPending[i] \in Nat
  BY <1>3, <1>4
<1>6. /\ nbUnits' \in Seq(Nat) /\ Len(nbUnits') = IF 1 <= n THEN n - 1 + 1 ELSE 0
      /\ \A i \in 1 .. n - 1 + 1 : nbUnits'[i] = nbPending[1 + i - 1]
  BY <1>1, <1>2, <1>5, SubSeqProperties
<1>7. Len(nbUnits') = n /\ \A i \in 1 .. n : nbUnits'[i] = nbPending[i]
  BY <1>3, <1>6
<1>8. nbPending' = nbPending /\ nbSoft' = nbSoft /\ nbHard' = nbHard /\ nbNext' = nbNext
  BY DEF Query
<1>9. Arrived'
  BY <1>1, <1>8 DEF Arrived
<1>10. OneTurn'
  BY <1>3, <1>6, <1>7, <1>8 DEF OneTurn
<1> QED
  BY <1>9, <1>10 DEF TurnInv

(* A unit arrives, or is refused and seals what waits. *)
LEMMA AppendTurn ==
  ASSUME TurnInv, AppendUnit PROVE TurnInv'
<1>1. Arrived /\ nbPending \in Seq(Nat) /\ Len(nbPending) \in Nat /\ nbNext \in Nat /\ nbNext' = nbNext + 1
  BY DEF TurnInv, Arrived, AppendUnit
<1>2. nbUnits' = nbUnits /\ nbRequest' = nbRequest /\ nbSoft' = nbSoft
  BY DEF AppendUnit, Call
<1>3. CASE nbPending' = Append(nbPending, nbNext) /\ nbHard' = nbHard
  <2>1. /\ nbPending' \in Seq(Nat) /\ Len(nbPending') = Len(nbPending) + 1
        /\ nbPending'[Len(nbPending) + 1] = nbNext
        /\ \A i \in 1 .. Len(nbPending) : nbPending'[i] = nbPending[i]
    BY <1>1, <1>3
  <2>2. ASSUME NEW i \in 1 .. Len(nbPending') PROVE i \in 1 .. Len(nbPending) \/ i = Len(nbPending) + 1
    BY <1>1, <2>1
  <2>3. ASSUME NEW i \in 1 .. Len(nbPending') PROVE nbPending'[i] < nbNext + 1
    <3>1. CASE i \in 1 .. Len(nbPending)
      <4>1. nbPending[i] \in Nat /\ nbPending[i] < nbNext /\ nbPending'[i] = nbPending[i]
        BY <1>1, <2>1, <3>1 DEF Arrived
      <4> QED
        BY <1>1, <4>1
    <3>2. CASE i = Len(nbPending) + 1
      BY <1>1, <2>1, <3>2
    <3> QED
      BY <2>2, <3>1, <3>2
  <2>4. ASSUME NEW i \in 1 .. Len(nbPending'), NEW j \in 1 .. Len(nbPending'), i < j
        PROVE  nbPending'[i] < nbPending'[j]
    <3>1. i \in 1 .. Len(nbPending)
      BY <1>1, <2>1, <2>4
    <3>2. CASE j \in 1 .. Len(nbPending)
      BY <1>1, <2>1, <2>4, <3>1, <3>2 DEF Arrived
    <3>3. CASE j = Len(nbPending) + 1
      BY <1>1, <2>1, <3>1, <3>3 DEF Arrived
    <3> QED
      BY <2>2, <3>2, <3>3
  <2>5. Arrived'
    BY <1>1, <2>1, <2>3, <2>4 DEF Arrived
  <2>6. ASSUME Querying
        PROVE  /\ nbUnits \in Seq(Nat) /\ Len(nbUnits) \in 1 .. Len(nbPending')
               /\ \A j \in 1 .. Len(nbUnits) : nbUnits[j] = nbPending'[j]
               /\ \A j \in 1 .. Len(nbUnits) - 1 : nbPending'[j] \notin nbSoft \cup nbHard
    <3>1. nbUnits \in Seq(Nat) /\ Len(nbUnits) \in 1 .. Len(nbPending) /\ Len(nbUnits) \in Nat
      BY <2>6 DEF TurnInv, OneTurn
    <3>2. Len(nbUnits) \in 1 .. Len(nbPending')
      BY <1>1, <2>1, <3>1
    <3>3. ASSUME NEW j \in 1 .. Len(nbUnits) PROVE j \in 1 .. Len(nbPending)
      BY <1>1, <3>1
    <3>4. ASSUME NEW j \in 1 .. Len(nbUnits) - 1 PROVE j \in 1 .. Len(nbUnits)
      BY <3>1
    <3> QED
      BY <2>1, <2>6, <3>1, <3>2, <3>3, <3>4 DEF TurnInv, OneTurn
  <2> QED
    BY <1>2, <1>3, <2>5, <2>6 DEF TurnInv, OneTurn, Querying
<1>4. CASE nbPending' = nbPending /\ nbHard' = nbHard \cup {Last_(nbPending)}
  <2>1. Arrived'
    <3>1. ASSUME NEW i \in 1 .. Len(nbPending) PROVE nbPending[i] < nbNext + 1
      BY <1>1, <3>1 DEF Arrived
    <3> QED
      BY <1>1, <1>4, <3>1 DEF Arrived
  <2>2. ASSUME Querying, NEW j \in 1 .. Len(nbUnits) - 1 PROVE nbPending[j] \notin nbSoft \cup nbHard'
    <3>1. Len(nbUnits) \in 1 .. Len(nbPending)
      BY <2>2 DEF TurnInv, OneTurn
    <3>2. j \in 1 .. Len(nbPending) /\ Len(nbPending) \in 1 .. Len(nbPending) /\ j < Len(nbPending)
      BY <1>1, <3>1
    <3>3. nbPending[j] < nbPending[Len(nbPending)] /\ nbPending[j] \in Nat
      BY <1>1, <3>2 DEF Arrived
    <3>4. nbPending[j] # Last_(nbPending)
      BY <1>1, <3>2, <3>3 DEF Last_
    <3> QED
      BY <1>4, <2>2, <3>4 DEF TurnInv, OneTurn
  <2> QED
    BY <1>2, <1>4, <2>1, <2>2 DEF TurnInv, OneTurn, Querying
<1> QED
  BY <1>3, <1>4 DEF AppendUnit

(* A result never joins two turns, whatever marks and answers come when. *)
THEOREM TurnsAreApart == NbSpec => TurnsStayApart
<1>1. NbInit => TurnInv
  <2> SUFFICES ASSUME NbInit PROVE TurnInv
    OBVIOUS
  <2>1. Len(nbPending) = 0 /\ nbPending \in Seq(Nat) /\ nbNext = 1 /\ ~Querying
    BY DEF NbInit, Querying
  <2> QED
    BY <2>1 DEF TurnInv, Arrived, OneTurn
<1>2. ASSUME TurnInv, [NbNext]_nbVars
      PROVE  /\ TurnInv'
             /\ nbGiven' # nbGiven =>
                  \A j \in 1 .. Len(nbGiven') - 1 : nbGiven'[j] \notin nbSoft \cup nbHard
  <2>1. CASE AppendUnit
    BY <1>2, <2>1, AppendTurn DEF AppendUnit
  <2>2. CASE Query
    BY <1>2, <2>2, QueryTurn DEF Query
  <2>3. CASE NoteTranscription \/ FallsQuiet \/ Ages \/ CloseEnds \/ UNCHANGED nbVars
    BY <1>2, <2>3 DEF NoteTranscription, FallsQuiet, Ages, CloseEnds, nbVars, Call, TurnInv, Arrived, OneTurn, Querying
  <2>4. CASE RequestBoundary \/ ResumeBoundary \/ RequestFlush
    <3>1. nbPending # <<>> /\ UNCHANGED <<nbNext, nbPending, nbRequest, nbUnits, nbGiven>>
      BY <2>4 DEF RequestBoundary, ResumeBoundary, RequestFlush, FlushAll, Call
    <3>2. nbSoft' \cup nbHard' \subseteq nbSoft \cup nbHard \cup {Last_(nbPending)}
      BY <2>4 DEF RequestBoundary, ResumeBoundary, RequestFlush, FlushAll
    <3> QED
      BY <1>2, <3>1, <3>2, MarksLast
  <2>5. CASE CloseStarts
    <3>1. UNCHANGED <<nbNext, nbPending, nbRequest, nbUnits, nbGiven, nbSoft>>
      BY <2>5 DEF CloseStarts, FlushAll, Call
    <3>2. CASE nbPending = <<>>
      BY <1>2, <2>5, <3>1, <3>2 DEF CloseStarts, TurnInv, Arrived, OneTurn, Querying
    <3>3. CASE nbPending # <<>>
      <4>1. nbSoft' \cup nbHard' \subseteq nbSoft \cup nbHard \cup {Last_(nbPending)}
        BY <2>5, <3>1, <3>3 DEF CloseStarts, FlushAll
      <4> QED
        BY <1>2, <3>1, <3>3, <4>1, MarksLast
    <3> QED
      BY <3>2, <3>3
  <2>6. CASE SourceDeadline
    <3>1. PICK n : n = HeadLen
      OBVIOUS
    <3>2. Arrived /\ nbPending # <<>> /\ Len(nbPending) \in Nat
      BY <1>2, <2>6 DEF SourceDeadline, TurnInv, Arrived
    <3>3. n \in 1 .. Len(nbPending)
      BY <3>1, <3>2, HeadEnds
    <3>4. n \in Nat /\ n <= Len(nbPending)
      BY <3>2, <3>3
    <3>5. nbPending' = SubSeq(nbPending, n + 1, Len(nbPending)) /\ nbNext' = nbNext
      BY <2>6, <3>1 DEF SourceDeadline, RemovePrefix
    <3>6. Arrived'
      BY <3>2, <3>4, <3>5, RestArrived
    <3>7. ~Querying' /\ nbGiven' = nbGiven
      BY <2>6 DEF SourceDeadline, Call, Querying
    <3> QED
      BY <3>6, <3>7 DEF TurnInv, OneTurn
  <2>7. CASE Retry
    <3>1. Querying /\ UNCHANGED <<nbNext, nbPending, nbSoft, nbHard, nbUnits, nbGiven>>
      BY <2>7 DEF Retry, Querying
    <3> QED
      BY <1>2, <3>1 DEF TurnInv, Arrived, OneTurn
  <2>8. CASE RequestEnds
    <3>1. ~Querying' /\ UNCHANGED <<nbNext, nbPending, nbGiven>>
      BY <2>8 DEF RequestEnds, Querying
    <3> QED
      BY <1>2, <3>1 DEF TurnInv, Arrived, OneTurn
  <2>9. CASE ProviderCommits
    <3>1. Querying /\ nbNext' = nbNext /\ nbRequest' \in {"none", "lingering"}
      BY <2>9 DEF ProviderCommits, Returns
    <3>2. PICK n \in Selects(Len(nbUnits)) : RemovePrefix(n) /\ nbGiven' = SubSeq(nbUnits, 1, n)
      BY <2>9 DEF ProviderCommits
    <3>3. Len(nbUnits) \in Nat \ {0}
      BY <1>2, <3>1 DEF TurnInv, OneTurn, Arrived
    <3>4. n \in 1 .. Len(nbUnits)
      BY <3>2, <3>3 DEF Selects, Exposed
    <3> QED
      BY <1>2, <3>1, <3>2, <3>4, RequestLeaves, GivenApart
  <2>10. CASE ProviderWaits
    <3>1. Querying /\ nbNext' = nbNext /\ nbRequest' \in {"none", "lingering"}
      BY <2>10 DEF ProviderWaits, Returns
    <3>2. CASE RemovePrefix(Len(nbUnits)) /\ nbGiven' = nbUnits
      <4>1. Len(nbUnits) \in 1 .. Len(nbUnits)
        BY <1>2, <3>1 DEF TurnInv, OneTurn, Arrived
      <4> QED
        BY <1>2, <3>1, <3>2, <4>1, RequestLeaves, WholeGivenApart
    <3>3. CASE UNCHANGED <<nbPending, nbSoft, nbHard, nbAge, nbFlushed, nbGiven>>
      BY <1>2, <3>1, <3>3 DEF TurnInv, Arrived, OneTurn, Querying
    <3> QED
      BY <2>10, <3>2, <3>3 DEF ProviderWaits
  <2>11. CASE ProviderFails
    <3>1. Querying /\ nbNext' = nbNext /\ nbRequest' \in {"none", "lingering"}
      BY <2>11 DEF ProviderFails, Returns
    <3>2. RemovePrefix(Len(nbUnits)) /\ nbGiven' = nbUnits
      BY <2>11 DEF ProviderFails
    <3>3. Len(nbUnits) \in 1 .. Len(nbUnits)
      BY <1>2, <3>1 DEF TurnInv, OneTurn, Arrived
    <3> QED
      BY <1>2, <3>1, <3>2, <3>3, RequestLeaves, WholeGivenApart
  <2>12. CASE Reset
    <3>1. ~Querying' /\ nbPending' = <<>> /\ nbNext' = nbNext /\ nbGiven' = nbGiven
      BY <2>12 DEF Reset, Querying
    <3>2. Len(nbPending') = 0 /\ nbPending' \in Seq(Nat)
      BY <3>1
    <3> QED
      BY <1>2, <3>1, <3>2 DEF TurnInv, Arrived, OneTurn
  <2> QED
    BY <1>2, <2>1, <2>2, <2>3, <2>4, <2>5, <2>6, <2>7, <2>8, <2>9, <2>10, <2>11, <2>12 DEF NbNext
<1>3. TurnInv /\ [NbNext]_nbVars =>
        /\ TurnInv'
        /\ [nbGiven' # nbGiven =>
               \A j \in 1 .. Len(nbGiven') - 1 : nbGiven'[j] \notin nbSoft \cup nbHard]_nbVars
  BY <1>2
<1> QED
  BY <1>1, <1>3, PTL DEF NbSpec, TurnsStayApart

-----------------------------------------------------------------------------
(* UtteranceSource.  The segments tile the selected source and each spells *)
(* its piece of the current text; a commit ends on a token boundary at or  *)
(* after the protected prefix.                                             *)
Texts == Seq(UNION {Range(t) : t \in Hypotheses})
Span == [start : Nat, end : Nat, source : Texts]

(* Segment after segment, from the start of the text up to selected. *)
Tiled(t, spans, sel) ==
  /\ sel = (IF spans = <<>> THEN 0 ELSE spans[Len(spans)].end)
  /\ sel <= Len(t)
  /\ \A k \in DOMAIN spans :
       /\ spans[k].start = (IF k = 1 THEN 0 ELSE spans[k - 1].end)
       /\ spans[k].start <= spans[k].end /\ spans[k].end <= sel
       /\ spans[k].source = Slice(t, spans[k].start, spans[k].end)
  /\ \A k, l \in DOMAIN spans : k < l => spans[k].end <= spans[l].start

(* The tracker heard the text last, unless it waits for a final. *)
HeardLast ==
  /\ history # <<>> => heard = history[Len(history)]
  /\ armed => history # <<>>
  /\ heard = text \/ Conflict(heard, committed)

(* What ties segments, tracker and text together. *)
SourceInv ==
  /\ text \in Texts /\ heard \in Texts /\ committed \in Texts /\ history \in Seq(Texts)
  /\ selected \in Nat /\ segments \in Seq(Span)
  /\ Tiled(text, segments, selected)
  /\ HeardLast
  /\ CommitNeverRefused

(* A hypothesis is a text. *)
LEMMA HypothesesAreTexts == Hypotheses \subseteq Texts
<1> SUFFICES ASSUME NEW t \in Hypotheses PROVE t \in Texts
  OBVIOUS
<1>1. t \in Seq(Range(t))
  BY SourceAssumption DEF SourceAssumption
<1>2. Range(t) \subseteq UNION {Range(u) : u \in Hypotheses}
  OBVIOUS
<1> QED
  BY <1>1, <1>2 DEF Texts

(* The least of some naturals. *)
LEMMA MinOf ==
  ASSUME NEW T \in SUBSET Nat, T # {}
  PROVE  Min(T) \in T /\ \A x \in T : Min(T) <= x
<1>1. \E m \in T : \A x \in T : m <= x
  BY LeastNatural
<1> QED
  BY <1>1 DEF Min

(* The greatest of some naturals up to n. *)
LEMMA MaxOf ==
  ASSUME NEW n \in Nat, NEW T \in SUBSET (0 .. n), T # {}
  PROVE  Max(T) \in T /\ \A x \in T : x <= Max(T)
<1> DEFINE U == {n - x : x \in T}
<1>0. \A x \in T : x \in Nat /\ x <= n /\ n - x \in Nat
  OBVIOUS
<1>1. U \in SUBSET Nat /\ U # {}
  BY <1>0
<1>2. PICK u \in U : \A x \in U : u <= x
  BY <1>1, LeastNatural
<1>3. PICK m \in T : u = n - m
  BY <1>2
<1>4. \A x \in T : m >= x
  <2> TAKE x \in T
  <2>1. n - m <= n - x
    BY <1>2, <1>3
  <2> QED
    BY <2>1
<1>5. \A x \in T : Max(T) >= x /\ Max(T) \in T
  BY <1>4 DEF Max
<1> QED
  BY <1>3, <1>5

(* The tokens of a text end within it. *)
LEMMA EndsWithin ==
  ASSUME NEW t \in Texts
  PROVE  Len(t) \in Nat /\ Ends(t) \in SUBSET (1 .. Len(t)) /\ TokenCount(t) \in Nat
<1>1. Len(t) \in Nat /\ Ends(t) \in SUBSET (1 .. Len(t))
  BY DEF Texts, Ends
<1> QED
  BY <1>1, RankStep DEF TokenCount

(* A larger rank is a later position. *)
LEMMA NthIncreases ==
  ASSUME NEW n \in Nat, NEW keep \in SUBSET (1 .. n),
         NEW k \in 1 .. Cardinality(keep), NEW l \in 1 .. Cardinality(keep), k < l
  PROVE  Nth(keep, k) < Nth(keep, l)
<1> DEFINE a == Nth(keep, k)
           b == Nth(keep, l)
<1>1. a \in keep /\ Rank(keep, a) = k /\ b \in keep /\ Rank(keep, b) = l
  BY NthExists
<1> HIDE DEF a, b
<1>2. a \in 1 .. n /\ b \in 1 .. n
  BY <1>1
<1>3. Cardinality(keep) \in Nat
  BY RankStep
<1>4. b < a => l < k
  BY <1>1, RankIncreases
<1>5. a # b
  BY <1>1, <1>3
<1> QED
  BY <1>2, <1>3, <1>4, <1>5 DEF a, b

(* The end of the first count tokens is a boundary. *)
LEMMA CharEndIsBoundary ==
  ASSUME NEW t \in Texts, NEW count \in 0 .. TokenCount(t)
  PROVE  TokenCharEnd(t, count) \in {0} \cup Ends(t)
<1>1. CASE count = 0
  BY <1>1 DEF TokenCharEnd
<1>2. CASE count # 0
  <2>1. count \in 1 .. Cardinality(Ends(t))
    BY <1>2, EndsWithin DEF TokenCount
  <2>2. Nth(Ends(t), count) \in Ends(t)
    BY <2>1, EndsWithin, NthExists
  <2> QED
    BY <1>2, <2>2 DEF TokenCharEnd
<1> QED
  BY <1>1, <1>2

(* What several hypotheses agree on, none of them exceeds. *)
LEMMA AgreementWithin ==
  ASSUME NEW texts \in SUBSET Texts, NEW t \in texts
  PROVE  CommonTokens(texts) \in 0 .. TokenCount(t)
<1> DEFINE counts == {TokenCount(u) : u \in texts}
           least == Min(counts)
           agreed == {n \in 0 .. least :
             \A k \in 1 .. n : \A v, u \in texts : Token(v, k) = Token(u, k)}
<1>1. counts \in SUBSET Nat /\ TokenCount(t) \in counts
  BY EndsWithin
<1>2. least \in Nat /\ least <= TokenCount(t)
  <2> HIDE DEF counts
  <2> QED
    BY <1>1, MinOf
<1>3. agreed \in SUBSET (0 .. least) /\ 0 \in agreed
  <2> HIDE DEF least
  <2>1. 1 .. 0 = {} /\ 0 \in 0 .. least
    BY <1>2
  <2> QED
    BY <2>1
<1>4. Max(agreed) \in 0 .. least
  <2> HIDE DEF agreed, least
  <2> QED
    BY <1>2, <1>3, MaxOf
<1>5. CommonTokens(texts) = Max(agreed)
  BY DEF CommonTokens
<1> HIDE DEF agreed, least, counts
<1>6. TokenCount(t) \in Nat
  BY <1>1
<1> QED
  BY <1>2, <1>4, <1>5, <1>6

(* No more tokens may become stable than the text has. *)
LEMMA AvailableWithin ==
  ASSUME NEW t \in Texts, NEW hist \in Seq(Texts), t \in Range(hist), NEW isFinal \in BOOLEAN
  PROVE  Available(t, hist, isFinal) \in 0 .. TokenCount(t)
<1> DEFINE agreement == IF Len(hist) = StabilityHistory THEN CommonTokens(Range(hist)) ELSE 0
           held == /\ HoldPartialTail /\ agreement = TokenCount(t) /\ agreement > 0
                   /\ Len(t) \in Ends(t) /\ t[Len(t)] \in Letters
<1>1. TokenCount(t) \in Nat
  BY EndsWithin
<1>2. agreement \in 0 .. TokenCount(t)
  <2>1. Range(hist) \in SUBSET Texts
    BY DEF Range
  <2>2. CommonTokens(Range(hist)) \in 0 .. TokenCount(t)
    BY <2>1, AgreementWithin
  <2> QED
    BY <1>1, <2>2
<1>3. Available(t, hist, isFinal) =
        IF isFinal THEN TokenCount(t) ELSE IF held THEN agreement - 1 ELSE agreement
  BY DEF Available
<1> HIDE DEF agreement
<1> QED
  BY <1>1, <1>2, <1>3

(* What is stable ends on a token boundary and keeps what is protected. *)
LEMMA StableEndsSound ==
  ASSUME NEW t \in Texts, NEW hist \in Seq(Texts), t \in Range(hist), NEW isFinal \in BOOLEAN,
         NEW protected \in Texts, NEW end \in StableEnds(t, hist, protected, isFinal)
  PROVE  /\ end \in {0} \cup Ends(t)
         /\ ~Conflict(t, protected) => end >= Len(protected)
<1> DEFINE n == Available(t, hist, isFinal)
           passed == IF isFinal THEN {n} ELSE 0 .. n
           kept == Cardinality({e \in Ends(t) : e <= Len(protected)})
<1>1. n \in 0 .. TokenCount(t) /\ TokenCount(t) \in Nat
  BY AvailableWithin, EndsWithin
<1>2. kept = Rank(Ends(t), Len(protected))
  BY DEF Rank
<1>3. kept \in 0 .. TokenCount(t)
  <2>1. IsFiniteSet(Ends(t)) /\ {e \in Ends(t) : e <= Len(protected)} \in SUBSET Ends(t)
    BY EndsWithin, RankStep
  <2> QED
    BY <2>1, FS_Subset, FS_CardinalityType DEF TokenCount
<1>4. StableEnds(t, hist, protected, isFinal) =
        IF ~Conflict(t, protected)
        THEN {TokenCharEnd(t, IF s > kept THEN s ELSE kept) : s \in passed}
        ELSE IF isFinal THEN {TokenCharEnd(t, n)} ELSE {0}
  BY DEF StableEnds
<1> HIDE DEF n, kept
<1>5. CASE Conflict(t, protected)
  <2>1. TokenCharEnd(t, n) \in {0} \cup Ends(t)
    BY <1>1, CharEndIsBoundary
  <2> QED
    BY <1>4, <1>5, <2>1
<1>6. CASE ~Conflict(t, protected)
  <2>1. PICK s \in passed : end = TokenCharEnd(t, IF s > kept THEN s ELSE kept)
    BY <1>4, <1>6
  <2> DEFINE m == IF s > kept THEN s ELSE kept
  <2>2. m \in 0 .. TokenCount(t) /\ kept <= m
    BY <1>1, <1>3
  <2> HIDE DEF m
  <2>3. TokenCharEnd(t, m) \in {0} \cup Ends(t)
    BY <2>2, CharEndIsBoundary
  <2>4. TokenCharEnd(t, m) >= Len(protected)
    <3>0. Len(protected) \in Nat
      BY DEF Texts
    <3>1. CASE protected = <<>>
      BY <2>3, <3>1, EndsWithin
    <3>2. CASE protected # <<>>
      <4>1. Len(protected) \in Ends(t)
        BY <1>6, <3>2 DEF Conflict
      <4>2. kept \in 1 .. Cardinality(Ends(t)) /\ Nth(Ends(t), kept) = Len(protected)
        BY <1>2, <4>1, EndsWithin, NthOfRank
      <4>3. m \in 1 .. Cardinality(Ends(t))
        BY <1>1, <2>2, <4>2 DEF TokenCount
      <4>4. m = kept \/ Nth(Ends(t), kept) < Nth(Ends(t), m)
        <5>1. kept \in Nat /\ m \in Nat
          BY <1>1, <1>3, <2>2
        <5>2. kept < m => Nth(Ends(t), kept) < Nth(Ends(t), m)
          BY <4>2, <4>3, EndsWithin, NthIncreases
        <5> QED
          BY <2>2, <5>1, <5>2
      <4>5. TokenCharEnd(t, m) = Nth(Ends(t), m)
        BY <4>3 DEF TokenCharEnd
      <4> QED
        BY <3>0, <4>2, <4>4, <4>5, <2>3, EndsWithin
    <3> QED
      BY <3>1, <3>2
  <2> QED
    BY <2>1, <2>3, <2>4 DEF m
<1> QED
  BY <1>5, <1>6

(* The history ends with the newest hypothesis. *)
LEMMA RememberNewest ==
  ASSUME NEW hist \in Seq(Texts), NEW t \in Texts
  PROVE  LET r == Remember(hist, t)
         IN  r \in Seq(Texts) /\ r # <<>> /\ r[Len(r)] = t /\ t \in Range(r)
<1> DEFINE longer == Append(hist, t)
           r == Remember(hist, t)
<1>1. longer \in Seq(Texts) /\ Len(longer) = Len(hist) + 1 /\ longer[Len(longer)] = t /\ Len(hist) \in Nat
  OBVIOUS
<1>2. StabilityHistory \in Nat /\ StabilityHistory > 1
  BY SourceAssumption DEF SourceAssumption
<1> HIDE DEF longer
<1>3. r = IF Len(longer) > StabilityHistory THEN Tail(longer) ELSE longer
  BY DEF Remember, longer
<1> HIDE DEF r
<1>4. r \in Seq(Texts) /\ Len(r) >= 1 /\ r[Len(r)] = t
  BY <1>1, <1>2, <1>3
<1>5. Len(r) \in DOMAIN r
  BY <1>4
<1> QED
  BY <1>4, <1>5 DEF r, Range

(* Positions that count from zero: their ranks are those one place on. *)
LEMMA NthFromZero ==
  ASSUME NEW n \in Nat, NEW keep \in SUBSET (0 .. n - 1)
  PROVE  LET later == {x + 1 : x \in keep}
         IN  /\ later \in SUBSET (1 .. n) /\ Cardinality(later) = Cardinality(keep)
             /\ \A k \in 1 .. Cardinality(keep) : Nth(keep, k) \in keep
<1> DEFINE later == {x + 1 : x \in keep}
<1>0. \A x \in keep : x \in Int /\ 0 <= x /\ x <= n - 1 /\ x + 1 \in 1 .. n
  OBVIOUS
<1>1. later \in SUBSET (1 .. n)
  BY <1>0
<1>2. IsFiniteSet(keep)
  <2>1. IsFiniteSet(0 .. n - 1)
    BY FS_Interval
  <2> QED
    BY <2>1, FS_Subset
<1>3. ASSUME NEW P \in SUBSET keep
      PROVE  Cardinality({x + 1 : x \in P}) = Cardinality(P)
  <2> DEFINE Q == {x + 1 : x \in P}
             f == [x \in P |-> x + 1]
  <2>1. f \in Bijection(P, Q)
    <3>1. f \in [P -> Q] /\ \A y \in Q : \E x \in P : f[x] = y
      OBVIOUS
    <3>2. \A x, y \in P : f[x] = f[y] => x = y
      <4> TAKE x, y \in P
      <4>1. x \in Int /\ y \in Int
        BY <1>0
      <4> QED
        BY <4>1
    <3> HIDE DEF f, Q
    <3> QED
      BY <3>1, <3>2 DEF Bijection, Injection, Surjection, IsInjective
  <2>2. IsFiniteSet(P)
    BY <1>2, FS_Subset
  <2> HIDE DEF f, Q
  <2>3. Cardinality(Q) = Cardinality(P)
    BY <2>1, <2>2, FS_Bijection DEF ExistsBijection
  <2> QED
    BY <2>3 DEF Q
<1>4. Cardinality(later) = Cardinality(keep)
  BY <1>3
<1>5. ASSUME NEW i \in keep PROVE Rank(keep, i) = Rank(later, i + 1)
  <2> DEFINE P == {j \in keep : j <= i}
  <2>1. {j \in later : j <= i + 1} = {x + 1 : x \in P}
    <3>1. \A x \in keep : x + 1 <= i + 1 <=> x <= i
      BY <1>0
    <3> QED
      BY <3>1
  <2>2. P \in SUBSET keep
    OBVIOUS
  <2> HIDE DEF P, later
  <2>3. Cardinality({x + 1 : x \in P}) = Cardinality(P)
    BY <1>3, <2>2
  <2> QED
    BY <2>1, <2>3 DEF Rank, P
<1>6. ASSUME NEW k \in 1 .. Cardinality(keep) PROVE Nth(keep, k) \in keep
  <2> HIDE DEF later
  <2>1. Nth(later, k) \in later /\ Rank(later, Nth(later, k)) = k
    BY <1>1, <1>4, NthExists
  <2>2. PICK i \in keep : Nth(later, k) = i + 1
    BY <2>1 DEF later
  <2>3. Rank(keep, i) = k
    BY <1>5, <2>1, <2>2
  <2> QED
    BY <2>3 DEF Nth
<1> QED
  BY <1>1, <1>4, <1>6

(* tokenize: as many tokens begin as end. *)
LEMMA TokensMatch ==
  ASSUME NEW t \in Texts
  PROVE  /\ Starts(t) \in SUBSET (0 .. Len(t) - 1)
         /\ Cardinality(Starts(t)) = TokenCount(t)
<1> DEFINE n == Len(t)
           S == {x + 1 : x \in Starts(t)}
           E == Ends(t)
           within(i) == i \in 1 .. n - 1 /\ t[i] \in Letters /\ t[i + 1] \in Letters
           open(i) == IF within(i) THEN 1 ELSE 0
<1>0. n \in Nat /\ E \in SUBSET (1 .. n)
  BY EndsWithin
<1>1. Starts(t) \in SUBSET (0 .. n - 1)
  BY DEF Starts
<1>2. S \in SUBSET (1 .. n) /\ Cardinality(S) = Cardinality(Starts(t))
  <2> HIDE DEF n
  <2> QED
    BY <1>0, <1>1, NthFromZero
<1>3. Blank \notin Letters
  BY SourceAssumption DEF SourceAssumption
<1>4. ASSUME NEW i \in 1 .. n
      PROVE  /\ i \in S <=> t[i] # Blank /\ ~(t[i] \in Letters /\ within(i - 1))
             /\ i \in E <=> t[i] # Blank /\ ~(t[i] \in Letters /\ within(i))
  <2>1. i \in S <=> i - 1 \in Starts(t)
    <3>1. \A x \in Starts(t) : x \in Int
      BY <1>1
    <3>2. i \in Int /\ (i - 1) + 1 = i
      OBVIOUS
    <3>3. i - 1 \in Starts(t) => i \in S
      BY <3>2
    <3>4. \A x \in Starts(t) : x + 1 = i => x = i - 1
      BY <3>1, <3>2
    <3> QED
      BY <3>3, <3>4
  <2>2. i - 1 \in 0 .. n - 1 /\ (i - 1) + 1 = i /\ n \in Nat
    BY <1>0
  <2>3. i - 1 \in Starts(t) <=> t[i] # Blank /\ ~(t[i] \in Letters /\ i - 1 > 0 /\ t[i - 1] \in Letters)
    BY <2>2 DEF Starts
  <2>4. within(i - 1) <=> i - 1 > 0 /\ t[i - 1] \in Letters /\ t[i] \in Letters
    BY <2>2
  <2>5. i \in E <=> t[i] # Blank /\ ~(t[i] \in Letters /\ i < n /\ t[i + 1] \in Letters)
    BY DEF Ends
  <2>6. within(i) <=> i < n /\ t[i] \in Letters /\ t[i + 1] \in Letters
    BY <2>2
  <2> QED
    BY <2>1, <2>3, <2>4, <2>5, <2>6
<1>5. \A i \in 0 .. n : Rank(S, i) = Rank(E, i) + open(i)
  <2> DEFINE Bad == {i \in 0 .. n : Rank(S, i) # Rank(E, i) + open(i)}
  <2>1. SUFFICES ASSUME Bad # {} PROVE FALSE
    OBVIOUS
  <2>2. PICK m \in Bad : \A i \in Bad : m <= i
    <3>1. Bad \in SUBSET Nat
      BY <1>0
    <3> HIDE DEF Bad
    <3> QED
      BY <2>1, <3>1, LeastNatural
  <2> HIDE DEF S, E
  <2>3. /\ Rank(S, 0) = 0 /\ Rank(E, 0) = 0
        /\ \A i \in 0 .. n : Rank(S, i) \in Nat /\ Rank(E, i) \in Nat
        /\ \A i \in 1 .. n : Rank(S, i) = IF i \in S THEN Rank(S, i - 1) + 1 ELSE Rank(S, i - 1)
        /\ \A i \in 1 .. n : Rank(E, i) = IF i \in E THEN Rank(E, i - 1) + 1 ELSE Rank(E, i - 1)
    BY <1>0, <1>2, RankStep
  <2>4. m # 0
    <3>1. open(0) = 0
      BY <1>0
    <3> QED
      BY <2>2, <2>3, <3>1
  <2>5. m \in 1 .. n /\ m - 1 \in 0 .. n /\ m - 1 \notin Bad
    BY <1>0, <2>2, <2>4
  <2>6. Rank(S, m - 1) = Rank(E, m - 1) + open(m - 1)
    BY <2>5
  <2>7. Rank(S, m) # Rank(E, m) + open(m)
    BY <2>2
  <2>8. within(m) => t[m] \in Letters
    OBVIOUS
  <2>9. within(m - 1) => t[m] \in Letters
    BY <2>5, <1>0
  <2>10. /\ m \in S <=> t[m] # Blank /\ ~(t[m] \in Letters /\ within(m - 1))
         /\ m \in E <=> t[m] # Blank /\ ~(t[m] \in Letters /\ within(m))
    BY <1>4, <2>5
  <2>11. Rank(S, m) = (IF m \in S THEN Rank(S, m - 1) + 1 ELSE Rank(S, m - 1))
    BY <2>3, <2>5
  <2>12. Rank(E, m) = (IF m \in E THEN Rank(E, m - 1) + 1 ELSE Rank(E, m - 1))
    BY <2>3, <2>5
  <2>13. Rank(E, m - 1) \in Nat
    BY <2>3, <2>5
  <2> HIDE DEF within
  <2>14. CASE t[m] \in Letters
    <3>1. t[m] # Blank
      BY <1>3, <2>14
    <3> QED
      BY <2>6, <2>7, <2>10, <2>11, <2>12, <2>13, <2>14, <3>1
  <2>15. CASE t[m] \notin Letters
    BY <2>6, <2>7, <2>8, <2>9, <2>10, <2>11, <2>12, <2>13, <2>15
  <2> QED
    BY <2>14, <2>15
<1>6. open(n) = 0 /\ n \in 0 .. n
  BY <1>0
<1> HIDE DEF S, E
<1>7. Rank(S, n) = Rank(E, n) /\ Rank(E, n) \in Nat
  <2>1. Rank(E, n) \in Nat
    BY <1>0, <1>6, RankStep
  <2>2. Rank(S, n) = Rank(E, n) + open(n)
    BY <1>5, <1>6
  <2> QED
    BY <1>6, <2>1, <2>2
<1>8. Rank(S, n) = Cardinality(S) /\ Rank(E, n) = Cardinality(E)
  BY <1>0, <1>2, RankStep
<1> QED
  BY <1>1, <1>2, <1>7, <1>8 DEF TokenCount, E

(* plan_revision: before the difference the two texts are equal. *)
LEMMA DifferenceWithin ==
  ASSUME NEW old \in Texts, NEW new \in Texts
  PROVE  LET d == Difference(old, new)
         IN  d \in Nat /\ d <= Len(old) /\ d <= Len(new) /\ \A i \in 1 .. d : old[i] = new[i]
<1> DEFINE shorter == Min({Len(old), Len(new)})
           same == {n \in 0 .. shorter : SubSeq(old, 1, n) = SubSeq(new, 1, n)}
           common == CommonChars(old, new)
           split == {k \in 1 .. TokenCount(new) :
                       Nth(Starts(new), k) < common /\ common < Nth(Ends(new), k)}
           d == Difference(old, new)
<1>0. Len(old) \in Nat /\ Len(new) \in Nat /\ TokenCount(new) \in Nat
  BY EndsWithin
<1>1. shorter \in Nat /\ shorter <= Len(old) /\ shorter <= Len(new)
  BY <1>0, MinOf
<1>2. common \in same
  <2>1. same \in SUBSET (0 .. shorter)
    OBVIOUS
  <2>2. 0 \in same
    <3>1. SubSeq(old, 1, 0) = <<>> /\ SubSeq(new, 1, 0) = <<>>
      BY <1>0 DEF Texts
    <3> HIDE DEF shorter
    <3> QED
      BY <1>1, <3>1
  <2>3. common = Max(same)
    BY DEF CommonChars
  <2> HIDE DEF same, common, shorter
  <2> QED
    BY <1>1, <2>1, <2>2, <2>3, MaxOf
<1>3. common \in Nat /\ common <= Len(old) /\ common <= Len(new)
  <2> HIDE DEF shorter, common
  <2> QED
    BY <1>0, <1>1, <1>2
<1>4. \A i \in 1 .. common : old[i] = new[i]
  <2>1. SubSeq(old, 1, common) = SubSeq(new, 1, common)
    BY <1>2
  <2> HIDE DEF common
  <2> TAKE i \in 1 .. common
  <2>2. SubSeq(old, 1, common)[i] = old[i] /\ SubSeq(new, 1, common)[i] = new[i]
    BY <1>0, <1>3 DEF Texts
  <2> QED
    BY <2>1, <2>2
<1>5. d \in Nat /\ d <= common
  <2>1. d = IF common = Len(old) /\ Len(new) > Len(old) /\ split # {}
            THEN Nth(Starts(new), Min(split)) ELSE common
    BY DEF Difference
  <2>2. ASSUME split # {}
        PROVE  Nth(Starts(new), Min(split)) \in Nat /\ Nth(Starts(new), Min(split)) < common
    <3>1. split \in SUBSET Nat
      BY <1>0
    <3>2. Min(split) \in split
      <4> HIDE DEF split
      <4> QED
        BY <2>2, <3>1, MinOf
    <3>3. Min(split) \in 1 .. Cardinality(Starts(new)) /\ Nth(Starts(new), Min(split)) < common
      BY <3>2, TokensMatch
    <3>4. Nth(Starts(new), Min(split)) \in Starts(new) /\ Starts(new) \in SUBSET (0 .. Len(new) - 1)
      BY <1>0, <3>3, TokensMatch, NthFromZero
    <3> QED
      BY <1>0, <3>3, <3>4
  <2> HIDE DEF d, split, common
  <2> QED
    BY <1>3, <2>1, <2>2
<1> HIDE DEF d, common
<1>6. d <= Len(old) /\ d <= Len(new) /\ \A i \in 1 .. d : i \in 1 .. common
  BY <1>0, <1>3, <1>5
<1> QED
  BY <1>4, <1>5, <1>6 DEF d

(* A slice before the difference reads the same in both texts. *)
LEMMA SliceAgrees ==
  ASSUME NEW old \in Texts, NEW new \in Texts, NEW a \in Nat, NEW b \in Nat,
         b <= Len(old), b <= Len(new), \A i \in 1 .. b : old[i] = new[i]
  PROVE  Slice(old, a, b) = Slice(new, a, b) /\ Slice(old, a, b) \in Texts
<1> DEFINE l == SubSeq(old, a + 1, b)
           r == SubSeq(new, a + 1, b)
           n == IF a + 1 <= b THEN b - a ELSE 0
<1>1. /\ l \in Texts /\ Len(l) = n /\ \A i \in 1 .. n : l[i] = old[a + i]
      /\ r \in Texts /\ Len(r) = n /\ \A i \in 1 .. n : r[i] = new[a + i]
  BY DEF Texts
<1>2. \A i \in 1 .. n : a + i \in 1 .. b
  OBVIOUS
<1> HIDE DEF l, r, n
<1>3. \A i \in 1 .. n : l[i] = r[i]
  BY <1>1, <1>2
<1>4. l = r
  BY <1>1, <1>3 DEF Texts
<1> QED
  BY <1>1, <1>4 DEF l, r, Slice

(* A revision keeps the segments before its first difference: they tile    *)
(* the new text up to where selection starts again.                        *)
LEMMA RollbackTiles ==
  ASSUME NEW t \in Texts, text \in Texts, selected \in Nat, segments \in Seq(Span),
         Tiled(text, segments, selected)
  PROVE  LET index == RollbackIndex(text, t, segments)
             kept == SubSeq(segments, 1, index - 1)
         IN  kept \in Seq(Span) /\ RolledBack(index) \in Nat /\ Tiled(t, kept, RolledBack(index))
<1> DEFINE d == Difference(text, t)
           touched == {k \in DOMAIN segments : d < segments[k].end}
           index == RollbackIndex(text, t, segments)
           n == Len(segments)
           kept == SubSeq(segments, 1, index - 1)
           sel == RolledBack(index)
<1>0. n \in Nat /\ DOMAIN segments = 1 .. n /\ Len(t) \in Nat /\ Len(text) \in Nat
  BY DEF Texts
<1>1. \A k \in 1 .. n : segments[k] \in Span /\ segments[k].start \in Nat /\ segments[k].end \in Nat
  <2>1. \A k \in 1 .. n : segments[k] \in Span
    BY <1>0
  <2> QED
    BY <2>1 DEF Span
<1>2. /\ selected = (IF segments = <<>> THEN 0 ELSE segments[n].end) /\ selected <= Len(text)
      /\ \A k \in 1 .. n :
           /\ segments[k].start = (IF k = 1 THEN 0 ELSE segments[k - 1].end)
           /\ segments[k].start <= segments[k].end /\ segments[k].end <= selected
           /\ segments[k].source = Slice(text, segments[k].start, segments[k].end)
      /\ \A k, l \in 1 .. n : k < l => segments[k].end <= segments[l].start
  BY <1>0 DEF Tiled
<1>3. d \in Nat /\ d <= Len(text) /\ d <= Len(t) /\ \A i \in 1 .. d : text[i] = t[i]
  BY DifferenceWithin
<1>4. /\ index \in 1 .. n + 1
      /\ text # t => \A k \in 1 .. index - 1 : k \in 1 .. n /\ segments[k].end <= d
      /\ text = t => index = n + 1
  <2>1. index = IF text # t /\ touched # {} THEN Min(touched) ELSE n + 1
    BY DEF RollbackIndex
  <2>2. touched \in SUBSET Nat /\ touched \in SUBSET (1 .. n)
    BY <1>0
  <2>3. touched # {} => Min(touched) \in touched /\ \A x \in touched : Min(touched) <= x
    <3> HIDE DEF touched
    <3> QED
      BY <2>2, MinOf
  <2>4. \A k \in 1 .. n : k \notin touched => segments[k].end <= d
    BY <1>0, <1>1, <1>3
  <2> HIDE DEF touched, index, d, n
  <2>5. CASE text # t /\ touched # {}
    <3>0. index \in touched /\ (\A x \in touched : index <= x) /\ index \in 1 .. n
      BY <2>1, <2>2, <2>3, <2>5
    <3>1. index \in 1 .. n /\ \A k \in 1 .. index - 1 : k \in 1 .. n /\ k \notin touched
      BY <1>0, <3>0
    <3> QED
      BY <1>0, <2>4, <2>5, <3>1
  <2>6. CASE ~(text # t /\ touched # {})
    <3>1. index = n + 1 /\ \A k \in 1 .. index - 1 : k \in 1 .. n
      BY <1>0, <2>1, <2>6
    <3> QED
      BY <1>0, <2>4, <2>6, <3>1
  <2> QED
    BY <2>5, <2>6
<1> HIDE DEF d, index
<1>5. /\ kept \in Seq(Span) /\ Len(kept) = index - 1 /\ DOMAIN kept = 1 .. index - 1
      /\ \A k \in 1 .. index - 1 : k \in 1 .. n /\ kept[k] = segments[k]
  BY <1>0, <1>4
<1>6. sel = (IF index = 1 THEN 0 ELSE segments[index - 1].end)
  <2>1. CASE index <= n
    <3>1. index \in 1 .. n
      BY <1>0, <1>4, <2>1
    <3>2. segments[index].start \in Nat /\ segments[index].start <= selected
      BY <1>1, <1>2, <3>1
    <3>3. sel = Min({selected, segments[index].start})
      BY <2>1 DEF RolledBack
    <3>4. Min({selected, segments[index].start}) = segments[index].start
      <4> DEFINE a == segments[index].start
      <4>1. a \in Nat /\ a <= selected
        BY <3>2
      <4> HIDE DEF a
      <4>2. Min({selected, a}) \in {selected, a} /\ Min({selected, a}) <= a
        BY <4>1, MinOf
      <4> QED
        BY <4>1, <4>2 DEF a
    <3> QED
      BY <1>2, <3>1, <3>3, <3>4
  <2>2. CASE ~(index <= n)
    <3>1. index = n + 1 /\ sel = selected
      BY <1>0, <1>4, <2>2 DEF RolledBack
    <3>2. segments = <<>> <=> n = 0
      BY <1>0
    <3> QED
      BY <1>0, <1>2, <3>1, <3>2
  <2> QED
    BY <2>1, <2>2
<1> HIDE DEF sel, kept, n
<1>7. sel \in Nat /\ sel <= Len(t)
  <2>1. CASE index = 1
    BY <1>0, <1>6, <2>1
  <2>2. CASE index # 1
    <3>1. index - 1 \in 1 .. index - 1 /\ index - 1 \in 1 .. n
      BY <1>0, <1>4, <2>2
    <3>2. segments[index - 1].end \in Nat /\ segments[index - 1].end <= Len(t)
      <4>1. CASE text = t
        BY <1>0, <1>1, <1>2, <3>1, <4>1
      <4>2. CASE text # t
        BY <1>0, <1>1, <1>3, <1>4, <3>1, <4>2
      <4> QED
        BY <4>1, <4>2
    <3> QED
      BY <1>6, <2>2, <3>2
  <2> QED
    BY <2>1, <2>2
<1>8. sel = (IF kept = <<>> THEN 0 ELSE kept[Len(kept)].end)
  <2>1. kept = <<>> <=> index = 1
    BY <1>4, <1>5
  <2>2. index # 1 => index - 1 \in 1 .. index - 1
    BY <1>0, <1>4
  <2> QED
    BY <1>5, <1>6, <2>1, <2>2
<1>9. ASSUME NEW k \in DOMAIN kept
      PROVE  /\ kept[k].start = (IF k = 1 THEN 0 ELSE kept[k - 1].end)
             /\ kept[k].start <= kept[k].end /\ kept[k].end <= sel
             /\ kept[k].source = Slice(t, kept[k].start, kept[k].end)
  <2>1. k \in 1 .. index - 1 /\ k \in 1 .. n /\ kept[k] = segments[k]
    BY <1>5
  <2>2. k # 1 => kept[k - 1] = segments[k - 1]
    BY <1>0, <1>4, <1>5, <2>1
  <2>3. segments[k].end <= sel
    <3>1. index - 1 \in 1 .. n /\ sel = segments[index - 1].end /\ k <= index - 1
      BY <1>0, <1>4, <1>6, <2>1
    <3>2. CASE k = index - 1
      BY <1>1, <3>1, <3>2
    <3>3. CASE k # index - 1
      <4>1. k < index - 1
        BY <1>4, <2>1, <3>1, <3>3
      <4>2. segments[k].end <= segments[index - 1].start /\ segments[index - 1].start <= segments[index - 1].end
        BY <1>2, <2>1, <3>1, <4>1
      <4> QED
        BY <1>1, <2>1, <3>1, <4>2
    <3> QED
      BY <3>2, <3>3
  <2>4. Slice(text, segments[k].start, segments[k].end) = Slice(t, segments[k].start, segments[k].end)
    <3>1. CASE text = t
      BY <3>1
    <3>2. CASE text # t
      <4>1. segments[k].start \in Nat /\ segments[k].end \in Nat /\ segments[k].end <= d
        BY <1>1, <1>4, <2>1, <3>2
      <4>2. segments[k].end <= Len(text) /\ segments[k].end <= Len(t)
        BY <1>0, <1>3, <4>1
      <4>3. \A i \in 1 .. segments[k].end : text[i] = t[i]
        BY <1>3, <4>1
      <4> QED
        BY <4>1, <4>2, <4>3, SliceAgrees
    <3> QED
      BY <3>1, <3>2
  <2> QED
    BY <1>2, <2>1, <2>2, <2>3, <2>4
<1>10. \A k, l \in DOMAIN kept : k < l => kept[k].end <= kept[l].start
  BY <1>2, <1>5
<1>11. Tiled(t, kept, sel)
  BY <1>7, <1>8, <1>9, <1>10 DEF Tiled
<1> QED
  BY <1>5, <1>7, <1>11 DEF kept, index, sel

(* The cuts of a selection tile the source after what was selected. *)
LEMMA CutTiles ==
  ASSUME text \in Texts, selected \in Nat, segments \in Seq(Span), Tiled(text, segments, selected),
         NEW end \in 0 .. Len(text), NEW cuts \in SUBSET SegmentPrefix(selected, end)
  PROVE  LET longer == segments \o Cut(cuts)
             sel == Max({selected} \cup cuts)
         IN  longer \in Seq(Span) /\ sel \in Nat /\ Tiled(text, longer, sel)
<1> DEFINE n == Len(segments)
           m == Cardinality(cuts)
           new == Cut(cuts)
           longer == segments \o new
           sel == Max({selected} \cup cuts)
           from(k) == IF k = 1 THEN selected ELSE Nth(cuts, k - 1)
<1>0. n \in Nat /\ DOMAIN segments = 1 .. n /\ Len(text) \in Nat
  BY DEF Texts
<1>1. \A e \in cuts : e \in 1 .. Len(text) /\ selected < e
  BY EndsWithin DEF SegmentPrefix
<1>2. cuts \in SUBSET (1 .. Len(text)) /\ m \in Nat
  BY <1>0, <1>1, RankStep
<1>3. \A k \in 1 .. m : Nth(cuts, k) \in cuts
  BY <1>0, <1>2, NthExists
<1>4. \A k, l \in 1 .. m : k < l => Nth(cuts, k) < Nth(cuts, l)
  BY <1>0, <1>2, NthIncreases
<1>5. \A k \in 1 .. m : from(k) \in Nat /\ Nth(cuts, k) \in Nat /\ from(k) <= Nth(cuts, k)
                        /\ selected <= from(k) /\ Nth(cuts, k) <= Len(text)
  <2> TAKE k \in 1 .. m
  <2>1. Nth(cuts, k) \in Nat /\ selected < Nth(cuts, k) /\ Nth(cuts, k) <= Len(text)
    BY <1>0, <1>1, <1>3
  <2>2. CASE k = 1
    BY <2>1, <2>2
  <2>3. CASE k # 1
    <3>1. k - 1 \in 1 .. m /\ k - 1 < k
      BY <1>2, <2>3
    <3>2. Nth(cuts, k - 1) \in Nat /\ selected < Nth(cuts, k - 1) /\ Nth(cuts, k - 1) < Nth(cuts, k)
      BY <1>0, <1>1, <1>3, <1>4, <3>1
    <3> QED
      BY <2>1, <2>3, <3>2
  <2> QED
    BY <2>2, <2>3
<1>6. /\ new = [k \in 1 .. m |-> [start |-> from(k), end |-> Nth(cuts, k),
                                  source |-> Slice(text, from(k), Nth(cuts, k))]]
      /\ new \in Seq(Span) /\ Len(new) = m /\ DOMAIN new = 1 .. m
  <2>1. new = [k \in 1 .. m |-> [start |-> from(k), end |-> Nth(cuts, k),
                                 source |-> Slice(text, from(k), Nth(cuts, k))]]
    BY DEF Cut
  <2>2. \A k \in 1 .. m : Slice(text, from(k), Nth(cuts, k)) \in Texts
    <3> HIDE DEF from
    <3> TAKE k \in 1 .. m
    <3>1. from(k) \in Nat /\ Nth(cuts, k) \in Nat /\ Nth(cuts, k) <= Len(text)
      BY <1>5
    <3> QED
      BY <3>1, SliceAgrees
  <2>3. \A k \in 1 .. m : [start |-> from(k), end |-> Nth(cuts, k),
                           source |-> Slice(text, from(k), Nth(cuts, k))] \in Span
    <3> HIDE DEF from
    <3> QED
      BY <1>5, <2>2 DEF Span
  <2> HIDE DEF from, new, m
  <2> QED
    BY <1>2, <2>1, <2>3
<1>7. \A k \in 1 .. m : /\ new[k].start = from(k) /\ new[k].end = Nth(cuts, k)
                        /\ new[k].source = Slice(text, from(k), Nth(cuts, k))
  <2> HIDE DEF from, new
  <2> QED
    BY <1>6
<1>8. \A k \in 1 .. n : segments[k] \in Span /\ segments[k].start \in Nat /\ segments[k].end \in Nat
  <2>1. \A k \in 1 .. n : segments[k] \in Span
    BY <1>0
  <2> QED
    BY <2>1 DEF Span
<1>9. /\ selected = (IF segments = <<>> THEN 0 ELSE segments[n].end) /\ selected <= Len(text)
      /\ \A k \in 1 .. n :
           /\ segments[k].start = (IF k = 1 THEN 0 ELSE segments[k - 1].end)
           /\ segments[k].start <= segments[k].end /\ segments[k].end <= selected
           /\ segments[k].source = Slice(text, segments[k].start, segments[k].end)
      /\ \A k, l \in 1 .. n : k < l => segments[k].end <= segments[l].start
  BY <1>0 DEF Tiled
<1>10. /\ sel = (IF m = 0 THEN selected ELSE Nth(cuts, m))
       /\ sel \in Nat /\ sel <= Len(text) /\ selected <= sel
       /\ \A e \in cuts : e <= sel
  <2> DEFINE T == {selected} \cup cuts
  <2>1. T \in SUBSET (0 .. Len(text)) /\ T # {} /\ selected \in T
    BY <1>0, <1>1, <1>9
  <2>2. sel \in T /\ \A x \in T : x <= sel
    <3> HIDE DEF T
    <3>1. Max(T) \in T /\ \A x \in T : x <= Max(T)
      BY <1>0, <2>1, MaxOf
    <3> QED
      BY <3>1 DEF T
  <2> HIDE DEF sel
  <2>3. sel \in Nat /\ sel <= Len(text) /\ selected <= sel /\ \A e \in cuts : e <= sel
    BY <1>0, <2>1, <2>2
  <2>4. CASE m = 0
    <3>1. cuts = {}
      BY <1>2, <2>4, RankStep, FS_EmptySet
    <3> QED
      BY <2>2, <2>3, <2>4, <3>1
  <2>5. CASE m # 0
    <3>1. m \in 1 .. m
      BY <1>2, <2>5
    <3>2. Nth(cuts, m) \in cuts /\ Nth(cuts, m) <= sel /\ selected < Nth(cuts, m) /\ Nth(cuts, m) \in Nat
      BY <1>1, <1>3, <2>3, <3>1
    <3>3. sel \in cuts
      BY <2>2, <2>3, <3>2
    <3>4. PICK k \in 1 .. m : Nth(cuts, k) = sel
      BY <1>0, <1>2, <3>3, NthOfRank
    <3>5. k < m => sel < Nth(cuts, m)
      BY <1>4, <3>1, <3>4
    <3> QED
      BY <1>2, <2>3, <2>5, <3>2, <3>4, <3>5
  <2> QED
    BY <2>3, <2>4, <2>5
<1> HIDE DEF new, sel, from
<1>11. /\ longer \in Seq(Span) /\ Len(longer) = n + m /\ DOMAIN longer = 1 .. n + m
       /\ \A k \in 1 .. n : longer[k] = segments[k]
       /\ \A k \in 1 .. m : longer[n + k] = new[k]
  BY <1>0, <1>2, <1>6
<1> HIDE DEF longer, n, m
<1>12. \A k \in 1 .. n + m : k \in 1 .. n \/ \E j \in 1 .. m : k = n + j
  <2> TAKE k \in 1 .. n + m
  <2>1. CASE k <= n
    BY <1>0, <2>1
  <2>2. CASE ~(k <= n)
    <3>1. k - n \in 1 .. m /\ k = n + (k - n)
      BY <1>0, <1>2, <2>2
    <3> QED
      BY <3>1
  <2> QED
    BY <2>1, <2>2
<1>13. sel = (IF longer = <<>> THEN 0 ELSE longer[Len(longer)].end)
  <2>1. CASE m = 0
    <3>1. longer = <<>> <=> segments = <<>>
      BY <1>0, <1>11, <2>1 DEF n
    <3>2. n # 0 => longer[n] = segments[n]
      BY <1>0, <1>11
    <3>3. segments # <<>> => n # 0
      BY DEF n
    <3> QED
      BY <1>0, <1>9, <1>10, <1>11, <2>1, <3>1, <3>2, <3>3
  <2>2. CASE m # 0
    <3>1. m \in 1 .. m /\ longer # <<>>
      BY <1>0, <1>2, <1>11, <2>2
    <3> QED
      BY <1>7, <1>10, <1>11, <2>2, <3>1
  <2> QED
    BY <2>1, <2>2
<1>14. ASSUME NEW k \in 1 .. n + m
       PROVE  /\ longer[k].start = (IF k = 1 THEN 0 ELSE longer[k - 1].end)
              /\ longer[k].start <= longer[k].end /\ longer[k].end <= sel
              /\ longer[k].source = Slice(text, longer[k].start, longer[k].end)
  <2>1. CASE k \in 1 .. n
    <3>1. longer[k] = segments[k] /\ (k # 1 => k - 1 \in 1 .. n /\ longer[k - 1] = segments[k - 1])
      BY <1>0, <1>11, <2>1
    <3>2. segments[k].end <= sel
      BY <1>8, <1>9, <1>10, <2>1
    <3> QED
      BY <1>9, <2>1, <3>1, <3>2
  <2>2. ASSUME NEW j \in 1 .. m, k = n + j
        PROVE  /\ longer[k].start = (IF k = 1 THEN 0 ELSE longer[k - 1].end)
               /\ longer[k].start <= longer[k].end /\ longer[k].end <= sel
               /\ longer[k].source = Slice(text, longer[k].start, longer[k].end)
    <3>1. longer[k] = new[j] /\ new[j].start = from(j) /\ new[j].end = Nth(cuts, j)
          /\ new[j].source = Slice(text, from(j), Nth(cuts, j))
      BY <1>7, <1>11, <2>2
    <3>2. from(j) <= Nth(cuts, j) /\ Nth(cuts, j) <= sel
      BY <1>3, <1>5, <1>10
    <3>3. from(j) = (IF k = 1 THEN 0 ELSE longer[k - 1].end)
      <4>1. CASE j = 1
        <5>1. from(j) = selected
          BY <4>1 DEF from
        <5>2. k = 1 <=> n = 0
          BY <1>0, <2>2, <4>1
        <5>3. n = 0 <=> segments = <<>>
          BY DEF n
        <5>4. n # 0 => longer[k - 1] = segments[n]
          BY <1>0, <1>11, <2>2, <4>1
        <5> QED
          BY <1>9, <5>1, <5>2, <5>3, <5>4
      <4>2. CASE j # 1
        <5>1. j - 1 \in 1 .. m /\ k # 1 /\ k - 1 = n + (j - 1)
          BY <1>0, <1>2, <2>2, <4>2
        <5>2. longer[k - 1].end = Nth(cuts, j - 1)
          BY <1>7, <1>11, <5>1
        <5> QED
          BY <4>2, <5>1, <5>2 DEF from
      <4> QED
        BY <4>1, <4>2
    <3> QED
      BY <3>1, <3>2, <3>3
  <2> QED
    BY <1>12, <2>1, <2>2
<1>15. ASSUME NEW k \in 1 .. n + m, NEW l \in 1 .. n + m, k < l
       PROVE  longer[k].end <= longer[l].start
  <2>1. CASE l \in 1 .. n
    <3>1. k \in 1 .. n
      BY <1>0, <1>15, <2>1
    <3> QED
      BY <1>9, <1>11, <1>15, <2>1, <3>1
  <2>2. ASSUME NEW j \in 1 .. m, l = n + j
        PROVE  longer[k].end <= longer[l].start
    <3>1. longer[l].start = from(j) /\ selected <= from(j) /\ from(j) \in Nat
      BY <1>5, <1>7, <1>11, <2>2
    <3>2. CASE k \in 1 .. n
      BY <1>8, <1>9, <1>11, <3>1, <3>2
    <3>3. ASSUME NEW i \in 1 .. m, k = n + i
          PROVE  longer[k].end <= longer[l].start
      <4>1. longer[k].end = Nth(cuts, i) /\ Nth(cuts, i) \in Nat
        BY <1>5, <1>7, <1>11, <3>3
      <4>2. i < j /\ j # 1 /\ j - 1 \in 1 .. m
        BY <1>0, <1>2, <1>15, <2>2, <3>3
      <4>3. from(j) = Nth(cuts, j - 1)
        BY <4>2 DEF from
      <4>4. i = j - 1 \/ i < j - 1
        BY <4>2
      <4>5. i < j - 1 => Nth(cuts, i) < Nth(cuts, j - 1)
        BY <1>4, <4>2
      <4> QED
        BY <3>1, <4>1, <4>3, <4>4, <4>5
    <3> QED
      BY <1>12, <3>2, <3>3
  <2> QED
    BY <1>12, <2>1, <2>2
<1>16. Tiled(text, longer, sel)
  BY <1>10, <1>11, <1>13, <1>14, <1>15 DEF Tiled
<1> QED
  BY <1>10, <1>11, <1>16 DEF longer, new, sel

(* Two slices that meet make one. *)
LEMMA SlicesMeet ==
  ASSUME NEW t \in Texts, NEW a \in Nat, NEW b \in Nat, a <= b, b <= Len(t)
  PROVE  Slice(t, 0, a) \o Slice(t, a, b) = Slice(t, 0, b)
<1>1. 1 \in 1 .. Len(t) + 1 /\ a \in 1 - 1 .. Len(t) /\ b \in a .. Len(t)
  BY DEF Texts
<1>2. SubSeq(t, 1, a) \o SubSeq(t, a + 1, b) = SubSeq(t, 1, b)
  BY <1>1, ConcatAdjacentSubSeq DEF Texts
<1> QED
  BY <1>2 DEF Slice

(* FlattenSeq spells the source, by the least segment where it would not.  *)
LEMMA FlattenTiled ==
  ASSUME NEW t \in Texts, NEW spans \in Seq(Span), NEW sel \in Nat, Tiled(t, spans, sel)
  PROVE  FlattenSeq([k \in DOMAIN spans |-> spans[k].source]) = Slice(t, 0, sel)
<1> DEFINE n == Len(spans)
           pieces == [k \in DOMAIN spans |-> spans[k].source]
           Flat(f) == f = [i \in 1 .. Len(pieces) |->
                             IF i = 1 THEN pieces[i] ELSE f[i - 1] \o pieces[i]]
           spelt == [i \in 1 .. n |-> Slice(t, 0, spans[i].end)]
<1>0. n \in Nat /\ DOMAIN spans = 1 .. n /\ Len(t) \in Nat
  BY DEF Texts
<1>1. \A k \in 1 .. n : spans[k].start \in Nat /\ spans[k].end \in Nat /\ spans[k].source \in Texts
  <2>1. \A k \in 1 .. n : spans[k] \in Span
    BY <1>0
  <2> QED
    BY <2>1 DEF Span
<1>2. /\ sel = (IF spans = <<>> THEN 0 ELSE spans[n].end) /\ sel <= Len(t)
      /\ \A k \in 1 .. n :
           /\ spans[k].start = (IF k = 1 THEN 0 ELSE spans[k - 1].end)
           /\ spans[k].start <= spans[k].end /\ spans[k].end <= sel
           /\ spans[k].source = Slice(t, spans[k].start, spans[k].end)
  BY <1>0 DEF Tiled
<1>3. pieces \in Seq(Texts) /\ Len(pieces) = n /\ \A k \in 1 .. n : pieces[k] = spans[k].source
  <2> HIDE DEF n
  <2> QED
    BY <1>0, <1>1
<1>4. ASSUME n = 0 PROVE FlattenSeq(pieces) = Slice(t, 0, sel)
  <2>1. pieces = <<>> /\ spans = <<>>
    BY <1>0, <1>3, <1>4
  <2>2. Slice(t, 0, sel) = <<>>
    BY <1>2, <2>1 DEF Slice, Texts
  <2>3. FlattenSeq(pieces) = pieces
    <3> HIDE DEF pieces
    <3> QED
      BY <1>3, <1>4 DEF FlattenSeq
  <2> QED
    BY <2>1, <2>2, <2>3
<1> HIDE DEF pieces, n
<1>5. n # 0 => FlattenSeq(pieces) = (CHOOSE f : Flat(f))[n]
  BY <1>3 DEF FlattenSeq
<1>6. n # 0 => Flat(spelt) /\ spelt[n] = Slice(t, 0, sel)
  <2>1. \A i \in 1 .. n :
          spelt[i] = IF i = 1 THEN pieces[i] ELSE spelt[i - 1] \o pieces[i]
    <3> TAKE i \in 1 .. n
    <3>1. CASE i = 1
      <4>1. spans[i].start = 0
        BY <1>2, <3>1
      <4> QED
        BY <1>2, <1>3, <3>1, <4>1
    <3>2. CASE i # 1
      <4>1. i - 1 \in 1 .. n /\ spans[i].start = spans[i - 1].end
        BY <1>0, <1>2, <3>2
      <4>2. spans[i - 1].end <= spans[i].end /\ spans[i].end <= Len(t)
        BY <1>0, <1>1, <1>2, <4>1
      <4>3. Slice(t, 0, spans[i - 1].end) \o Slice(t, spans[i - 1].end, spans[i].end)
              = Slice(t, 0, spans[i].end)
        BY <1>1, <4>1, <4>2, SlicesMeet
      <4> QED
        BY <1>2, <1>3, <3>2, <4>1, <4>3
    <3> QED
      BY <3>1, <3>2
  <2>2. spelt = [i \in 1 .. n |-> spelt[i]]
    OBVIOUS
  <2>3. n # 0 => spelt[n] = Slice(t, 0, sel)
    <3>1. spans = <<>> => n = 0
      BY DEF n
    <3>2. n # 0 => n \in 1 .. n
      BY <1>0
    <3> QED
      BY <1>2, <3>1, <3>2
  <2> HIDE DEF spelt
  <2> QED
    BY <1>3, <2>1, <2>2, <2>3
<1>7. ASSUME NEW f, Flat(f), n # 0 PROVE f[n] = spelt[n]
  <2> DEFINE Bad == {i \in 1 .. n : f[i] # spelt[i]}
  <2>1. SUFFICES ASSUME Bad # {} PROVE FALSE
    <3>1. n \in 1 .. n
      BY <1>0, <1>7
    <3> QED
      BY <3>1
  <2>2. PICK m \in Bad : \A i \in Bad : m <= i
    <3>1. Bad \in SUBSET Nat
      BY <1>0
    <3> HIDE DEF Bad
    <3> QED
      BY <2>1, <3>1, LeastNatural
  <2>3. m \in 1 .. n /\ f[m] # spelt[m] /\ (m # 1 => m - 1 \in 1 .. n /\ f[m - 1] = spelt[m - 1])
    <3>1. m - 1 \notin Bad
      BY <1>0, <2>2
    <3> QED
      BY <1>0, <2>2, <3>1
  <2> HIDE DEF spelt
  <2>4. f[m] = IF m = 1 THEN pieces[m] ELSE f[m - 1] \o pieces[m]
    BY <1>3, <1>7, <2>3
  <2>5. spelt[m] = IF m = 1 THEN pieces[m] ELSE spelt[m - 1] \o pieces[m]
    BY <1>3, <1>6, <1>7, <2>3
  <2> QED
    BY <2>3, <2>4, <2>5
<1>8. n # 0 => FlattenSeq(pieces) = Slice(t, 0, sel)
  <2> HIDE DEF spelt, Flat
  <2>1. n # 0 => Flat(CHOOSE f : Flat(f))
    BY <1>6
  <2> QED
    BY <1>5, <1>6, <1>7, <2>1
<1> QED
  BY <1>4, <1>8 DEF pieces

(* At the start nothing was heard. *)
LEMMA InitSource == Init => SourceInv
<1> SUFFICES ASSUME Init PROVE SourceInv
  OBVIOUS
<1>1. /\ text = <<>> /\ heard = <<>> /\ committed = <<>> /\ history = <<>> /\ selected = 0
      /\ segments = <<>> /\ armed = FALSE /\ refused = {}
  BY DEF Init
<1>2. text \in Texts /\ heard \in Texts /\ committed \in Texts /\ history \in Seq(Texts)
      /\ selected \in Nat /\ segments \in Seq(Span)
  BY <1>1 DEF Texts
<1>3. Tiled(text, segments, selected)
  BY <1>1 DEF Tiled
<1>4. HeardLast /\ CommitNeverRefused
  BY <1>1 DEF HeardLast, CommitNeverRefused
<1> QED
  BY <1>2, <1>3, <1>4 DEF SourceInv

(* A hypothesis in conflict is only heard, and stays in conflict. *)
LEMMA ConflictKeepsSource ==
  ASSUME SourceInv, NEW t \in Hypotheses, IngestConflict(t)
  PROVE  SourceInv'
<1>1. t \in Texts
  BY HypothesesAreTexts
<1>2. history' \in Seq(Texts) /\ history' # <<>> /\ history'[Len(history')] = t
  BY <1>1, RememberNewest DEF IngestConflict, SourceInv
<1>3. /\ heard' = t /\ Conflict(heard', committed')
      /\ UNCHANGED <<text, committed, segments, selected, armed, refused>>
  BY DEF IngestConflict
<1>4. HeardLast'
  BY <1>2, <1>3 DEF HeardLast
<1> QED
  BY <1>1, <1>2, <1>3, <1>4 DEF SourceInv, CommitNeverRefused

(* Any other is committed, as what is stable keeps what is protected, and  *)
(* rolls the segments back to where it differs.                            *)
LEMMA IngestKeepsSource ==
  ASSUME SourceInv, NEW t \in Hypotheses, NEW isFinal \in BOOLEAN, Ingest(t, isFinal)
  PROVE  SourceInv'
<1> DEFINE hist == Remember(history, t)
           index == RollbackIndex(text, t, segments)
<1>1. t \in Texts
  BY HypothesesAreTexts
<1>2. /\ text \in Texts /\ heard \in Texts /\ committed \in Texts /\ history \in Seq(Texts)
      /\ selected \in Nat /\ segments \in Seq(Span) /\ Tiled(text, segments, selected)
      /\ "commit" \notin refused
  BY DEF SourceInv, CommitNeverRefused
<1>3. hist \in Seq(Texts) /\ hist # <<>> /\ hist[Len(hist)] = t /\ t \in Range(hist)
  BY <1>1, <1>2, RememberNewest
<1>4. /\ isFinal \/ ~Conflict(t, committed)
      /\ segments' = SubSeq(segments, 1, index - 1) /\ selected' = RolledBack(index)
      /\ text' = t /\ heard' = t /\ history' = hist /\ armed' = TRUE
  BY DEF Ingest
<1>5. PICK end \in StableEnds(t, hist, committed, isFinal) :
        IF CommitAllowed(t, end, committed, isFinal)
        THEN committed' = Slice(t, 0, end) /\ UNCHANGED refused
        ELSE UNCHANGED committed /\ refused' = refused \cup {"commit"}
  BY DEF Ingest
<1> HIDE DEF hist
<1>6. /\ end \in {0} \cup Ends(t)
      /\ ~Conflict(t, committed) => end >= Len(committed)
  BY <1>1, <1>2, <1>3, <1>5, StableEndsSound
<1>7. end \in Nat /\ end <= Len(t) /\ Len(committed) \in Nat
  <2>1. Len(committed) \in Nat
    BY <1>2, EndsWithin
  <2> QED
    BY <1>1, <1>6, <2>1, EndsWithin
<1>8. CommitAllowed(t, end, committed, isFinal)
  BY <1>4, <1>6, <1>7 DEF CommitAllowed
<1>9. committed' \in Texts /\ refused' = refused
  <2>1. Slice(t, 0, end) \in Texts
    BY <1>1, <1>7, SliceAgrees
  <2> QED
    BY <1>5, <1>8, <2>1
<1>10. segments' \in Seq(Span) /\ selected' \in Nat /\ Tiled(t, segments', selected')
  BY <1>1, <1>2, <1>4, RollbackTiles
<1>11. HeardLast'
  BY <1>3, <1>4 DEF HeardLast
<1> QED
  BY <1>1, <1>2, <1>3, <1>4, <1>9, <1>10, <1>11 DEF SourceInv, CommitNeverRefused

(* What a refreshed evaluation protects is a prefix of the text heard. *)
LEMMA ProtectKeeps ==
  ASSUME SourceInv, armed, NEW end \in 0 .. Len(text), Refreshed(end), Protect(end),
         UNCHANGED <<text, heard>>
  PROVE  committed' \in Texts /\ (heard' = text' \/ Conflict(heard', committed'))
<1>1. /\ heard \in Texts /\ text \in Texts /\ committed \in Texts /\ history \in Seq(Texts)
      /\ heard = text \/ Conflict(heard, committed)
  BY DEF SourceInv, HeardLast
<1>2. CASE Conflict(heard, committed)
  BY <1>1, <1>2 DEF Protect
<1>3. CASE ~Conflict(heard, committed)
  <2>1. heard = text /\ committed' = Slice(heard, 0, end)
    BY <1>1, <1>3 DEF Protect
  <2>2. end \in Nat /\ end <= Len(heard)
    BY <1>1, <2>1, EndsWithin
  <2>3. Slice(heard, 0, end) \in Texts
    BY <1>1, <2>2, SliceAgrees
  <2> QED
    BY <2>1, <2>3
<1> QED
  BY <1>2, <1>3

(* An evaluation that passes by changes nothing of it. *)
LEMMA SkipKeepsSource ==
  ASSUME SourceInv, EvaluateSkips
  PROVE  SourceInv'
BY DEF SourceInv, EvaluateSkips, HeardLast, CommitNeverRefused

(* A selection goes on where the last one ended. *)
LEMMA EvaluateKeepsSource ==
  ASSUME SourceInv, Evaluate
  PROVE  SourceInv'
<1>1. /\ text \in Texts /\ heard \in Texts /\ committed \in Texts /\ history \in Seq(Texts)
      /\ selected \in Nat /\ segments \in Seq(Span) /\ Tiled(text, segments, selected)
      /\ "commit" \notin refused
  BY DEF SourceInv, CommitNeverRefused
<1>2. armed /\ UNCHANGED <<text, heard, history, refused>>
  BY DEF Evaluate
<1>3. PICK end \in 0 .. Len(text) :
        /\ Refreshed(end) /\ Protect(end)
        /\ \E cuts \in SUBSET SegmentPrefix(selected, end) :
             /\ segments' = segments \o Cut(cuts)
             /\ selected' = Max({selected} \cup cuts)
  BY DEF Evaluate
<1>4. committed' \in Texts /\ (heard' = text' \/ Conflict(heard', committed'))
  BY <1>2, <1>3, ProtectKeeps
<1>5. segments' \in Seq(Span) /\ selected' \in Nat /\ Tiled(text, segments', selected')
  BY <1>1, <1>3, CutTiles
<1>6. HeardLast'
  <2>1. /\ history # <<>> => heard = history[Len(history)]
        /\ history # <<>>
    BY <1>2 DEF SourceInv, HeardLast
  <2> QED
    BY <1>2, <1>4, <2>1 DEF HeardLast
<1> QED
  BY <1>1, <1>2, <1>4, <1>5, <1>6 DEF SourceInv, CommitNeverRefused

(* A selection that raises has protected, but selected nothing. *)
LEMMA FailureKeepsSource ==
  ASSUME SourceInv, EvaluateFails
  PROVE  SourceInv'
<1>1. /\ armed /\ armed' = FALSE /\ refused' = refused \cup {"boundary"}
      /\ UNCHANGED <<text, heard, history, selected, segments>>
  BY DEF EvaluateFails
<1>2. PICK end \in 0 .. Len(text) : Refreshed(end) /\ Protect(end)
  BY DEF EvaluateFails
<1>3. committed' \in Texts /\ (heard' = text' \/ Conflict(heard', committed'))
  BY <1>1, <1>2, ProtectKeeps
<1>4. HeardLast'
  BY <1>1, <1>3 DEF SourceInv, HeardLast
<1>5. CommitNeverRefused'
  BY <1>1 DEF SourceInv, CommitNeverRefused
<1> QED
  BY <1>1, <1>3, <1>4, <1>5 DEF SourceInv

(* So does every step. *)
LEMMA StepKeepsSource == SourceInv /\ [Next]_vars => SourceInv'
<1> SUFFICES ASSUME SourceInv, [Next]_vars PROVE SourceInv'
  OBVIOUS
<1>1. CASE \E t \in Hypotheses : IngestConflict(t)
  BY <1>1, ConflictKeepsSource
<1>2. CASE \E t \in Hypotheses, isFinal \in BOOLEAN : Ingest(t, isFinal)
  BY <1>2, IngestKeepsSource
<1>3. CASE EvaluateSkips
  BY <1>3, SkipKeepsSource
<1>4. CASE Evaluate
  BY <1>4, EvaluateKeepsSource
<1>5. CASE EvaluateFails
  BY <1>5, FailureKeepsSource
<1>6. CASE UNCHANGED vars
  BY <1>6 DEF vars, SourceInv, HeardLast, CommitNeverRefused
<1> QED
  BY <1>1, <1>2, <1>3, <1>4, <1>5, <1>6 DEF Next

(* SourceInv holds in every state. *)
LEMMA SourceInvariant == Spec => []SourceInv
<1>1. Init => SourceInv
  BY InitSource
<1>2. SourceInv /\ [Next]_vars => SourceInv'
  BY StepKeepsSource
<1> QED
  BY <1>1, <1>2, PTL DEF Spec

(* SegmentsSpellSource: every word selected is translated once. *)
THEOREM SourceIsSpelt == Spec => []SegmentsSpellSource
<1>1. SourceInv => SegmentsSpellSource
  <2> SUFFICES ASSUME SourceInv PROVE SegmentsSpellSource
    OBVIOUS
  <2>1. /\ text \in Texts /\ selected \in Nat /\ segments \in Seq(Span)
        /\ Tiled(text, segments, selected)
    BY DEF SourceInv
  <2>2. FlattenSeq([k \in DOMAIN segments |-> segments[k].source]) = Slice(text, 0, selected)
    BY <2>1, FlattenTiled
  <2>3. selected <= Len(text)
    BY <2>1 DEF Tiled
  <2> QED
    BY <2>2, <2>3 DEF SegmentsSpellSource
<1> QED
  BY <1>1, SourceInvariant, PTL

(* CommitNeverRefused: no hypothesis and no evaluation makes a commit that *)
(* the tracker refuses.                                                    *)
THEOREM CommitsAccepted == Spec => []CommitNeverRefused
<1>1. SourceInv => CommitNeverRefused
  BY DEF SourceInv
<1> QED
  BY <1>1, SourceInvariant, PTL

=============================================================================

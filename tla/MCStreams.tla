----------------------------- MODULE MCStreams -----------------------------
(***************************************************************************)
(* The components that turn one stream into another, each checked by       *)
(* itself: Init chooses a part and only that part takes steps.  They are    *)
(* extended, so that the run checks the properties the theorems state.     *)
(***************************************************************************)
EXTENDS TranslationSession, OrchestratedProvider, BoundaryGenerations, BoundaryLanes, Launch,
        DemoSetup, SpeakerStream, SpeakerNames, WireAudio, CaptureTimeline, DesktopBridge,
        TLC

CONSTANTS a, b, c1

VARIABLE part

(* A marker whose beginnings overlap the text around it. *)
StreamLetters == {"l", "t"}
StreamMarkers == {<<"l", "t", "t">>}

(* Settings for Launch: every combination of switches with default times,  *)
(* of an address and a model that may be unusable, and all switches on     *)
(* with every combination of some times.  Half milliseconds: of 1.005 s    *)
(* one is lost, so .5 + .5045 fits it and .5 + .504 does; .004 + .1 comes  *)
(* out above .104, so it fits .1045 only until that is truncated.          *)
LaunchTimes ==
  [selection: {-1, 3}, translation: {-1, 2, 180000}, hold: {-1, 5}, total: {-1, 5, 240000},
   interval: {-1, 2}, idle: {-1, 4, 20000}]
Fractions ==
  [selection: {1000}, translation: {1008, 1009, 1010}, hold: {5}, total: {2010}, interval: {2},
   idle: {-1, 2008}] \cup
  [selection: {8}, translation: {200}, hold: {5}, total: {208, 209, 210}, interval: {2}, idle: {-1}]
LossyTimes == {2010}
HeavyPairs == {<<8, 200>>}

Flag == {"update", "schema", "gemma", "named", "prompt", "refined", "quality", "low"}
Sound == [net |-> "host", safe |-> TRUE, times |-> NoTimes]
Spoilt == [net: {"group", "mistyped"}, safe: {TRUE}, times: {NoTimes}] \cup
            [net: {"host", "group"}, safe: {FALSE}, times: {NoTimes}]
AllOn == [k \in Flag |-> TRUE] @@ Sound
LaunchConfigs == {f @@ Sound : f \in [Flag -> BOOLEAN]} \cup
                 {f @@ n : f \in {g \in [Flag -> BOOLEAN] : ~g.refined /\ ~g.quality /\ ~g.low}, n \in Spoilt} \cup
                 {[AllOn EXCEPT !.times = t] : t \in LaunchTimes \cup Fractions}

allVars == <<part, streamVars, orchVars, wireVars, capVars, spkVars, nmVars,
  gnVars, lnVars, deskVars, vars, launchVars, setupVars>>

(* Voices are interchangeable. *)
Symmetry == Permutations({a, b})

Parts == {"provider", "orchestra", "wire", "capture", "speaker", "names", "generations", "lanes",
          "desk", "session", "launch", "setup"}

(* What a step of one part leaves alone. *)
Others(p) ==
  /\ UNCHANGED part
  /\ p # "provider" => UNCHANGED streamVars
  /\ p # "orchestra" => UNCHANGED orchVars
  /\ p # "wire" => UNCHANGED wireVars
  /\ p # "capture" => UNCHANGED capVars
  /\ p # "speaker" => UNCHANGED spkVars
  /\ p # "names" => UNCHANGED nmVars
  /\ p # "generations" => UNCHANGED gnVars
  /\ p # "lanes" => UNCHANGED lnVars
  /\ p # "desk" => UNCHANGED deskVars
  /\ p # "session" => UNCHANGED vars
  /\ p # "launch" => UNCHANGED launchVars
  /\ p # "setup" => UNCHANGED setupVars

PartInit ==
  /\ part \in Parts
  /\ StreamInit
  /\ OrchInit
  /\ WireInit
  /\ CapInit
  /\ SpkInit
  /\ NmInit
  /\ GnInit
  /\ LnInit
  /\ DeskInit
  /\ Init
  /\ SetupInit
  /\ LaunchInit
  /\ part # "launch" => lncConfig = AllOn
  /\ part # "provider" => profile = "ollama"
  /\ part # "generations" => gnIdle = FALSE

PartNext ==
  \/ part = "provider" /\ StreamNext /\ Others("provider")
  \/ part = "orchestra" /\ OrchNext /\ Others("orchestra")
  \/ part = "wire" /\ WireNext /\ Others("wire")
  \/ part = "capture" /\ CapNext /\ Others("capture")
  \/ part = "speaker" /\ SpkNext /\ Others("speaker")
  \/ part = "names" /\ NmNext /\ Others("names")
  \/ part = "generations" /\ GnNext /\ Others("generations")
  \/ part = "lanes" /\ LnNext /\ Others("lanes")
  \/ part = "desk" /\ DeskNext /\ Others("desk")
  \/ part = "session" /\ Next /\ Others("session")
  \/ part = "launch" /\ LaunchNext /\ Others("launch")
  \/ part = "setup" /\ SetupNext /\ Others("setup")

PartSpec == PartInit /\ [][PartNext]_allVars
=============================================================================

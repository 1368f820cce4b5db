------------------------------ MODULE Process ------------------------------
(***************************************************************************)
(* One state space for the specifications around the capture pipeline,     *)
(* save Lifecycle, which is large, and of the demos that came with the SDK. *)
(* They share no variables; a behaviour follows the one that part names,   *)
(* and leaves the others in their initial states.                          *)
(***************************************************************************)
EXTENDS Settings, GPSInfo, SaveData, Services, FileDispatch, Demos

VARIABLE part

vars == <<part, settingsVars, gpsVars, saveVars, servicesVars, dispatchVars,
          demoVars>>

Init ==
    /\ part \in {"settings", "gps", "save", "services", "dispatch", "demos"}
    /\ SettingsInit /\ GPSInit /\ SaveInit /\ ServicesInit /\ DispatchInit
    /\ DemosInit /\ (part = "demos" \/ (program = "snap" /\ color /\ ~asi120))

Next ==
    /\ UNCHANGED part
    /\ part # "settings" => UNCHANGED settingsVars
    /\ part # "gps" => UNCHANGED gpsVars
    /\ part # "save" => UNCHANGED saveVars
    /\ part # "services" => UNCHANGED servicesVars
    /\ part # "dispatch" => UNCHANGED dispatchVars
    /\ part # "demos" => UNCHANGED demoVars
    /\ \/ part = "settings" /\ SettingsNext
       \/ part = "gps" /\ GPSNext
       \/ part = "save" /\ SaveNext
       \/ part = "services" /\ ServicesNext
       \/ part = "dispatch" /\ DispatchNext
       \/ part = "demos" /\ DemosNext

\* The fairness of the part that runs; the others make no step.
Fairness ==
    /\ WF_settingsVars(part = "settings" /\ (WaitRound \/ WaitOver))
    /\ WF_gpsVars(part = "gps" /\ GpsThread)
    /\ WF_demoVars(part = "demos" /\ DisplayRuns)
    /\ WF_demoVars(part = "demos" /\ MainRuns)
    /\ WF_demoVars(part = "demos" /\ ExposureEnds)

Spec == Init /\ [][Next]_vars /\ Fairness

-----------------------------------------------------------------------------
\* The state of every part has the types its variables stand for.
ProcessTypeOK ==
    /\ SettingsTypeOK /\ GPSTypeOK /\ SaveTypeOK
    /\ ServicesTypeOK /\ DispatchTypeOK /\ DemosTypeOK

\* Waits that somebody joins or watches come to an end: the wait for the cooler, even if no
\* temperature can be read or the camera never gets cold (expo_wait_cooling); the GPS thread
\* that was told to stop, whatever its connection does (GPSInfo); and a demo after the key to
\* quit, even when a key before it makes a new display thread (main_SDK2_video.cpp:357-478).
Unfinished == Cooling \/ GpsStopping \/ Quitting
WaitsEnd == Unfinished ~> ~Unfinished
=============================================================================

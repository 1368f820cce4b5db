------------------------------ MODULE Settings ------------------------------
(***************************************************************************)
(* What main does to one camera before its threads are launched: reading   *)
(* the controls, setting them from the command line, choosing the image    *)
(* format; then the wait for the cooler, with the monitor thread.          *)
(*                                                                         *)
(* A control value is 0 when nothing was read, 1 when it is what the       *)
(* command line asks for, 2 the camera's default, 3 what the camera made   *)
(* of a request it could not meet exactly.  Temperatures use the same      *)
(* scale, and INT_MAX is the reading before the first one.                 *)
(***************************************************************************)
EXTENDS Naturals, Sequences

CONSTANTS
    Controls,   \* the controls this instance distinguishes
    WaitMax     \* rounds of waiting for the cooler (1000 in the code)

Order == <<"TARGET_TEMP", "COOLER_ON", "GAIN", "GAMMA", "MONO_BIN",
           "HIGH_SPEED_MODE", "BANDWIDTHOVERLOAD", "FLIP", "EXPOSURE">>

ASSUME SettingsAssumption ==
    /\ {"TARGET_TEMP", "EXPOSURE"} \subseteq Controls
    /\ Controls \subseteq {Order[i] : i \in 1..Len(Order)}
    /\ WaitMax \in Nat \ {0}

Value == 0..3
INT_MAX == 9

VARIABLES
    phase,       \* how far main, then the exposure thread, has come
    flags,       \* [wait: wait_cooling, cooler: cooler, long: expo_ms > 60000]
    todo,        \* controls still to read or to set
    device,      \* the values the camera works with
    ctrlVal,     \* what the handler believes they are
    expo_ms,     \* EXPO_MS of every file
    cool_temp,   \* what expo_wait_cooling waits for, COOLTEMP of every file
    refused,     \* <<"get", k>> and <<"set", k>> of the calls that failed
    real_temp,   \* what the monitor thread read last
    wait_max,    \* rounds left
    calm         \* th_expo_stop is still 0

setupVars == <<flags, todo, device, ctrlVal, expo_ms, cool_temp, refused>>
waitVars == <<real_temp, wait_max, calm>>
settingsVars == <<phase, setupVars, waitVars>>

SettingsInit ==
    /\ phase = "parse"
    /\ flags = [wait |-> FALSE, cooler |-> FALSE, long |-> FALSE]
    /\ todo = Controls
    /\ device = [k \in Controls |-> 2]
    /\ ctrlVal = [k \in Controls |-> 0]
    /\ expo_ms = 2
    /\ cool_temp = 0
    /\ refused = {}
    /\ real_temp = INT_MAX
    /\ wait_max = 0
    /\ calm = TRUE

\* It is k's turn: nothing before it in Order is still to do.
Earlier(j, k) == \E m, n \in 1..Len(Order) : m < n /\ Order[m] = j /\ Order[n] = k
Turn(k) == k \in todo /\ \A j \in todo : ~Earlier(j, k)

\* gflags accepts expo_ms up to 10^6.
ParseCommandLineFlags ==
    /\ phase = "parse"
    /\ flags' \in [wait : BOOLEAN, cooler : BOOLEAN, long : BOOLEAN]
    /\ phase' = "read"
    /\ UNCHANGED <<todo, device, ctrlVal, expo_ms, cool_temp, refused, waitVars>>

\* The result of ASIGetControlValue is not looked at: after an error 0 is kept.
SaveCtrlVal == \E k \in Controls :
    /\ phase = "read" /\ Turn(k)
    /\ \/ ctrlVal' = [ctrlVal EXCEPT ![k] = device[k]] /\ UNCHANGED refused
       \/ refused' = refused \cup {<<"get", k>>} /\ UNCHANGED ctrlVal
    /\ todo' = IF todo = {k} THEN Controls ELSE todo \ {k}
    /\ phase' = IF todo = {k} THEN "set" ELSE phase
    /\ UNCHANGED <<flags, device, expo_ms, cool_temp, waitVars>>

\* The end of setCtrlVal: the exposure time in use is the one the camera has.
NoSyncExpo(k, val) ==
    expo_ms' = IF k = "EXPOSURE" THEN 1 ELSE expo_ms
SyncExpo(k, val) ==
    expo_ms' = IF k = "EXPOSURE" THEN val ELSE expo_ms

\* setCtrlVal when the camera takes the value, perhaps not exactly, and tells it.
SetCtrlVal(k, val) ==
    /\ device' = [device EXCEPT ![k] = val]
    /\ ctrlVal' = [ctrlVal EXCEPT ![k] = val]
    /\ SyncExpo(k, val)
    /\ UNCHANGED refused

\* setCtrlVal when the camera refuses.
SetFailed(k) ==
    /\ refused' = refused \cup {<<"set", k>>}
    /\ UNCHANGED <<device, ctrlVal, expo_ms>>

\* setCoolerTemp: its range test holds for no temperature, and the target is
\* what the handler believes to be set, whether or not the call succeeded.
CopyCoolerTemp(k) ==
    cool_temp' = IF k = "TARGET_TEMP" THEN ctrlVal'[k] ELSE cool_temp
SetControl == \E k \in Controls \ {"EXPOSURE"} :
    /\ phase = "set" /\ Turn(k)
    /\ (\E val \in {1, 3} : SetCtrlVal(k, val)) \/ SetFailed(k)
    /\ CopyCoolerTemp(k)
    /\ todo' = todo \ {k}
    /\ UNCHANGED <<phase, flags, waitVars>>

\* setExpoMilliSec runs inside an assert: any other result than success aborts.
SetExpoMilliSec ==
    /\ phase = "set"
    /\ todo = {"EXPOSURE"}
    /\ ~flags.long
    /\ \E val \in {1, 3} : SetCtrlVal("EXPOSURE", val)
    /\ todo' = {}
    /\ phase' = "roi"
    /\ UNCHANGED <<flags, cool_temp, waitVars>>

\* The aborts of the set up: an exposure above 60 s, which the flag allows; a
\* refused exposure; a value that cannot be read back; a refused image format.
SetupAborts ==
    /\ phase \in {"set", "roi"}
    /\ phase' = "aborted"
    /\ UNCHANGED <<setupVars, waitVars>>

\* setROIFormat; then monitor_loop and expo_loop_start, and the first lines of
\* expo_wait_cooling.
SetROIFormat ==
    /\ phase = "roi"
    /\ phase' = "wait"
    /\ wait_max' = IF flags.wait /\ flags.cooler THEN WaitMax ELSE 0
    /\ UNCHANGED <<setupVars, real_temp, calm>>

\* The monitor thread; after an error the last reading stays.
MonitorRead ==
    /\ phase \in {"wait", "expose"}
    /\ calm
    /\ real_temp' \in 0..4
    /\ UNCHANGED <<phase, setupVars, wait_max, calm>>

\* A round of the wait: not cold yet, so five seconds pass.
RoundNotCounted ==
    /\ phase = "wait" /\ calm /\ wait_max > 0 /\ real_temp >= cool_temp + 1
    /\ UNCHANGED settingsVars

WaitRound ==
    /\ phase = "wait"
    /\ calm
    /\ wait_max > 0
    /\ real_temp >= cool_temp + 1
    /\ wait_max' = wait_max - 1
    /\ UNCHANGED <<phase, setupVars, real_temp, calm>>

WaitOver ==
    /\ phase = "wait"
    /\ ~calm \/ wait_max = 0 \/ real_temp < cool_temp + 1
    /\ phase' = "expose"
    /\ UNCHANGED <<setupVars, waitVars>>

\* Someone raises th_expo_stop; the sleep of five seconds is cut short.
StopWaiting ==
    /\ phase \in {"wait", "expose"}
    /\ calm' = FALSE
    /\ UNCHANGED <<phase, setupVars, real_temp, wait_max>>

SettingsNext ==
    \/ ParseCommandLineFlags
    \/ SaveCtrlVal
    \/ SetControl
    \/ SetExpoMilliSec
    \/ SetupAborts
    \/ SetROIFormat
    \/ MonitorRead
    \/ WaitRound
    \/ WaitOver
    \/ StopWaiting

SettingsFairness == WF_settingsVars(WaitRound \/ WaitOver)

SettingsSpec == SettingsInit /\ [][SettingsNext]_settingsVars /\ SettingsFairness

-----------------------------------------------------------------------------
SettingsTypeOK ==
    /\ phase \in {"parse", "read", "set", "roi", "aborted", "wait", "expose"}
    /\ flags \in [wait : BOOLEAN, cooler : BOOLEAN, long : BOOLEAN]
    /\ todo \subseteq Controls
    /\ device \in [Controls -> Value] /\ ctrlVal \in [Controls -> Value]
    /\ expo_ms \in Value /\ cool_temp \in Value
    /\ refused \subseteq {"get", "set"} \X Controls
    /\ real_temp \in (0..4) \cup {INT_MAX}
    /\ wait_max \in 0..WaitMax
    /\ calm \in BOOLEAN

\* From the launch on, the exposure time written to the files is the one the
\* camera works with, even if it rounded the request; the temperature waited for
\* and written is the camera's target unless the camera refused both to be read
\* and to be set (setCtrlVal, setExpoMilliSec, setCoolerTemp).
HeaderSettingsTrue ==
    phase \in {"wait", "expose"} =>
        /\ expo_ms = device["EXPOSURE"]
        /\ \/ cool_temp = device["TARGET_TEMP"]
           \/ {<<"get", "TARGET_TEMP">>, <<"set", "TARGET_TEMP">>} \subseteq refused

\* expo_wait_cooling waits for the cooler.
Cooling == phase = "wait"
=============================================================================

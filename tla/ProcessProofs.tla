--------------------------- MODULE ProcessProofs ---------------------------
(***************************************************************************)
(* What the parts of Process and Lifecycle keep, for every value of the    *)
(* constants: for each its inductive invariant and the theorem of its      *)
(* specification, and at the end the same for Process, whose behaviours    *)
(* follow one part.                                                        *)
(***************************************************************************)
EXTENDS Process, Lifecycle, FiniteSetTheorems, TLAPS

-----------------------------------------------------------------------------
(* Settings *)

(* The controls whose value main may not know: while it reads, those not yet *)
(* read; afterwards those it could not read, until they are set.             *)
KnownInv ==
  /\ phase \in {"parse", "read"} =>
       \A k \in Controls : \/ k \in todo \/ ctrlVal[k] = device[k]
                           \/ <<"get", k>> \in refused
  /\ phase \in {"set", "roi", "wait", "expose"} =>
       \A k \in Controls :
         ctrlVal[k] # device[k] =>
           /\ <<"get", k>> \in refused
           /\ k \in todo \/ <<"set", k>> \in refused

(* What is copied on the way: the target temperature when its turn has       *)
(* come, the exposure time, which is set last and must not be refused.       *)
CopiedInv ==
  /\ phase \in {"set", "roi", "wait", "expose"} =>
       "TARGET_TEMP" \in todo \/ cool_temp = ctrlVal["TARGET_TEMP"]
  /\ phase \in {"roi", "wait", "expose"} => todo = {} /\ expo_ms = device["EXPOSURE"]

SettingsInv == SettingsTypeOK /\ KnownInv /\ CopiedInv

LEMMA SettingsInvInit == SettingsInit => SettingsInv
<1> SUFFICES ASSUME SettingsInit PROVE SettingsInv
  OBVIOUS
<1>1. flags \in [wait : BOOLEAN, cooler : BOOLEAN, long : BOOLEAN]
  BY DEF SettingsInit
<1>2. device \in [Controls -> Value] /\ ctrlVal \in [Controls -> Value]
  BY DEF SettingsInit, Value
<1>3. wait_max \in 0..WaitMax /\ expo_ms \in Value /\ cool_temp \in Value
  BY SettingsAssumption DEF SettingsInit, Value
<1>4. SettingsTypeOK
  BY <1>1, <1>2, <1>3 DEF SettingsInit, SettingsTypeOK
<1>5. KnownInv /\ CopiedInv
  BY DEF SettingsInit, KnownInv, CopiedInv
<1> QED
  BY <1>4, <1>5 DEF SettingsInv

(* What a call that sets a control leaves of the types.                      *)
LEMMA SetTypes ==
  ASSUME SettingsTypeOK, NEW k \in Controls,
         (\E val \in {1, 3} : SetCtrlVal(k, val)) \/ SetFailed(k)
  PROVE  /\ (device \in [Controls -> Value] /\ ctrlVal \in [Controls -> Value])'
         /\ (expo_ms \in Value /\ refused \subseteq {"get", "set"} \X Controls)'
<1> USE DEF SettingsTypeOK, Value
<1>1. CASE \E val \in {1, 3} : SetCtrlVal(k, val)
  <2> PICK val \in {1, 3} : SetCtrlVal(k, val)
    BY <1>1
  <2> QED
    BY DEF SetCtrlVal, SyncExpo
<1>2. CASE SetFailed(k)
  BY <1>2 DEF SetFailed
<1> QED
  BY <1>1, <1>2

LEMMA SettingsTypes == SettingsInv /\ [SettingsNext]_settingsVars => SettingsTypeOK'
<1> SUFFICES ASSUME SettingsInv, [SettingsNext]_settingsVars PROVE SettingsTypeOK'
  OBVIOUS
<1> USE DEF SettingsInv, SettingsTypeOK, setupVars, waitVars
<1>1. CASE ParseCommandLineFlags
  BY <1>1 DEF ParseCommandLineFlags
<1>2. CASE SaveCtrlVal
  <2> PICK k \in Controls :
        /\ \/ ctrlVal' = [ctrlVal EXCEPT ![k] = device[k]] /\ UNCHANGED refused
           \/ refused' = refused \cup {<<"get", k>>} /\ UNCHANGED ctrlVal
        /\ todo' = IF todo = {k} THEN Controls ELSE todo \ {k}
        /\ phase' = IF todo = {k} THEN "set" ELSE phase
        /\ UNCHANGED <<flags, device, expo_ms, cool_temp, waitVars>>
    BY <1>2 DEF SaveCtrlVal
  <2>1. (ctrlVal \in [Controls -> Value] /\ refused \subseteq {"get", "set"} \X Controls)'
    OBVIOUS
  <2> QED
    BY <2>1
<1>3. CASE SetControl
  <2> PICK k \in Controls \ {"EXPOSURE"} :
        /\ (\E val \in {1, 3} : SetCtrlVal(k, val)) \/ SetFailed(k)
        /\ CopyCoolerTemp(k)
        /\ todo' = todo \ {k}
        /\ UNCHANGED <<phase, flags, waitVars>>
    BY <1>3 DEF SetControl
  <2>1. (device \in [Controls -> Value] /\ ctrlVal \in [Controls -> Value])'
        /\ (expo_ms \in Value /\ refused \subseteq {"get", "set"} \X Controls)'
    BY SetTypes
  <2> QED
    BY <2>1 DEF CopyCoolerTemp
<1>4. CASE SetExpoMilliSec
  <2>1. (device \in [Controls -> Value] /\ ctrlVal \in [Controls -> Value])'
        /\ (expo_ms \in Value /\ refused \subseteq {"get", "set"} \X Controls)'
    BY <1>4, SetTypes, SettingsAssumption DEF SetExpoMilliSec
  <2> QED
    BY <1>4, <2>1 DEF SetExpoMilliSec
<1>5. CASE SetupAborts \/ WaitOver \/ StopWaiting
  BY <1>5 DEF SetupAborts, WaitOver, StopWaiting
<1>6. CASE SetROIFormat
  BY <1>6, SettingsAssumption DEF SetROIFormat
<1>7. CASE MonitorRead
  BY <1>7 DEF MonitorRead
<1>8. CASE WaitRound
  BY <1>8, SettingsAssumption DEF WaitRound
<1>9. CASE UNCHANGED settingsVars
  BY <1>9 DEF settingsVars
<1> QED
  BY <1>1, <1>2, <1>3, <1>4, <1>5, <1>6, <1>7, <1>8, <1>9 DEF SettingsNext

LEMMA SettingsInvStep == SettingsInv /\ [SettingsNext]_settingsVars => SettingsInv'
<1> SUFFICES ASSUME SettingsInv, [SettingsNext]_settingsVars PROVE (KnownInv /\ CopiedInv)'
  BY SettingsTypes DEF SettingsInv
<1> USE DEF SettingsInv, SettingsTypeOK, KnownInv, CopiedInv
<1>1. CASE ParseCommandLineFlags
  BY <1>1 DEF ParseCommandLineFlags
<1>2. CASE SaveCtrlVal
  <2> PICK k \in Controls :
        /\ phase = "read"
        /\ \/ ctrlVal' = [ctrlVal EXCEPT ![k] = device[k]] /\ UNCHANGED refused
           \/ refused' = refused \cup {<<"get", k>>} /\ UNCHANGED ctrlVal
        /\ todo' = IF todo = {k} THEN Controls ELSE todo \ {k}
        /\ phase' = IF todo = {k} THEN "set" ELSE phase
        /\ UNCHANGED <<flags, device, expo_ms, cool_temp, waitVars>>
    BY <1>2 DEF SaveCtrlVal
  <2>1. ASSUME NEW j \in Controls, j # k, j \notin todo
        PROVE  ctrlVal'[j] = device'[j] \/ <<"get", j>> \in refused'
    BY <2>1
  <2>2. ctrlVal'[k] = device'[k] \/ <<"get", k>> \in refused'
    OBVIOUS
  <2>3. KnownInv'
    BY <2>1, <2>2
  <2> QED
    BY <2>3, SettingsAssumption
<1>3. CASE SetControl
  <2> PICK k \in Controls \ {"EXPOSURE"} :
        /\ phase = "set"
        /\ (\E val \in {1, 3} : SetCtrlVal(k, val)) \/ SetFailed(k)
        /\ CopyCoolerTemp(k)
        /\ todo' = todo \ {k}
        /\ UNCHANGED <<phase, flags, waitVars>>
    BY <1>3 DEF SetControl
  <2>1. CASE \E val \in {1, 3} : SetCtrlVal(k, val)
    BY <2>1, SettingsAssumption DEF SetCtrlVal, CopyCoolerTemp
  <2>2. CASE SetFailed(k)
    BY <2>2 DEF SetFailed, CopyCoolerTemp
  <2> QED
    BY <2>1, <2>2
<1>4. CASE SetExpoMilliSec
  BY <1>4, SettingsAssumption DEF SetExpoMilliSec, SetCtrlVal, SyncExpo
<1>5. CASE SetupAborts \/ SetROIFormat \/ MonitorRead \/ WaitRound \/ WaitOver \/ StopWaiting
  BY <1>5 DEF SetupAborts, SetROIFormat, MonitorRead, WaitRound, WaitOver, StopWaiting, setupVars
<1>6. CASE UNCHANGED settingsVars
  BY <1>6 DEF settingsVars, setupVars
<1> QED
  BY <1>1, <1>2, <1>3, <1>4, <1>5, <1>6 DEF SettingsNext

LEMMA SettingsInvImplies == SettingsInv => HeaderSettingsTrue
BY SettingsAssumption DEF SettingsInv, KnownInv, CopiedInv, HeaderSettingsTrue

(* The exposure time and the temperature written to every file are the ones  *)
(* the camera works with, even if it rounded what was asked for, and for the *)
(* temperature unless the camera refused both calls (setExpoMilliSec,        *)
(* setCoolerTemp).                                                           *)
THEOREM HeaderSettings == SettingsSpec => []HeaderSettingsTrue
BY SettingsInvInit, SettingsInvStep, SettingsInvImplies, PTL DEF SettingsSpec

-----------------------------------------------------------------------------
(* GPSInfo *)

(* While its thread goes on, gps_connected says whether the handle is open;  *)
(* stop clears it after the thread's end and leaves the handle.  A report    *)
(* that is announced has not been read.                                      *)
GpsConnectedInv ==
  /\ gps_pc # "ended" => (gps_connected <=> gps_handle = "open")
  /\ gps_pc = "read" => gps_data.pos < MaxFix

GpsInv == GPSTypeOK /\ GpsHandleValid /\ GpsConnectedInv

LEMMA GpsInvInit == GPSInit => GpsInv
<1> SUFFICES ASSUME GPSInit PROVE GpsInv
  OBVIOUS
<1>1. gps_data \in [pos : Fix, time : Fix]
  BY MaxFixAssumption DEF GPSInit, Fix
<1>2. meta \in [pos : Fix, time : Fix, connected : BOOLEAN]
  BY MaxFixAssumption DEF GPSInit, Fix
<1>3. GPSTypeOK
  BY <1>1, <1>2 DEF GPSInit, GPSTypeOK
<1>4. GpsHandleValid /\ GpsConnectedInv
  BY DEF GPSInit, GpsHandleValid, GpsConnectedInv
<1> QED
  BY <1>3, <1>4 DEF GpsInv

(* No step leaves the types: only the thread writes the fix, and only the    *)
(* exposure thread the metadata.                                             *)
LEMMA GpsTypes == GpsInv /\ [GPSNext]_gpsVars => GPSTypeOK'
<1> SUFFICES ASSUME GpsInv, [GPSNext]_gpsVars PROVE GPSTypeOK'
  OBVIOUS
<1> USE DEF GpsInv, GPSTypeOK, GPSNext, GpsThread, gpsVars, gpsThreadVars, readerVars,
      LoopTest, GpsOpen, GpsWaiting, GpsRead, GpsReadDone, GpsLost, GpsStop, GpsStopped,
      GetLatLonAlt, GetTime, GetConnected, NextFrame
<1>1. (gps_data \in [pos : Fix, time : Fix])'
  BY MaxFixAssumption DEF GpsConnectedInv, Fix
<1>2. (meta \in [pos : Fix, time : Fix, connected : BOOLEAN])'
  <2>1. CASE GetLatLonAlt
    BY <2>1
  <2>2. CASE GetTime
    BY <2>2
  <2>3. CASE GetConnected
    BY <2>3
  <2>4. CASE NextFrame
    BY <2>4, MaxFixAssumption DEF Fix
  <2>5. CASE meta' = meta
    BY <2>5
  <2> QED
    BY <2>1, <2>2, <2>3, <2>4, <2>5
<1>3. (gps_pc \in {"test", "open", "wait", "read", "half", "ended"})'
  OBVIOUS
<1>4. (isloop \in BOOLEAN /\ gps_connected \in BOOLEAN)'
  OBVIOUS
<1>5. (gps_handle \in {"closed", "open"} /\ reader \in {"lat_lon_alt", "time", "connected", "done"})'
  OBVIOUS
<1> QED
  BY ONLY <1>1, <1>2, <1>3, <1>4, <1>5 DEF GPSTypeOK

(* Every step of the thread, of stop and of the exposure thread.             *)
LEMMA GpsInvStep == GpsInv /\ [GPSNext]_gpsVars => GpsInv'
<1> SUFFICES ASSUME GpsInv, [GPSNext]_gpsVars PROVE (GpsHandleValid /\ GpsConnectedInv)'
  BY GpsTypes DEF GpsInv
<1> USE DEF GpsInv, GPSTypeOK, GpsHandleValid, GpsConnectedInv, gpsThreadVars, readerVars
<1>1. CASE LoopTest \/ GpsOpen \/ GpsWaiting \/ GpsLost
  BY <1>1 DEF LoopTest, GpsOpen, GpsWaiting, GpsLost
<1>2. CASE GpsRead \/ GpsReadDone
  BY <1>2 DEF GpsRead, GpsReadDone
<1>3. CASE GpsStop \/ GpsStopped
  BY <1>3 DEF GpsStop, GpsStopped
<1>4. CASE GetLatLonAlt \/ GetTime \/ GetConnected \/ NextFrame
  BY <1>4 DEF GetLatLonAlt, GetTime, GetConnected, NextFrame
<1>5. CASE UNCHANGED gpsVars
  BY <1>5 DEF gpsVars
<1> QED
  BY <1>1, <1>2, <1>3, <1>4, <1>5 DEF GPSNext, GpsThread

(* However often the connection is lost and opened again, libgps is asked    *)
(* for data on an open handle only and never opened twice (GPSInfo::loop).   *)
THEOREM GpsHandle == GPSSpec => []GpsHandleValid
<1>1. GpsInv => GpsHandleValid
  BY DEF GpsInv
<1> QED
  BY <1>1, GpsInvInit, GpsInvStep, PTL DEF GPSSpec

-----------------------------------------------------------------------------
(* SaveData *)

(* A saving thread that still runs alone has its hour in gmtime's buffer,    *)
(* and no other thread between its gmtime and the end of save_data.          *)
AloneInv ==
  \A c \in Cams : alone[c] /\ place[c] \in Saving =>
    /\ utctm = tim_expo_start[c]
    /\ \A d \in Cams \ {c} : place[d] \notin Saving

(* What it has put together so far is its own hour, and the directory it     *)
(* found missing is missing.                                                 *)
NamedInv ==
  \A c \in Cams : alone[c] =>
    /\ place[c] \in {"dir", "mkdir", "name"} => named[c].date = tim_expo_start[c]
    /\ place[c] \in {"mkdir", "name"} => named[c].dir = tim_expo_start[c]
    /\ place[c] = "mkdir" => named[c].dir \notin dirs
    /\ place[c] # "error"

SaveInv == SaveTypeOK /\ AloneInv /\ NamedInv /\ MisfiledOnlyByOverlap

LEMMA SaveInvInit == SaveInit => SaveInv
<1> SUFFICES ASSUME SaveInit PROVE SaveInv
  OBVIOUS
<1> USE SaveAssumption DEF SaveInit, Hour
<1>1. named \in [Cams -> [date : Hour, dir : Hour]]
  OBVIOUS
<1>2. filed \in File
  BY DEF File
<1>3. hour \in Hour /\ utctm \in Hour /\ tim_expo_start \in [Cams -> Hour]
  OBVIOUS
<1>4. SaveTypeOK
  BY <1>1, <1>2, <1>3 DEF SaveTypeOK
<1>5. AloneInv /\ NamedInv /\ MisfiledOnlyByOverlap
  BY DEF AloneInv, NamedInv, MisfiledOnlyByOverlap, Saving
<1> QED
  BY <1>4, <1>5 DEF SaveInv

LEMMA SaveTypes == SaveInv /\ [SaveNext]_saveVars => SaveTypeOK'
<1> SUFFICES ASSUME SaveInv, [SaveNext]_saveVars PROVE SaveTypeOK'
  OBVIOUS
<1> USE DEF SaveInv, SaveTypeOK, Goto
<1>1. CASE HourPasses
  BY <1>1, SaveAssumption DEF HourPasses, Hour
<1>2. ASSUME NEW c \in Cams, PickFrame(c) PROVE SaveTypeOK'
  BY <1>2 DEF PickFrame
<1>3. ASSUME NEW c \in Cams, SaveBegin(c) PROVE SaveTypeOK'
  <2>1. (alone \in [Cams -> BOOLEAN])'
    BY <1>3, Zenon DEF SaveBegin
  <2> QED
    BY <1>3, <2>1 DEF SaveBegin, Gmtime, Saving
<1>4. ASSUME NEW c \in Cams, PutDate(c) \/ PutDir(c) PROVE SaveTypeOK'
  <2>1. (named \in [Cams -> [date : Hour, dir : Hour]])'
    BY <1>4 DEF PutDate, PutDir
  <2> QED
    BY <1>4, <2>1 DEF PutDate, PutDir, Saving
<1>5. ASSUME NEW c \in Cams, CreateDirectories(c) PROVE SaveTypeOK'
  <2>1. named[c].dir \in Hour
    BY <1>5
  <2>2. (dirs \subseteq Hour /\ up \in BOOLEAN)'
    BY <1>5, <2>1 DEF CreateDirectories
  <2> QED
    BY <1>5, <2>2 DEF CreateDirectories, Saving
<1>6. ASSUME NEW c \in Cams, WriteFile(c) PROVE SaveTypeOK'
  BY <1>6 DEF WriteFile, File
<1>7. CASE UNCHANGED saveVars
  BY <1>7 DEF saveVars
<1> QED
  BY <1>1, <1>2, <1>3, <1>4, <1>5, <1>6, <1>7 DEF SaveNext

LEMMA SaveInvStep == SaveInv /\ [SaveNext]_saveVars => SaveInv'
<1> SUFFICES ASSUME SaveInv, [SaveNext]_saveVars
             PROVE  (AloneInv /\ NamedInv /\ MisfiledOnlyByOverlap)'
  BY SaveTypes DEF SaveInv
<1> USE DEF SaveInv, SaveTypeOK, Goto, AloneInv, NamedInv, MisfiledOnlyByOverlap, Saving
<1>1. CASE HourPasses
  BY <1>1 DEF HourPasses
<1>2. ASSUME NEW c \in Cams, PickFrame(c) PROVE (AloneInv /\ NamedInv /\ MisfiledOnlyByOverlap)'
  BY <1>2 DEF PickFrame
<1>3. ASSUME NEW c \in Cams, SaveBegin(c) PROVE (AloneInv /\ NamedInv /\ MisfiledOnlyByOverlap)'
  BY <1>3 DEF SaveBegin, Gmtime
<1>4. ASSUME NEW c \in Cams, PutDate(c) PROVE (AloneInv /\ NamedInv /\ MisfiledOnlyByOverlap)'
  BY <1>4 DEF PutDate
<1>5. ASSUME NEW c \in Cams, PutDir(c) PROVE (AloneInv /\ NamedInv /\ MisfiledOnlyByOverlap)'
  BY <1>5 DEF PutDir
<1>6. ASSUME NEW c \in Cams, CreateDirectories(c)
      PROVE  (AloneInv /\ NamedInv /\ MisfiledOnlyByOverlap)'
  BY <1>6 DEF CreateDirectories
<1>7. ASSUME NEW c \in Cams, WriteFile(c) PROVE (AloneInv /\ NamedInv /\ MisfiledOnlyByOverlap)'
  BY <1>7 DEF WriteFile
<1>8. CASE UNCHANGED saveVars
  BY <1>8 DEF saveVars
<1> QED
  BY <1>1, <1>2, <1>3, <1>4, <1>5, <1>6, <1>7, <1>8 DEF SaveNext

(* Whatever the number of cameras, a save that no other overlaps files its   *)
(* frame under the hour its exposure began, and does not abort (save_data).  *)
THEOREM MisfiledOnlyByOverlapHolds == SaveSpec => []MisfiledOnlyByOverlap
<1>1. SaveInv => MisfiledOnlyByOverlap
  BY DEF SaveInv
<1> QED
  BY <1>1, SaveInvInit, SaveInvStep, PTL DEF SaveSpec

-----------------------------------------------------------------------------
(* Lifecycle *)

(* The one who joins, main or the handler, has ended every thread before its *)
(* place in the order of wait_all_threads; past the joins all threads have   *)
(* ended, and past the closing no camera is open.                            *)
JoinedUpTo(p) ==
  /\ p[1] = "join" =>
       \A c \in Cameras, k \in {1, 2, 3} :
         c < p[2] \/ (c = p[2] /\ k < p[3]) =>
           thread[<<c, k>>] = "ended" /\ <<c, k>> \notin handle
  /\ p[1] \in {"close", "http"} =>
       \A c \in Cameras, k \in {1, 2, 3} : thread[<<c, k>>] = "ended" /\ <<c, k>> \notin handle
  /\ p[1] = "http" => opened = {}

JoinsInv ==
  /\ JoinedUpTo(at)
  /\ sig # <<>> => JoinedUpTo(sig) /\ sig[1] \in {"join", "close", "http"}

(* An exposure that goes on after the flag went up was caught by it.  A      *)
(* saving thread ends when its camera is stopped and its queue empty; what   *)
(* is queued afterwards is the frame of such an exposure.                    *)
SavedInv ==
  \A c \in Cameras :
    /\ c \in stop /\ c \in exposing => c \in caught
    /\ thread[<<c, 2>>] = "ended" =>
         /\ c \in stop
         /\ queued[c] > 0 => queued[c] = 1 /\ c \in caught /\ c \notin exposing

LifecycleInv == LifecycleTypeOK /\ JoinsInv /\ SavedInv /\ LeavesOnlyInFlight

LEMMA LifecycleInvInit == LifecycleInit => LifecycleInv
<1> SUFFICES ASSUME LifecycleInit PROVE LifecycleInv
  OBVIOUS
<1>1. at \in Place /\ at[1] = "lock"
  BY DEF LifecycleInit, Place
<1>2. conn_err_count \in 0..MaxConnErr /\ alarm \in 0..AlarmTicks /\ ticks \in 0..MaxTicks
  BY LifecycleAssumption DEF LifecycleInit
<1>q. queued \in [Cameras -> 0..NBuf]
  BY LifecycleAssumption DEF LifecycleInit
<1>3. LifecycleTypeOK
  BY <1>1, <1>2, <1>q DEF LifecycleInit, LifecycleTypeOK
<1>4. JoinsInv /\ LeavesOnlyInFlight
  BY <1>1 DEF LifecycleInit, JoinsInv, JoinedUpTo, LeavesOnlyInFlight
<1>5. SavedInv
  BY DEF LifecycleInit, SavedInv, Threads
<1> QED
  BY <1>3, <1>4, <1>5 DEF LifecycleInv

LEMMA CameraNumbers == Cameras \subseteq Nat \ {0} /\ 1 \in Cameras /\ NCam \in Cameras
                       /\ \A c \in Cameras : c <= NCam /\ (c < NCam => c + 1 \in Cameras)
BY LifecycleAssumption DEF Cameras

(* A place names a camera, and from the launch on one of its threads.        *)
LEMMA Places ==
  ASSUME NEW p \in Place
  PROVE  /\ p[1] \in {"lock", "open", "launch", "join", "close", "http"}
         /\ p[1] = "lock" => p = <<"lock", 1>>
         /\ p[1] = "open" => p[2] \in Cameras
         /\ p[1] \in {"launch", "join", "close", "http"} =>
              p[2] \in Cameras /\ p[3] \in {1, 2, 3}
<1>1. CASE p = <<"lock", 1>>
  BY <1>1
<1>2. CASE \E c \in Cameras : p = <<"open", c>>
  BY <1>2
<1>3. CASE \E w \in {"launch", "join", "close", "http"}, c \in Cameras, k \in 1..3 : p = <<w, c, k>>
  BY <1>3
<1> QED
  BY <1>1, <1>2, <1>3 DEF Place

LEMMA MorePlaces ==
  /\ \A c \in Cameras : <<"open", c>> \in Place
  /\ \A w \in {"launch", "join", "close", "http"}, c \in Cameras, k \in {1, 2, 3} :
       <<w, c, k>> \in Place
BY DEF Place

LEMMA AfterJoinPlace ==
  ASSUME NEW p \in Place, p[1] = "join"
  PROVE  /\ AfterJoin(p) \in Place
         /\ \/ /\ AfterJoin(p)[1] = "join" /\ AfterJoin(p)[2] = p[2]
               /\ p[3] < 3 /\ AfterJoin(p)[3] = p[3] + 1
            \/ /\ AfterJoin(p)[1] = "join" /\ p[3] = 3 /\ AfterJoin(p)[2] = p[2] + 1
               /\ AfterJoin(p)[3] = 1
            \/ AfterJoin(p)[1] = "close" /\ p[3] = 3 /\ p[2] = NCam
<1>1. p[2] \in Cameras /\ p[3] \in {1, 2, 3}
  BY Places
<1>2. CASE p[3] < 3
  <2> DEFINE n == p[3] + 1
  <2>1. AfterJoin(p) = <<"join", p[2], n>> /\ n \in {1, 2, 3}
    BY <1>1, <1>2 DEF AfterJoin
  <2> HIDE DEF n
  <2>2. AfterJoin(p) \in Place
    BY <1>1, <2>1, MorePlaces, Zenon
  <2>3. AfterJoin(p)[1] = "join" /\ AfterJoin(p)[2] = p[2] /\ AfterJoin(p)[3] = n
    BY <2>1
  <2> QED
    BY <1>2, <2>2, <2>3 DEF n
<1>3. CASE ~(p[3] < 3) /\ p[2] < NCam
  <2> DEFINE n == p[2] + 1
  <2>1. AfterJoin(p) = <<"join", n, 1>> /\ n \in Cameras
    BY <1>1, <1>3, CameraNumbers DEF AfterJoin
  <2> HIDE DEF n
  <2>2. AfterJoin(p) \in Place
    BY <2>1, MorePlaces, Zenon
  <2>3. AfterJoin(p)[1] = "join" /\ AfterJoin(p)[2] = n /\ AfterJoin(p)[3] = 1
    BY <2>1
  <2>4. p[3] = 3
    BY <1>1, <1>3
  <2> QED
    BY <2>2, <2>3, <2>4 DEF n
<1>4. CASE ~(p[3] < 3) /\ ~(p[2] < NCam)
  <2>1. AfterJoin(p) = <<"close", 1, 1>>
    BY <1>4 DEF AfterJoin
  <2>2. AfterJoin(p) \in Place
    BY <2>1, MorePlaces, CameraNumbers, Zenon
  <2>3. AfterJoin(p)[1] = "close"
    BY <2>1
  <2>4. p[3] = 3
    BY <1>1, <1>4
  <2>5. p[2] \in Nat /\ NCam \in Nat /\ p[2] <= NCam
    BY <1>1, CameraNumbers
  <2>6. p[2] = NCam
    BY <1>4, <2>5
  <2> QED
    BY <2>2, <2>3, <2>4, <2>6
<1> QED
  BY <1>2, <1>3, <1>4

(* Raising the flag catches the exposures under way.                         *)
LEMMA RaiseStopKeeps ==
  ASSUME LifecycleTypeOK, SavedInv, NEW S \in SUBSET Cameras, RaiseStop(S),
         UNCHANGED <<thread, queued, exposing>>
  PROVE  stop' \subseteq Cameras /\ caught' \subseteq Cameras /\ SavedInv'
BY DEF LifecycleTypeOK, SavedInv, RaiseStop

(* The join of the thread at p brings the joiner to the next place.          *)
LEMMA JoinStep ==
  ASSUME LifecycleTypeOK, SavedInv, NEW p \in Place, JoinedUpTo(p), JoinThread(p),
         UNCHANGED <<thread, queued, exposing>>
  PROVE  /\ AfterJoin(p) \in Place /\ AfterJoin(p)[1] \in {"join", "close"}
         /\ JoinedUpTo(AfterJoin(p))' /\ handle' \subseteq handle
         /\ stop' \subseteq Cameras /\ caught' \subseteq Cameras /\ SavedInv'
<1>1. p[1] = "join" /\ p[2] \in Cameras /\ p[3] \in {1, 2, 3}
  BY Places DEF JoinThread
<1>2. /\ thread[<<p[2], p[3]>>] = "ended" /\ <<p[2], p[3]>> \notin handle'
      /\ handle' \subseteq handle
  BY DEF JoinThread, Joined
<1>s. stop' \subseteq Cameras /\ caught' \subseteq Cameras /\ SavedInv'
  <2>1. CASE p[3] = 1
    <3>1. {p[2]} \in SUBSET Cameras /\ RaiseStop({p[2]})
      BY <1>1, <2>1 DEF JoinThread, StopAfterExpo
    <3> QED
      BY <3>1, RaiseStopKeeps
  <2>2. CASE p[3] # 1
    <3>1. UNCHANGED stopVars
      BY <2>2 DEF JoinThread, StopAfterExpo
    <3> QED
      BY <3>1 DEF stopVars, LifecycleTypeOK, SavedInv
  <2> QED
    BY <2>1, <2>2
<1> DEFINE q == AfterJoin(p)
<1>3. /\ q \in Place
      /\ \/ q[1] = "join" /\ q[2] = p[2] /\ p[3] < 3 /\ q[3] = p[3] + 1
         \/ q[1] = "join" /\ p[3] = 3 /\ q[2] = p[2] + 1 /\ q[3] = 1
         \/ q[1] = "close" /\ p[3] = 3 /\ p[2] = NCam
  BY <1>1, AfterJoinPlace
<1>4. ASSUME NEW c \in Cameras, NEW k \in {1, 2, 3},
             c < q[2] \/ (c = q[2] /\ k < q[3]) \/ q[1] = "close"
      PROVE  thread[<<c, k>>] = "ended" /\ <<c, k>> \notin handle'
  <2> HIDE DEF q
  <2>1. p[2] \in Nat /\ NCam \in Nat /\ c \in Nat /\ c <= NCam
    BY <1>1, CameraNumbers
  <2>2. c < p[2] \/ (c = p[2] /\ k < p[3]) \/ (c = p[2] /\ k = p[3])
    <3>1. CASE q[1] = "join" /\ q[2] = p[2] /\ p[3] < 3 /\ q[3] = p[3] + 1
      BY <1>1, <1>4, <2>1, <3>1
    <3>2. CASE q[1] = "join" /\ p[3] = 3 /\ q[2] = p[2] + 1 /\ q[3] = 1
      BY <1>1, <1>4, <2>1, <3>2
    <3>3. CASE q[1] = "close" /\ p[3] = 3 /\ p[2] = NCam
      BY <1>1, <2>1, <3>3
    <3> QED
      BY <1>3, <3>1, <3>2, <3>3
  <2> QED
    BY <1>1, <1>2, <2>2 DEF JoinedUpTo
<1> HIDE DEF q
<1>5. q' = q /\ q[1] \in {"join", "close"}
  BY <1>3 DEF q, AfterJoin
<1>6. JoinedUpTo(q)'
  BY <1>4, <1>5 DEF JoinedUpTo
<1> QED
  BY <1>2, <1>3, <1>5, <1>6, <1>s DEF q

LEMMA LifecycleTypes == LifecycleInv /\ [LifecycleNext]_lifeVars => LifecycleTypeOK'
<1> SUFFICES ASSUME LifecycleInv, [LifecycleNext]_lifeVars PROVE LifecycleTypeOK'
  OBVIOUS
<1> USE DEF LifecycleInv, LifecycleTypeOK, mainVars, camVars, stopVars, watchVars, httpVars, Main,
      Runs, Die
<1>1. CASE TakeLock
  <2>1. <<"open", 1>> \in Place
    BY MorePlaces, CameraNumbers
  <2> QED
    BY <1>1, <2>1 DEF TakeLock
<1>2. CASE SetUpCamera
  <2>1. at[2] \in Cameras /\ at[2] <= NCam /\ (at[2] < NCam => at[2] + 1 \in Cameras)
    BY <1>2, Places, CameraNumbers DEF SetUpCamera
  <2>2. at' \in Place
    BY <1>2, <2>1, MorePlaces, CameraNumbers DEF SetUpCamera
  <2> QED
    BY <1>2, <2>1, <2>2 DEF SetUpCamera
<1>3. CASE LaunchThread
  <2>1. at[2] \in Cameras /\ at[3] \in {1, 2, 3} /\ (at[2] < NCam => at[2] + 1 \in Cameras)
    BY <1>3, Places, CameraNumbers DEF LaunchThread
  <2>2. 4 - at[3] \in {1, 2, 3} /\ (4 - at[3] > 1 => at[3] + 1 \in {1, 2, 3})
    BY <2>1
  <2>3. at' \in Place
    BY <1>3, <2>1, <2>2, MorePlaces, CameraNumbers DEF LaunchThread
  <2>4. <<at[2], 4 - at[3]>> \in Threads
    BY <2>1, <2>2 DEF Threads
  <2> QED
    BY <1>3, <2>3, <2>4 DEF LaunchThread
<1>4. CASE MainJoins
  <2>1. /\ at' \in Place /\ handle' \subseteq handle
        /\ stop' \subseteq Cameras /\ caught' \subseteq Cameras
    <3> PICK p \in Place : p = at
      OBVIOUS
    <3> QED
      BY <1>4, JoinStep DEF MainJoins, JoinsInv
  <2> QED
    BY <1>4, <2>1 DEF MainJoins
<1>5. CASE HandlerJoins
  <2>1. /\ sig' \in Place /\ handle' \subseteq handle
        /\ stop' \subseteq Cameras /\ caught' \subseteq Cameras
    <3> PICK p \in Place : p = sig
      BY <1>5 DEF HandlerJoins
    <3> QED
      BY <1>5, JoinStep DEF HandlerJoins, JoinsInv
  <2> QED
    BY <1>5, <2>1 DEF HandlerJoins
<1>6. CASE MainCloses \/ HandlerCloses \/ Sigint
  <2>1. <<"http", 1, 1>> \in Place /\ <<"join", 1, 1>> \in Place
    BY MorePlaces, CameraNumbers
  <2> QED
    BY <1>6, <2>1 DEF MainCloses, HandlerCloses, CloseCameras, CloseListener, Sigint, RaiseStop
<1>7. CASE MainReturns \/ HandlerNullHandle \/ HandlerJoinRefused \/ HandlerExits
           \/ StopTimeout \/ Sigalrm
  BY <1>7 DEF MainReturns, HandlerNullHandle, HandlerJoinRefused, HandlerExits, StopTimeout, Sigalrm
<1>8. CASE HttpThread
  BY <1>8 DEF HttpThread, HttpListens, ClientConnects, ClientGoes, HttpEnds
<1>9. ASSUME NEW c \in Cameras, ThreadsOf(c) PROVE LifecycleTypeOK'
  <2>1. <<c, 1>> \in Threads /\ <<c, 2>> \in Threads /\ <<c, 3>> \in Threads
    BY DEF Threads
  <2>2. CASE Expose(c) \/ Save(c)
    <3>1. queued[c] \in 0..NBuf /\ NBuf \in Nat
      BY LifecycleAssumption
    <3>2. (queued \in [Cameras -> 0..NBuf])'
      BY <2>2, <3>1 DEF Expose, FramePushed, FetchFailed, RingFull, Save
    <3> QED
      BY <2>2, <3>2 DEF Expose, FramePushed, FetchFailed, RingFull, Save
  <2>3. CASE ExpoBegins(c) \/ TooManyErrors(c)
    BY <2>3, LifecycleAssumption DEF ExpoBegins, TooManyErrors, RaiseStop
  <2>4. CASE CallHangs(c) \/ LoopEnds(c) \/ DataEnds(c) \/ MonitorEnds(c)
    BY <2>1, <2>4, SMTT(40) DEF CallHangs, LoopEnds, DataEnds, MonitorEnds, Ends
  <2> QED
    BY <1>9, <2>2, <2>3, <2>4 DEF ThreadsOf, TargetReached, ExpoEnds
<1>10. CASE HotplugCheck
  BY <1>10, LifecycleAssumption DEF HotplugCheck, RaiseStop
<1>11. CASE Plug
  BY <1>11, LifecycleAssumption DEF Plug
<1>12. CASE Restart
  <2>1. <<"lock", 1>> \in Place
    BY DEF Place
  <2>2. (conn_err_count \in 0..MaxConnErr /\ alarm \in 0..AlarmTicks)'
    BY <1>12, LifecycleAssumption DEF Restart
  <2>3. (thread \in [Threads -> {"none", "runs", "hangs", "ended"}])'
    BY <1>12 DEF Restart
  <2>4. (queued \in [Cameras -> 0..NBuf])'
    BY <1>12, LifecycleAssumption DEF Restart
  <2> QED
    BY <1>12, <2>1, <2>2, <2>3, <2>4 DEF Restart
<1>13. CASE UNCHANGED lifeVars
  BY <1>13 DEF lifeVars
<1> QED
  BY <1>1, <1>2, <1>3, <1>4, <1>5, <1>6, <1>7, <1>8, <1>9, <1>10, <1>11, <1>12, <1>13
  DEF LifecycleNext, MainThread, Handler

LEMMA LifecycleInvStep == LifecycleInv /\ [LifecycleNext]_lifeVars => LifecycleInv'
<1> SUFFICES ASSUME LifecycleInv, [LifecycleNext]_lifeVars
             PROVE  (JoinsInv /\ SavedInv /\ LeavesOnlyInFlight)'
  BY LifecycleTypes DEF LifecycleInv
<1>t. at' \in Place /\ sig' \in Place \cup {<<>>} /\ handle' \subseteq Threads /\ opened' \subseteq Cameras
  BY LifecycleTypes DEF LifecycleTypeOK
<1> USE DEF LifecycleInv, LifecycleTypeOK, JoinsInv, SavedInv, LeavesOnlyInFlight,
      mainVars, camVars, stopVars, watchVars, httpVars, Main, Runs, Die
<1>1. CASE TakeLock
  BY <1>1 DEF TakeLock, JoinedUpTo
<1>2. CASE SetUpCamera
  <2>1. at'[1] \in {"open", "launch"}
    BY <1>2 DEF SetUpCamera
  <2> QED
    BY <1>2, <2>1 DEF SetUpCamera, JoinedUpTo
<1>3. CASE LaunchThread
  <2>1. at[2] \in Cameras /\ at[3] \in {1, 2, 3}
    BY <1>3, Places DEF LaunchThread
  <2>2. at'[1] = "launch" \/ at' = <<"join", 1, 1>>
    BY <1>3 DEF LaunchThread
  <2>3. \A c \in Cameras : ~(c < 1)
    BY CameraNumbers
  <2>4. JoinedUpTo(at)' /\ sig' = <<>> /\ fate' = "runs"
    BY <1>3, <2>2, <2>3 DEF LaunchThread, JoinedUpTo
  <2>5. SavedInv'
    BY <1>3, <2>1 DEF LaunchThread, Threads
  <2> QED
    BY <2>4, <2>5
<1>4. CASE MainJoins
  <2> PICK p \in Place : p = at
    OBVIOUS
  <2>1. JoinedUpTo(AfterJoin(p))' /\ at' = AfterJoin(p) /\ SavedInv'
    BY <1>4, JoinStep DEF MainJoins
  <2> QED
    BY <1>4, <2>1 DEF MainJoins, JoinedUpTo
<1>5. CASE HandlerJoins
  <2> PICK p \in Place : p = sig
    BY <1>5 DEF HandlerJoins
  <2>1. /\ JoinedUpTo(AfterJoin(p))' /\ sig' = AfterJoin(p) /\ SavedInv'
        /\ AfterJoin(p)[1] \in {"join", "close"} /\ handle' \subseteq handle
    BY <1>5, JoinStep DEF HandlerJoins
  <2> QED
    BY <1>5, <2>1 DEF HandlerJoins, JoinedUpTo
<1>6. CASE MainCloses
  BY <1>6 DEF MainCloses, CloseCameras, JoinedUpTo
<1>7. CASE HandlerCloses
  BY <1>7 DEF HandlerCloses, CloseCameras, JoinedUpTo
<1>8. CASE Sigint
  <2>1. CASE at[1] = "lock"
    BY <1>8, <2>1 DEF Sigint, JoinedUpTo
  <2>2. CASE at[1] # "lock"
    <3>1. /\ sig' = <<"join", 1, 1>> /\ RaiseStop(Cameras)
          /\ UNCHANGED <<at, opened, handle, thread, queued, exposing, fate>>
      BY <1>8, <2>2 DEF Sigint
    <3>2. \A c \in Cameras : ~(c < 1)
      BY CameraNumbers
    <3>3. JoinedUpTo(sig)' /\ sig'[1] = "join"
      BY <3>1, <3>2 DEF JoinedUpTo
    <3>4. SavedInv'
      BY <3>1, RaiseStopKeeps
    <3> QED
      BY <1>8, <3>1, <3>3, <3>4 DEF Sigint, JoinedUpTo
  <2> QED
    BY <2>1, <2>2
<1>9. CASE MainReturns \/ HandlerExits
  <2>1. /\ \A c \in Cameras, k \in {1, 2, 3} : thread[<<c, k>>] = "ended" /\ <<c, k>> \notin handle
        /\ opened = {} /\ http = "ended"
    BY <1>9 DEF MainReturns, HandlerExits, JoinedUpTo
  <2>2. UNCHANGED <<at, sig, opened, handle, thread, queued, exposing, stop, caught, http>>
    BY <1>9 DEF MainReturns, HandlerExits
  <2>3. handle = {} /\ \A t \in Threads : thread[t] = "ended"
    <3>1. ASSUME NEW t \in Threads PROVE thread[t] = "ended" /\ t \notin handle
      <4> PICK c \in Cameras, k \in {1, 2, 3} : t = <<c, k>>
        BY DEF Threads
      <4> QED
        BY <2>1
    <3>2. handle \subseteq Threads
      OBVIOUS
    <3> HIDE DEF LifecycleInv
    <3> QED
      BY <3>1, <3>2
  <2>4. \A c \in Cameras : queued[c] > 0 => queued[c] = 1 /\ c \in caught
    BY <2>1
  <2>5. LeavesOnlyInFlight'
    BY <2>1, <2>2, <2>3, <2>4
  <2>6. JoinsInv' /\ SavedInv'
    BY <2>2 DEF JoinedUpTo
  <2> QED
    BY <2>5, <2>6
<1>10. CASE HandlerNullHandle \/ HandlerJoinRefused \/ StopTimeout \/ Sigalrm
  BY <1>10 DEF HandlerNullHandle, HandlerJoinRefused, StopTimeout, Sigalrm, JoinedUpTo
<1>11. CASE HttpThread
  BY <1>11 DEF HttpThread, HttpListens, ClientConnects, ClientGoes, HttpEnds, JoinedUpTo
<1>12. ASSUME NEW c \in Cameras, ThreadsOf(c)
       PROVE  (JoinsInv /\ SavedInv /\ LeavesOnlyInFlight)'
  <2>1. <<c, 1>> \in Threads /\ <<c, 2>> \in Threads /\ <<c, 3>> \in Threads
    BY DEF Threads
  <2>2. CASE ExpoBegins(c) \/ Expose(c) \/ Save(c) \/ TooManyErrors(c)
    <3>1. UNCHANGED <<at, sig, fate, opened, handle, thread>> /\ fate = "runs"
      BY <2>2 DEF ExpoBegins, Expose, Save, TooManyErrors, Alive
    <3>2. JoinsInv'
      BY <3>1 DEF JoinedUpTo
    <3>3. SavedInv'
      <4>n. \A d \in Cameras : queued[d] \in 0..NBuf
        OBVIOUS
      <4>1. CASE ExpoBegins(c)
        BY <3>1, <4>1 DEF ExpoBegins
      <4>2. CASE TooManyErrors(c)
        BY <3>1, <4>2, RaiseStopKeeps DEF TooManyErrors
      <4>3. CASE Save(c)
        <5>1. UNCHANGED <<thread, exposing, stop, caught>> /\ thread[<<c, 2>>] = "runs"
          BY <4>3 DEF Save, Alive
        <5>2. \A d \in Cameras : d # c => queued'[d] = queued[d]
          BY <4>3 DEF Save
        <5> QED
          BY <5>1, <5>2
      <4>4. CASE Expose(c)
        <5>1. /\ c \in exposing /\ exposing' = exposing \ {c} /\ thread' = thread
              /\ FramePushed(c) \/ FetchFailed \/ RingFull(c)
          BY <4>4 DEF Expose
        <5>2. /\ caught' = caught /\ stop \subseteq stop'
              /\ \A d \in Cameras : d # c => queued'[d] = queued[d] /\ (d \in stop' => d \in stop)
              /\ queued'[c] = queued[c] \/ queued'[c] = queued[c] + 1
          BY <5>1 DEF FramePushed, FetchFailed, RingFull
        <5>3. ASSUME NEW d \in Cameras, d # c
              PROVE  /\ d \in stop' /\ d \in exposing' => d \in caught'
                     /\ thread'[<<d, 2>>] = "ended" =>
                          /\ d \in stop'
                          /\ queued'[d] > 0 => queued'[d] = 1 /\ d \in caught' /\ d \notin exposing'
          BY <5>1, <5>2, <5>3
        <5>4. thread'[<<c, 2>>] = "ended" =>
                /\ c \in stop'
                /\ queued'[c] > 0 => queued'[c] = 1 /\ c \in caught' /\ c \notin exposing'
          <6> SUFFICES ASSUME thread[<<c, 2>>] = "ended"
                       PROVE  c \in stop' /\ queued'[c] \in {0, 1} /\ c \in caught' /\ c \notin exposing'
            BY <5>1
          <6>1. c \in stop /\ c \in caught /\ queued[c] = 0
            BY <4>n, <5>1
          <6> QED
            BY <5>1, <5>2, <6>1
        <5> QED
          BY <5>1, <5>3, <5>4
      <4> QED
        BY <2>2, <4>1, <4>2, <4>3, <4>4
    <3> QED
      BY <3>1, <3>2, <3>3
  <2>3. CASE CallHangs(c) \/ LoopEnds(c) \/ DataEnds(c) \/ MonitorEnds(c)
    <3>1. UNCHANGED <<at, sig, fate, opened, handle, queued, exposing, stop, caught, http>> /\ fate = "runs"
      BY <2>3 DEF CallHangs, LoopEnds, DataEnds, MonitorEnds, Alive
    <3>2. \A t \in Threads : thread[t] = "ended" => thread'[t] = "ended"
      BY <2>1, <2>3 DEF CallHangs, LoopEnds, DataEnds, MonitorEnds, Ends, Alive
    <3>3. \A d \in Cameras, k \in {1, 2, 3} : <<d, k>> \in Threads
      BY DEF Threads
    <3>4. JoinsInv'
      BY <3>1, <3>2, <3>3 DEF JoinedUpTo
    <3>5. SavedInv'
      <4>1. \A d \in Cameras : thread'[<<d, 2>>] = "ended" =>
              thread[<<d, 2>>] = "ended" \/ (d \in stop /\ queued[d] = 0)
        <5> TAKE d \in Cameras
        <5>1. CASE d = c /\ DataEnds(c)
          BY <5>1 DEF DataEnds
        <5>2. CASE d # c \/ ~DataEnds(c)
          <6>1. /\ <<d, 2>> # <<c, 1>> /\ <<d, 2>> # <<c, 3>>
                /\ d # c => <<d, 2>> # <<c, 2>>
            OBVIOUS
          <6>2. thread'[<<d, 2>>] = thread[<<d, 2>>]
            BY <2>1, <2>3, <3>3, <5>2, <6>1 DEF CallHangs, LoopEnds, DataEnds, MonitorEnds, Ends
          <6> QED
            BY <6>2
        <5> QED
          BY <5>1, <5>2
      <4>2. \A d \in Cameras : queued[d] = 0 => ~(queued[d] > 0)
        OBVIOUS
      <4>3. SavedInv
        OBVIOUS
      <4> HIDE DEF LifecycleInv, LifecycleTypeOK, JoinsInv, LeavesOnlyInFlight
      <4> QED
        BY <3>1, <4>1, <4>2, <4>3
    <3> QED
      BY <3>1, <3>4, <3>5
  <2> QED
    BY <1>12, <2>2, <2>3 DEF ThreadsOf, TargetReached, ExpoEnds
<1>13. CASE HotplugCheck \/ Plug
  <2>1. UNCHANGED <<at, sig, fate, opened, handle, thread, queued, exposing>> /\ fate = "runs"
    BY <1>13 DEF HotplugCheck, Plug
  <2>2. SavedInv'
    <3>1. CASE HotplugCheck
      <4>1. PICK S \in SUBSET Cameras : RaiseStop(S)
        <5>1. RaiseStop(Cameras) \/ RaiseStop({})
          BY <3>1 DEF HotplugCheck
        <5> QED
          BY <5>1
      <4> QED
        BY <2>1, <4>1, RaiseStopKeeps
    <3>2. CASE Plug
      BY <3>2 DEF Plug
    <3> QED
      BY <1>13, <3>1, <3>2
  <2> QED
    BY <2>1, <2>2 DEF JoinedUpTo
<1>14. CASE Restart
  BY <1>14 DEF Restart, JoinedUpTo, Threads
<1>15. CASE UNCHANGED lifeVars
  BY <1>15 DEF lifeVars, JoinedUpTo
<1> QED
  BY <1>1, <1>2, <1>3, <1>4, <1>5, <1>6, <1>7, <1>8, <1>9, <1>10, <1>11, <1>12, <1>13, <1>14, <1>15
  DEF LifecycleNext, MainThread, Handler

LEMMA LifecycleInvariant == LifecycleSpec => []LifecycleInv
BY LifecycleInvInit, LifecycleInvStep, PTL DEF LifecycleSpec

(* The places of main and of the handler, the queues within the ring, the    *)
(* alarm and the counters stay in range, for any number of cameras.          *)
THEOREM LifecycleTypesHold == LifecycleSpec => []LifecycleTypeOK
<1>1. LifecycleInv => LifecycleTypeOK
  BY DEF LifecycleInv
<1> QED
  BY <1>1, LifecycleInvariant, PTL

(* For any number of cameras and buffers: a process that comes to its end by *)
(* itself after the launch has joined every thread, closed every camera and  *)
(* ended the HTTP loop, whether main or the SIGINT handler did it, and has   *)
(* saved every frame except, of each camera, the one whose exposure was      *)
(* under way when the stop flag went up (wait_all_threads, 727-734).         *)
THEOREM CleanExit == LifecycleSpec => []LeavesOnlyInFlight
<1>1. LifecycleInv => LeavesOnlyInFlight
  BY DEF LifecycleInv
<1> QED
  BY <1>1, LifecycleInvariant, PTL

-----------------------------------------------------------------------------
(* Services *)

(* The process that drives the cameras, and no other, holds the lock, unless *)
(* it goes without after an error.                                           *)
LockInv ==
  /\ \A p \in Procs : lock = p <=> proc[p] = "runs" /\ p \notin unlocked
  /\ \A p \in unlocked : proc[p] = "runs"

(* From the moment no disk was found until mount_check looks again the flag  *)
(* is there, and the timer is off once it has been stopped; a stopped        *)
(* service is not waiting for its restart.  While the flag is not there and  *)
(* no disk was found, the timer is on, unless space came back on the disk    *)
(* linked before.                                                            *)
SpaceInv ==
  /\ check \in {"stop_timer", "stop_service", "long_sleep"} => flagged
  /\ check \in {"stop_service", "long_sleep"} => ~timer
  /\ check = "long_sleep" => (proc["service"] # "down" \/ restart => outside)
  /\ check = "select" /\ ~timer => flagged \/ sameDisk \/ fs = None
  /\ check = "sleep" /\ ~timer => sameDisk

ServicesInv == ServicesTypeOK /\ LockInv /\ SpaceInv

LEMMA ServicesInvInit == ServicesInit => ServicesInv
<1> SUFFICES ASSUME ServicesInit PROVE ServicesInv
  OBVIOUS
<1>1. ServicesTypeOK
  BY DEF ServicesInit, ServicesTypeOK
<1>2. LockInv /\ SpaceInv
  BY DEF ServicesInit, LockInv, SpaceInv, Procs, Nobody
<1> QED
  BY <1>1, <1>2 DEF ServicesInv

LEMMA ServicesTypes == ServicesInv /\ [ServicesNext]_servicesVars => ServicesTypeOK'
<1> SUFFICES ASSUME ServicesInv, [ServicesNext]_servicesVars PROVE ServicesTypeOK'
  OBVIOUS
<1> USE DEF ServicesInv, ServicesTypeOK, diskVars, procVars, ServicesNext, servicesVars,
      TimerFires, RestartAlways, TriggerFires, AutoExpoStop, ShouldIStart, TryLock, Exits,
      CheckStart, SelectNone, SelectDisk, SelectFails, Link, StopTimer, StopService, Wake,
      SpaceChanges, OpenLock, Locked, Held, FlockFailed, Drives
<1>1. (free \in [Disks -> {"ok", "full", "gone", "broken"}])'
  OBVIOUS
<1>2. (fs \in Disks \cup {None} /\ link \in Disks \cup {None})'
  BY DEF First
<1>3. (proc \in [Procs -> {"down", "begun", "opened", "runs"}])'
  <2>1. "service" \in Procs /\ "script" \in Procs
    BY DEF Procs
  <2> QED
    BY <2>1 DEF Begin, Down
<1>4. (lock \in Procs \cup {Nobody} /\ unlocked \subseteq Procs)'
  BY DEF Begin, Down
<1>5. (flagged \in BOOLEAN)' /\ (timer \in BOOLEAN)'
  BY DEF SpaceOK
<1>6. (restart \in BOOLEAN)' /\ (outside \in BOOLEAN)'
  BY DEF Ended, Begin
<1>7. (sameDisk \in BOOLEAN)'
  OBVIOUS
<1>8. (check \in {"start", "select", "link", "stop_timer", "stop_service", "sleep",
                  "long_sleep"})'
  OBVIOUS
<1> QED
  BY ONLY <1>1, <1>2, <1>3, <1>4, <1>5, <1>6, <1>7, <1>8 DEF ServicesTypeOK

LEMMA ServicesInvStep == ServicesInv /\ [ServicesNext]_servicesVars => ServicesInv'
<1> SUFFICES ASSUME ServicesInv, [ServicesNext]_servicesVars PROVE (LockInv /\ SpaceInv)'
  BY ServicesTypes DEF ServicesInv
<1> USE DEF ServicesInv, ServicesTypeOK, LockInv, SpaceInv, Procs, Nobody, diskVars, procVars
<1>1. CASE TimerFires \/ RestartAlways \/ TriggerFires \/ ShouldIStart
  <2>1. PICK p \in Procs :
          /\ proc[p] = "down" /\ Begin(p) /\ UNCHANGED <<diskVars, check, timer, lock, unlocked>>
          /\ outside => outside'
          /\ p = "service" => timer \/ restart \/ outside'
    BY <1>1 DEF TimerFires, RestartAlways, TriggerFires, ShouldIStart
  <2>2. proc' = [proc EXCEPT ![p] = "begun"] /\ restart' = IF p = "service" THEN FALSE ELSE restart
    BY <2>1 DEF Begin, Ended
  <2>3. LockInv'
    BY <2>1, <2>2
  <2>4. SpaceInv'
    <3>1. CASE p = "service"
      <4>1. check = "long_sleep" => outside'
        <5>1. check = "long_sleep" => ~timer /\ (restart => outside)
          OBVIOUS
        <5>2. timer \/ restart \/ outside'
          BY <2>1, <3>1
        <5>3. outside => outside'
          BY <2>1
        <5> QED
          BY ONLY <5>1, <5>2, <5>3
      <4> QED
        BY <2>1, <4>1
    <3>2. CASE p = "script"
      <4>1. proc'["service"] = proc["service"] /\ restart' = restart
        BY <2>2, <3>2
      <4> QED
        BY <2>1, <4>1
    <3> QED
      BY <3>1, <3>2
  <2> QED
    BY <2>3, <2>4
<1>2. ASSUME NEW p \in Procs, OpenLock(p) \/ TryLock(p) PROVE (LockInv /\ SpaceInv)'
  <2>1. CASE OpenLock(p)
    BY <2>1 DEF OpenLock
  <2>2. CASE TryLock(p) /\ Locked(p)
    <3>1. /\ proc[p] = "opened" /\ proc' = [proc EXCEPT ![p] = "runs"] /\ lock = Nobody /\ lock' = p
          /\ UNCHANGED <<diskVars, check, timer, restart, outside, unlocked>>
      BY <2>2 DEF TryLock, Locked, Drives
    <3>2. p \notin unlocked
      BY <3>1
    <3>3. LockInv'
      BY <3>1, <3>2
    <3>4. SpaceInv'
      BY <3>1
    <3> QED
      BY <3>3, <3>4
  <2>3. CASE TryLock(p) /\ Held(p)
    BY <2>3 DEF TryLock, Held, Ended
  <2>4. CASE TryLock(p) /\ FlockFailed(p)
    BY <2>4 DEF TryLock, FlockFailed, Drives
  <2> QED
    BY <1>2, <2>1, <2>2, <2>3, <2>4 DEF TryLock
<1>3. ASSUME NEW p \in Procs, Exits(p) PROVE (LockInv /\ SpaceInv)'
  BY <1>3 DEF Exits, Down, Ended
<1>4. CASE AutoExpoStop \/ StopService
  <2>1. LockInv'
    BY <1>4 DEF AutoExpoStop, StopService, Down
  <2>2. restart' = FALSE /\ proc'["service"] = "down"
    BY <1>4 DEF AutoExpoStop, StopService, Down, Ended
  <2>3. CASE AutoExpoStop
    BY <2>1, <2>2, <2>3 DEF AutoExpoStop
  <2>4. CASE StopService
    BY <2>1, <2>2, <2>4 DEF StopService
  <2> QED
    BY <1>4, <2>3, <2>4
<1>5. CASE CheckStart \/ SelectNone \/ SelectFails \/ Link \/ StopTimer \/ Wake
  BY <1>5 DEF CheckStart, SelectNone, SelectFails, Link, StopTimer, Wake, SpaceOK
<1>6. CASE SelectDisk
  BY <1>6, DisksAssumption DEF SelectDisk, First, None
<1>7. CASE SpaceChanges
  BY <1>7 DEF SpaceChanges
<1>8. CASE UNCHANGED servicesVars
  BY <1>8 DEF servicesVars
<1> QED
  BY <1>1, <1>2, <1>3, <1>4, <1>5, <1>6, <1>7, <1>8 DEF ServicesNext

LEMMA ServicesInvImplies == ServicesInv => OneInstance /\ ServiceFollowsSpace
BY DEF ServicesInv, LockInv, SpaceInv, OneInstance, ServiceFollowsSpace

(* Whoever starts it, service, timer, trigger or script, and however a       *)
(* process ends: of two processes that drive the cameras at once one goes    *)
(* without the lock, after an error of open or flock (main, 960-971).        *)
THEOREM OneInstanceHolds == ServicesSpec => []OneInstance
BY ServicesInvInit, ServicesInvStep, ServicesInvImplies, PTL DEF ServicesSpec

(* For any disks, failing and coming back in any order: while mount_check    *)
(* sleeps for want of space its timer is off and the service is up by a      *)
(* trigger only, and otherwise the timer is on, save after space came back   *)
(* on the disk linked before (mount_check.py).                               *)
THEOREM ServiceFollowsSpaceHolds == ServicesSpec => []ServiceFollowsSpace
BY ServicesInvInit, ServicesInvStep, ServicesInvImplies, PTL DEF ServicesSpec

-----------------------------------------------------------------------------
(* FileDispatch *)

(* A set of n numbers has an element of every index below n: the number of   *)
(* smaller elements is an injection of the set into 0..n-1.                  *)
LEMMA NthInSet ==
  ASSUME NEW S, IsFiniteSet(S), S \subseteq Nat, NEW n \in Nat, n < Cardinality(S)
  PROVE  Nth(S, n) \in S
<1> DEFINE Below(d) == {e \in S : e < d}
           rank == [d \in S |-> Cardinality(Below(d))]
           T == 0..(Cardinality(S) - 1)
<1>1. Cardinality(S) \in Nat /\ IsFiniteSet(T) /\ Cardinality(T) = Cardinality(S)
  <2>1. Cardinality(S) \in Nat
    BY FS_CardinalityType
  <2>2. 0 \in Int /\ Cardinality(S) - 1 \in Int /\ ~(0 > Cardinality(S) - 1)
    BY <2>1
  <2> HIDE DEF T
  <2>3. IsFiniteSet(T) /\ Cardinality(T) = (Cardinality(S) - 1) - 0 + 1
    BY <2>2, FS_Interval, Zenon DEF T
  <2> QED
    BY <2>1, <2>3
<1>2. ASSUME NEW d \in S
      PROVE  /\ IsFiniteSet(Below(d)) /\ Cardinality(Below(d)) \in T
             /\ Cardinality(Below(d)) \in Nat
             /\ Cardinality(Below(d) \cup {d}) = Cardinality(Below(d)) + 1
  <2>1. Below(d) \in SUBSET (S \ {d}) /\ d \notin Below(d)
    OBVIOUS
  <2>2. IsFiniteSet(S \ {d}) /\ Cardinality(S \ {d}) = Cardinality(S) - 1
    BY FS_RemoveElement
  <2>3. IsFiniteSet(Below(d)) /\ Cardinality(Below(d)) <= Cardinality(S) - 1
    BY <2>1, <2>2, FS_Subset
  <2>4. Cardinality(Below(d)) \in Nat
    BY <2>3, FS_CardinalityType
  <2>5. Cardinality(Below(d) \cup {d}) = Cardinality(Below(d)) + 1
    BY <2>1, <2>3, FS_AddElement
  <2> QED
    BY <1>1, <2>3, <2>4, <2>5
<1>3. ASSUME NEW d \in S, NEW e \in S, d < e PROVE rank[d] < rank[e]
  <2>1. \A x \in S : x < d \/ x = d => x < e
    BY <1>3
  <2>2. Below(d) \cup {d} \in SUBSET Below(e)
    BY <2>1
  <2>3. rank[d] = Cardinality(Below(d)) /\ rank[e] = Cardinality(Below(e))
    OBVIOUS
  <2> HIDE DEF Below, rank
  <2>4. Cardinality(Below(d) \cup {d}) <= Cardinality(Below(e))
    BY <1>2, <2>2, FS_Subset
  <2>5. /\ Cardinality(Below(d)) \in Nat /\ Cardinality(Below(e)) \in Nat
        /\ Cardinality(Below(d) \cup {d}) = Cardinality(Below(d)) + 1
    BY <1>2, Zenon
  <2> QED
    BY <2>3, <2>4, <2>5
<1>4. rank \in [S -> T]
  BY <1>2
<1>5. \A d, e \in S : rank[d] = rank[e] => d = e
  <2> SUFFICES ASSUME NEW d \in S, NEW e \in S, d # e PROVE rank[d] # rank[e]
    OBVIOUS
  <2>1. rank[d] \in Nat /\ rank[e] \in Nat
    BY <1>4
  <2>2. d < e \/ e < d
    OBVIOUS
  <2> QED
    BY <1>3, <2>1, <2>2
<1>6. rank \in Injection(S, T)
  BY <1>4, <1>5 DEF Injection, IsInjective
<1>7. rank \in Surjection(S, T)
  BY <1>1, <1>6, FS_Injection
<1>8. n \in T
  BY <1>1
<1>9. PICK d \in S : rank[d] = n
  BY <1>7, <1>8 DEF Surjection
<1> QED
  BY <1>9 DEF Nth

Queued(f) == \E i \in 1..Len(events) : events[i] = f
Moving(f) == mover.at # "idle" /\ mover.file = f

(* A file is announced once, after it was created, and moved once.           *)
MovesInv ==
  /\ \A i, j \in 1..Len(events) : events[i] = events[j] => i = j
  /\ mover.at = "idle" \/ (mover.file \in Files /\ mover.dest \in FS)
  /\ \A f \in Files :
       /\ writer[f] = "none" => source[f] = "none" /\ ~Queued(f) /\ ~Moving(f)
       /\ Queued(f) => ~Moving(f)

(* The original is there as long as its move is to come or not past its      *)
(* copying; from then on, and once it is gone, a copy of it is on a disk.    *)
KeptInv ==
  \A f \in Files :
    /\ Queued(f) \/ (Moving(f) /\ mover.at # "unlink") => source[f] # "none"
    /\ Moving(f) /\ mover.at = "unlink" => copy[f] \in {"whole", "early"}
    /\ source[f] = "none" /\ writer[f] # "none" => copy[f] \in {"whole", "early"}
    /\ writer[f] = "done" => source[f] # "part"

DispatchInv == DispatchTypeOK /\ MovesInv /\ KeptInv

LEMMA DispatchInvInit == DispatchInit => DispatchInv
<1> SUFFICES ASSUME DispatchInit PROVE DispatchInv
  OBVIOUS
<1>1. select \in FS
  <2>1. PICK day \in Days : select = Nth(FS, day % Cardinality(FS))
    BY DispatchAssumption DEF DispatchInit, Today
  <2>2. Cardinality(FS) \in Nat \ {0}
    BY DispatchAssumption, FS_CardinalityType, FS_EmptySet
  <2>3. day % Cardinality(FS) \in Nat /\ day % Cardinality(FS) < Cardinality(FS)
    BY <2>2, DispatchAssumption
  <2> QED
    BY <2>1, <2>3, NthInSet, DispatchAssumption
<1>2. mover.at = "idle" /\ events = <<>>
  BY DEF DispatchInit, Idle
<1>3. DispatchTypeOK
  BY <1>1 DEF DispatchInit, DispatchTypeOK, Idle
<1>4. MovesInv /\ KeptInv
  BY <1>2 DEF DispatchInit, MovesInv, KeptInv, Queued, Moving
<1> QED
  BY <1>3, <1>4 DEF DispatchInv

(* What happens to the queue and the disk selected: the index is below the   *)
(* number of candidates, so SelectTarget selects one of them.                *)
LEMMA SelectTypes == DispatchInv /\ SelectTarget => select' \in FS
<1> SUFFICES ASSUME DispatchInv, SelectTarget, Candidates # {} PROVE select' \in FS
  BY DEF DispatchInv, DispatchTypeOK, SelectTarget
<1>1. PICK day \in Days : select' = Nth(Candidates, day % Cardinality(Candidates))
  BY DEF SelectTarget
<1>2. Candidates \in SUBSET FS
  BY DEF Candidates
<1>3. IsFiniteSet(Candidates)
  BY <1>2, DispatchAssumption, FS_Subset
<1>4. Cardinality(Candidates) \in Nat \ {0}
  BY <1>3, FS_CardinalityType, FS_EmptySet
<1>5. day % Cardinality(Candidates) \in Nat /\ day % Cardinality(Candidates) < Cardinality(Candidates)
  BY <1>4, DispatchAssumption
<1>6. Candidates \subseteq Nat
  BY <1>2, DispatchAssumption
<1>7. Nth(Candidates, day % Cardinality(Candidates)) \in Candidates
  BY <1>3, <1>5, <1>6, NthInSet
<1> QED
  BY <1>1, <1>2, <1>7

LEMMA DispatchTypes == DispatchInv /\ [DispatchNext]_dispatchVars => DispatchTypeOK'
<1> SUFFICES ASSUME DispatchInv, [DispatchNext]_dispatchVars PROVE DispatchTypeOK'
  OBVIOUS
<1> USE DEF DispatchInv, DispatchTypeOK, checkVars, fileVars
<1>1. ASSUME NEW f \in Files, CreateFile(f) PROVE DispatchTypeOK'
  BY <1>1 DEF CreateFile
<1>2. ASSUME NEW f \in Files, FinishFile(f) PROVE DispatchTypeOK'
  BY <1>2 DEF FinishFile
<1>3. CASE DiskChanges \/ StartChecks
  BY <1>3 DEF DiskChanges, StartChecks
<1>4. ASSUME NEW d \in FS, DoCheck(d) PROVE DispatchTypeOK'
  BY <1>4 DEF DoCheck, Answer
<1>5. CASE SelectTarget
  BY <1>5, SelectTypes DEF SelectTarget
<1>6. CASE OnCreated
  BY <1>6 DEF OnCreated
<1>7. CASE Mkdir
  BY <1>7 DEF Mkdir
<1>8. CASE Copy
  BY <1>8 DEF Copy
<1>9. CASE MoveFails
  BY <1>9 DEF MoveFails, KeepSource, Idle
<1>10. CASE Unlink
  BY <1>10 DEF Unlink, Idle
<1>11. CASE UNCHANGED dispatchVars
  BY <1>11 DEF dispatchVars
<1> QED
  BY <1>1, <1>2, <1>3, <1>4, <1>5, <1>6, <1>7, <1>8, <1>9, <1>10, <1>11 DEF DispatchNext

LEMMA DispatchInvStep == DispatchInv /\ [DispatchNext]_dispatchVars => DispatchInv'
<1> SUFFICES ASSUME DispatchInv, [DispatchNext]_dispatchVars PROVE (MovesInv /\ KeptInv)'
  BY DispatchTypes DEF DispatchInv
<1> USE DEF DispatchInv, DispatchTypeOK, MovesInv, KeptInv, Queued, Moving
<1>1. ASSUME NEW f \in Files, CreateFile(f) PROVE (MovesInv /\ KeptInv)'
  BY <1>1 DEF CreateFile
<1>2. ASSUME NEW f \in Files, FinishFile(f) PROVE (MovesInv /\ KeptInv)'
  BY <1>2 DEF FinishFile
<1>3. CASE DiskChanges \/ StartChecks \/ SelectTarget
  BY <1>3 DEF DiskChanges, StartChecks, SelectTarget, fileVars
<1>4. ASSUME NEW d \in FS, DoCheck(d) PROVE (MovesInv /\ KeptInv)'
  BY <1>4 DEF DoCheck, fileVars
<1>5. CASE OnCreated
  BY <1>5 DEF OnCreated, Idle
<1>6. CASE Mkdir
  BY <1>6 DEF Mkdir
<1>7. CASE Copy
  BY <1>7 DEF Copy
<1>8. CASE MoveFails
  BY <1>8 DEF MoveFails, KeepSource, Idle
<1>9. CASE Unlink
  BY <1>9 DEF Unlink, Idle
<1>10. CASE UNCHANGED dispatchVars
  BY <1>10 DEF dispatchVars, fileVars
<1> QED
  BY <1>1, <1>2, <1>3, <1>4, <1>5, <1>6, <1>7, <1>8, <1>9, <1>10 DEF DispatchNext

LEMMA DispatchInvImplies == DispatchInv => FinishedFilesKept
BY DEF DispatchInv, DispatchTypeOK, KeptInv, FinishedFilesKept

(* A file that was finished is whole at its place or copied, for any files   *)
(* and disks, however the disks fail while files are moved (on_created).     *)
THEOREM FinishedFilesKeptHolds == DispatchSpec => []FinishedFilesKept
BY DispatchInvInit, DispatchInvStep, DispatchInvImplies, PTL DEF DispatchSpec

-----------------------------------------------------------------------------
(* Demos *)

(* The image is there except before the start, while main changes the        *)
(* format, and at the end; then no display thread is in the middle of        *)
(* showing.  Once bDisplay is cleared the thread shows nothing more: whoever *)
(* clears it is the thread itself, or main on its way to the join.           *)
ImageInv ==
  /\ image \/ main \in {"start", "format", "exit"}
  /\ main = "start" => show = "none"
  /\ main = "format" => show = "ended"
  /\ main \in {"start", "last", "close", "exit"} => ~bDisplay
  /\ bDisplay \/ main \in {"join", "last"} \/ show # "show"

KeyInv == show = "key" => key \in FormatKeys \cup {"quit"}

(* The part of the sensor that is used, which every change keeps, halves, or *)
(* doubles within the sensor.                                                *)
ExtentInv ==
  format.size * format.bin <= MaxSize + 12 /\ roi.size * roi.bin <= MaxSize

(* "snap" starts with a format the camera takes, and reads back what it kept *)
(* of a later one.                                                           *)
SnapInv ==
  program = "snap" /\ main \in {"loop", "frame", "status", "change"} => format = roi

DemosInv == DemosTypeOK /\ ImageInv /\ KeyInv /\ ExtentInv /\ SnapInv

LEMMA DemosInvInit == DemosInit => DemosInv
<1> SUFFICES ASSUME DemosInit PROVE DemosInv
  OBVIOUS
<1> USE DemosAssumption DEF DemosInit
<1>1. format = [size |-> MaxSize, bin |-> 1, type |-> 0] /\ roi = format
  BY DEF Full, RAW8
<1>2. roi \in Formats
  BY <1>1 DEF Formats, RAW8, Y8
<1>3. format \in [size : 0..MaxSize + 12, bin : 1..2, type : RAW8..Y8]
  BY <1>1 DEF RAW8, Y8
<1>4. keys \in 0..MaxKeys /\ change \in FormatKeys /\ key \in FormatKeys \cup {"none", "quit", "trigger"}
  BY DEF FormatKeys
<1>5. program \in {"snap", "video", "mac"} /\ color \in BOOLEAN /\ asi120 \in BOOLEAN
  OBVIOUS
<1>6. /\ image = FALSE /\ bDisplay = FALSE /\ bMain = TRUE /\ bChangeFormat = FALSE
      /\ bSendTiggerSignal = FALSE
  OBVIOUS
<1>7. main = "start" /\ show = "none" /\ camera = "closed" /\ status = "IDLE"
  OBVIOUS
<1>8. DemosTypeOK
  BY ONLY <1>2, <1>3, <1>4, <1>5, <1>6, <1>7 DEF DemosTypeOK
<1>9. ImageInv /\ KeyInv /\ SnapInv
  BY ONLY <1>6, <1>7 DEF ImageInv, KeyInv, SnapInv
<1>10. ExtentInv
  BY <1>1 DEF ExtentInv
<1> QED
  BY <1>8, <1>9, <1>10 DEF DemosInv

LEMMA NewBinAndSize ==
  ASSUME NEW f \in [size : Nat, bin : 1..2, type : RAW8..Y8], NEW b \in 1..2, NEW n \in Nat
  PROVE  /\ [f EXCEPT !.bin = b, !.size = n] \in [size : Nat, bin : 1..2, type : RAW8..Y8]
         /\ [f EXCEPT !.bin = b, !.size = n].bin = b
         /\ [f EXCEPT !.bin = b, !.size = n].size = n
OBVIOUS

(* What switch(change) makes of a format: it keeps the size, halves or       *)
(* doubles it with the bin, halves it, or doubles it within the sensor.      *)
LEMMA ChangedFields ==
  ASSUME NEW f \in [size : Nat, bin : 1..2, type : RAW8..Y8], change \in FormatKeys
  PROVE  /\ Changed(f) \in [size : Nat, bin : 1..2, type : RAW8..Y8]
         /\ \/ Changed(f).bin = f.bin /\ Changed(f).size = f.size
            \/ f.bin = 1 /\ Changed(f).bin = 2 /\ Changed(f).size = f.size \div 2
            \/ f.bin = 2 /\ Changed(f).bin = 1 /\ Changed(f).size = f.size * 2
            \/ Changed(f).bin = f.bin /\ f.size > 2 /\ Changed(f).size = f.size \div 2
            \/ /\ Changed(f).bin = f.bin /\ f.size * 2 * f.bin <= MaxSize
               /\ Changed(f).size = f.size * 2
<1>1. f.size \in Nat /\ f.bin \in 1..2 /\ f.type \in RAW8..Y8
      /\ f.size \div 2 \in Nat /\ f.size * 2 \in Nat /\ (f.type + 1) % 4 \in RAW8..Y8
  BY DEF RAW8, Y8
<1>2. CASE change = "imagetype"
  <2>1. Changed(f) = [f EXCEPT !.type = (f.type + 1) % 4]
    BY <1>2 DEF Changed, NextType
  <2> QED
    BY <1>1, <2>1
<1>3. CASE change = "bin"
  <2>1. Changed(f) = IF f.bin = 1 THEN [f EXCEPT !.bin = 2, !.size = f.size \div 2]
                     ELSE [f EXCEPT !.bin = 1, !.size = f.size * 2]
    BY <1>3 DEF Changed, NextBin
  <2>t. 1 \in 1..2 /\ 2 \in 1..2
    OBVIOUS
  <2>2. CASE f.bin = 1
    <3>1. Changed(f) = [f EXCEPT !.bin = 2, !.size = f.size \div 2]
      BY <2>1, <2>2
    <3> QED
      BY <1>1, <2>2, <2>t, <3>1, NewBinAndSize, Zenon
  <2>3. CASE f.bin = 2
    <3>1. Changed(f) = [f EXCEPT !.bin = 1, !.size = f.size * 2]
      BY <2>1, <2>3
    <3> QED
      BY <1>1, <2>3, <2>t, <3>1, NewBinAndSize, Zenon
  <2> QED
    BY <1>1, <2>2, <2>3
<1>4. CASE change = "smaller"
  <2>1. Changed(f) = IF f.size > 2 THEN [f EXCEPT !.size = f.size \div 2] ELSE f
    BY <1>4 DEF Changed, Smaller
  <2> QED
    BY <1>1, <2>1
<1>5. CASE change = "bigger"
  <2>1. Changed(f) = IF f.size * 2 * f.bin <= MaxSize THEN [f EXCEPT !.size = f.size * 2] ELSE f
    BY <1>5 DEF Changed, Bigger
  <2> QED
    BY <1>1, <2>1
<1> QED
  BY <1>2, <1>3, <1>4, <1>5 DEF FormatKeys

LEMMA ChangedExtent ==
  ASSUME DemosInv
  PROVE  /\ Changed(format) \in [size : 0..MaxSize + 12, bin : 1..2, type : RAW8..Y8]
         /\ Changed(format).size * Changed(format).bin <= MaxSize + 12
<1> DEFINE g == Changed(format)
<1>1. /\ format \in [size : Nat, bin : 1..2, type : RAW8..Y8]
      /\ format.size \in Nat /\ format.bin \in 1..2 /\ change \in FormatKeys
  BY DemosAssumption DEF DemosInv, DemosTypeOK
<1>2. /\ g \in [size : Nat, bin : 1..2, type : RAW8..Y8]
      /\ \/ g.bin = format.bin /\ g.size = format.size
         \/ format.bin = 1 /\ g.bin = 2 /\ g.size = format.size \div 2
         \/ format.bin = 2 /\ g.bin = 1 /\ g.size = format.size * 2
         \/ g.bin = format.bin /\ format.size > 2 /\ g.size = format.size \div 2
         \/ g.bin = format.bin /\ format.size * 2 * format.bin <= MaxSize /\ g.size = format.size * 2
  BY <1>1, ChangedFields
<1> HIDE DEF g
<1>3. g.size * g.bin <= MaxSize + 12 /\ g.size <= MaxSize + 12
  <2>1. format.size * format.bin <= MaxSize + 12 /\ MaxSize \in Nat
    BY DemosAssumption DEF DemosInv, ExtentInv
  <2>2. g.size \in Nat /\ g.bin \in 1..2
    BY <1>2
  <2>3. CASE format.bin = 1
    BY <1>1, <1>2, <2>1, <2>2, <2>3
  <2>4. CASE format.bin = 2
    BY <1>1, <1>2, <2>1, <2>2, <2>4
  <2> QED
    BY <1>1, <2>3, <2>4
<1>4. g \in [size : 0..MaxSize + 12, bin : 1..2, type : RAW8..Y8]
  BY <1>2, <1>3, DemosAssumption
<1> QED
  BY <1>3, <1>4 DEF g

(* What the camera has, and what it takes.                                   *)
LEMMA AskedFormats ==
  ASSUME NEW f \in [size : Nat, bin : 1..2, type : RAW8..Y8]
  PROVE  Takes(f) => f \in Formats /\ f.size * f.bin <= MaxSize
<1> SUFFICES ASSUME f.size \in 1..MaxSize \div f.bin
             PROVE  f \in Formats /\ f.size * f.bin <= MaxSize
  BY DEF Takes
<1>1. f.size \in Nat /\ f.bin \in 1..2 /\ MaxSize \in Nat
  BY DemosAssumption
<1>2. CASE f.bin = 1
  BY <1>1, <1>2 DEF Formats
<1>3. CASE f.bin = 2
  BY <1>1, <1>3 DEF Formats
<1> QED
  BY <1>1, <1>2, <1>3

(* The formats of the main thread: what a menu or the user asks for, then    *)
(* what a key makes of it, or what the camera kept instead.                  *)
LEMMA DemosFormats ==
  DemosInv /\ [DemosNext]_demoVars =>
    /\ (format \in [size : 0..MaxSize + 12, bin : 1..2, type : RAW8..Y8])'
    /\ (roi \in Formats)' /\ ExtentInv'
<1> DEFINE Asked == [size : 0..MaxSize + 12, bin : 1..2, type : RAW8..Y8]
<1> SUFFICES ASSUME DemosInv, [DemosNext]_demoVars PROVE (format \in Asked)' /\ (roi \in Formats)' /\ ExtentInv'
  OBVIOUS
<1>1. format \in Asked /\ roi \in Formats /\ color \in BOOLEAN /\ ExtentInv
  BY DEF DemosInv, DemosTypeOK
<1>2. MaxSize \in Nat \ {0} /\ Asked \subseteq [size : Nat, bin : 1..2, type : RAW8..Y8]
  BY DemosAssumption
<1>3. ASSUME NEW f \in Formats PROVE f \in Asked
  BY <1>2, <1>3 DEF Formats
<1>4. ASSUME NEW f \in Asked, f.size * f.bin <= MaxSize + 12, format' = f, ASISetROIFormat(f)
      PROVE  (format \in Asked)' /\ (roi \in Formats)' /\ ExtentInv'
  <2>1. (roi \in Formats /\ roi.size * roi.bin <= MaxSize)'
    BY <1>1, <1>2, <1>4, AskedFormats DEF ASISetROIFormat, ExtentInv
  <2> QED
    BY <1>4, <2>1 DEF ExtentInv
<1>5. ASSUME NEW f \in Formats \cup VideoMenu \cup MacMenu, f \in Typed \/ f \in VideoMenu \/ f \in MacMenu
      PROVE  f \in Asked /\ f.size * f.bin <= MaxSize + 12
  <2>1. CASE f \in Typed
    <3>1. f \in Formats /\ Takes(f)
      BY <2>1 DEF Typed
    <3>2. f \in Asked /\ f.size * f.bin <= MaxSize
      BY <1>1, <1>2, <1>3, <3>1, AskedFormats
    <3>3. f.size * f.bin \in Nat
      BY <3>2
    <3> QED
      BY <1>2, <3>2, <3>3
  <2>2. CASE f \in VideoMenu \/ f \in MacMenu
    BY <1>2, <2>2, <1>5 DEF VideoMenu, MacMenu, Full, RAW8, RAW16, Y8, Formats
  <2> QED
    BY <1>5, <2>1, <2>2
<1>6. ASSUME NEW f \in Formats \cup VideoMenu \cup MacMenu, f \in Typed \/ f \in VideoMenu \/ f \in MacMenu,
             Begins(f)
      PROVE  (format \in Asked)' /\ (roi \in Formats)' /\ ExtentInv'
  BY <1>4, <1>5, <1>6 DEF Begins
<1>7. CASE SnapBegins \/ VideoBegins \/ MacBegins
  BY <1>6, <1>7 DEF SnapBegins, VideoBegins, MacBegins, Typed
<1>8. CASE Releases
  BY <1>1, <1>8, ChangedExtent DEF Releases, ExtentInv
<1>9. CASE SnapShowsAgain \/ VideoShowsAgain \/ MacShowsAgain
  <2>1. (roi \in Formats /\ roi.size * roi.bin <= MaxSize)'
    BY <1>1, <1>2, <1>9, AskedFormats
    DEF SnapShowsAgain, VideoShowsAgain, MacShowsAgain, ShowsAgain, ASISetROIFormat, ExtentInv
  <2>2. CASE SnapShowsAgain
    <3>1. format' = roi' /\ roi'.size \in Nat /\ roi'.bin \in 1..2
      BY <2>1, <2>2 DEF SnapShowsAgain, Formats
    <3>2. format' \in Asked /\ roi'.size * roi'.bin <= MaxSize + 12
      BY <1>2, <1>3, <2>1, <3>1
    <3> QED
      BY <2>1, <3>1, <3>2 DEF ExtentInv
  <2>3. CASE VideoShowsAgain \/ MacShowsAgain
    BY <1>1, <2>1, <2>3 DEF VideoShowsAgain, MacShowsAgain, ExtentInv
  <2> QED
    BY <1>9, <2>2, <2>3
<1>10. CASE UNCHANGED <<format, roi>>
  BY <1>1, <1>10 DEF ExtentInv
<1>11. ASSUME ~(SnapBegins \/ VideoBegins \/ MacBegins \/ Releases \/ SnapShowsAgain
                \/ VideoShowsAgain \/ MacShowsAgain)
       PROVE  UNCHANGED <<format, roi>>
  BY <1>11 DEF DemosNext, Display, MainRuns, demoVars, shape, ShowUnchanged,
       ShowTests, SnapKey, VideoKey, MacKey, KeyPressed, NoKey, KeyDone, ShowEnds, NoCamera,
       MainTests, TakesVideo, StartsExposure, ExposureDone, ExposureEnds, ChangeTests, Leaves,
       LastJoin, MainExits, DemosEnd
<1> QED
  BY <1>7, <1>8, <1>9, <1>10, <1>11

LEMMA DemosInvStep == DemosInv /\ [DemosNext]_demoVars => DemosInv'
<1> SUFFICES ASSUME DemosInv, [DemosNext]_demoVars PROVE (DemosTypeOK /\ ImageInv /\ KeyInv /\ SnapInv)'
  BY DemosFormats DEF DemosInv
<1>f. /\ (format \in [size : 0..MaxSize + 12, bin : 1..2, type : RAW8..Y8])'
      /\ (roi \in Formats)'
  BY DemosFormats
<1> DEFINE Rest ==
      /\ program \in {"snap", "video", "mac"}
      /\ main \in {"start", "loop", "frame", "status", "change", "join", "format", "leave",
                   "last", "close", "exit"}
      /\ show \in {"none", "loop", "show", "key", "end", "ended"}
      /\ camera \in {"closed", "open", "capturing"} /\ keys \in 0..MaxKeys
      /\ change \in FormatKeys /\ key \in FormatKeys \cup {"none", "quit", "trigger"}
      /\ status \in {"IDLE", "WORKING", "SUCCESS", "FAILED"}
      /\ main \in {"leave", "last", "close"} => ~bMain
   Flags ==
      /\ bDisplay \in BOOLEAN /\ bMain \in BOOLEAN /\ bChangeFormat \in BOOLEAN
      /\ bSendTiggerSignal \in BOOLEAN /\ asi120 \in BOOLEAN /\ color \in BOOLEAN
      /\ image \in BOOLEAN
<1>r. Rest /\ Flags
  BY DEF DemosInv, DemosTypeOK
<1>b. Flags'
  <2> USE DEF DemosNext, Display, MainRuns, demoVars, demoFlags, shape, ShowUnchanged, MainUnchanged,
       ShowTests, SnapKey, VideoKey, MacKey, KeyPressed, NoKey, KeyDone, ShowEnds, NoCamera,
       SnapBegins, VideoBegins, MacBegins, Begins, MainTests, TakesVideo, StartsExposure,
       ExposureDone, ExposureEnds, ChangeTests, Leaves, Wanted, LastJoin, MainExits, DemosEnd,
       Releases, SnapShowsAgain, VideoShowsAgain, MacShowsAgain, ShowsAgain
  <2>1. (bDisplay \in BOOLEAN)'
    BY <1>r
  <2>2. (bMain \in BOOLEAN)'
    BY <1>r
  <2>3. (bChangeFormat \in BOOLEAN)'
    BY <1>r
  <2>4. (bSendTiggerSignal \in BOOLEAN)'
    BY <1>r
  <2>5. (asi120 \in BOOLEAN)'
    BY <1>r
  <2>6. (color \in BOOLEAN)'
    BY <1>r
  <2>7. (image \in BOOLEAN)'
    BY <1>r
  <2> QED
    BY ONLY <2>1, <2>2, <2>3, <2>4, <2>5, <2>6, <2>7
<1>i. ImageInv /\ KeyInv
  BY DEF DemosInv
<1>s. SnapInv'
  <2> USE DEF SnapInv, ShowUnchanged, MainUnchanged, demoFlags, shape
  <2>0. SnapInv
    BY DEF DemosInv
  <2>1. CASE SnapBegins \/ VideoBegins \/ MacBegins
    BY <2>1 DEF SnapBegins, VideoBegins, MacBegins, Begins, Typed, ASISetROIFormat
  <2>2. CASE SnapShowsAgain \/ VideoShowsAgain \/ MacShowsAgain
    BY <2>2 DEF SnapShowsAgain, VideoShowsAgain, MacShowsAgain, ShowsAgain
  <2>3. CASE NoCamera \/ Releases \/ Leaves \/ LastJoin \/ MainExits
    BY <2>3 DEF NoCamera, Releases, Leaves, LastJoin, MainExits
  <2>4. CASE MainTests \/ TakesVideo \/ StartsExposure \/ ExposureDone \/ ChangeTests
    BY <2>0, <2>4 DEF MainTests, TakesVideo, StartsExposure, ExposureDone, ChangeTests
  <2>5. CASE UNCHANGED <<program, main, format, roi>>
    BY <2>0, <2>5
  <2>6. ASSUME Display \/ ExposureEnds \/ DemosEnd \/ UNCHANGED demoVars
        PROVE  UNCHANGED <<program, main, format, roi>>
    BY <2>6 DEF Display, ExposureEnds, DemosEnd, demoVars, ShowTests, SnapKey, VideoKey, MacKey,
         KeyPressed, NoKey, KeyDone, ShowEnds
  <2> QED
    BY <2>1, <2>2, <2>3, <2>4, <2>5, <2>6 DEF DemosNext, MainRuns
<1> SUFFICES (Rest /\ ImageInv /\ KeyInv)'
  BY <1>f, <1>b, <1>s DEF DemosTypeOK
<1> USE <1>r, <1>i DEF ImageInv, KeyInv, demoFlags, shape, ShowUnchanged, MainUnchanged
<1>1. CASE NoCamera
  BY <1>1 DEF NoCamera
<1>2. ASSUME NEW f, Begins(f), camera' \in {"open", "capturing"} PROVE (Rest /\ ImageInv /\ KeyInv)'
  BY <1>2 DEF Begins
<1>3. CASE SnapBegins \/ VideoBegins \/ MacBegins
  BY <1>2, <1>3 DEF SnapBegins, VideoBegins, MacBegins
<1>4. CASE main # "exit" /\ (ShowTests \/ NoKey \/ ShowEnds)
  BY <1>4 DEF ShowTests, NoKey, ShowEnds
<1>5. ASSUME NEW k \in FormatKeys \cup {"quit", "trigger"}, KeyPressed(k)
      PROVE  (Rest /\ ImageInv /\ KeyInv)'
  <2>1. keys' \in 0..MaxKeys
    BY <1>5, DemosAssumption DEF KeyPressed
  <2>2. CASE k = "quit"
    BY <1>5, <2>1, <2>2 DEF KeyPressed
  <2>3. CASE k = "trigger"
    BY <1>5, <2>1, <2>3 DEF KeyPressed
  <2>4. CASE k \in FormatKeys
    <3>1. k # "quit" /\ k # "trigger"
      BY <2>4 DEF FormatKeys
    <3> QED
      BY <1>5, <2>1, <2>4, <3>1 DEF KeyPressed
  <2> QED
    BY <2>2, <2>3, <2>4
<1>6. CASE SnapKey \/ VideoKey \/ MacKey
  BY <1>5, <1>6 DEF SnapKey, VideoKey, MacKey
<1>7. CASE KeyDone
  BY <1>7 DEF KeyDone
<1>8. CASE MainTests \/ TakesVideo \/ StartsExposure \/ ExposureDone
  <2>1. CASE MainTests
    BY <2>1 DEF MainTests
  <2>2. CASE TakesVideo
    BY <2>2 DEF TakesVideo
  <2>3. CASE StartsExposure \/ ExposureDone
    BY <2>3 DEF StartsExposure, ExposureDone
  <2> QED
    BY <1>8, <2>1, <2>2, <2>3
<1>9. CASE ExposureEnds
  BY <1>9 DEF ExposureEnds
<1>10. CASE ChangeTests
  <2>1. CASE bChangeFormat
    BY <1>10, <2>1 DEF ChangeTests
  <2>2. CASE ~bChangeFormat
    BY <1>10, <2>2 DEF ChangeTests
  <2> QED
    BY <2>1, <2>2
<1>11. CASE Releases
  BY <1>11 DEF Releases, DisplayJoined
<1>12. CASE SnapShowsAgain \/ VideoShowsAgain \/ MacShowsAgain
  BY <1>12 DEF SnapShowsAgain, VideoShowsAgain, MacShowsAgain, ShowsAgain
<1>13. CASE Leaves \/ LastJoin \/ MainExits
  <2>1. CASE Leaves
    BY <2>1 DEF Leaves, Wanted
  <2>2. CASE LastJoin
    BY <2>2 DEF LastJoin
  <2>3. CASE MainExits
    BY <2>3 DEF MainExits
  <2> QED
    BY <1>13, <2>1, <2>2, <2>3
<1>14. CASE UNCHANGED demoVars
  BY <1>14 DEF demoVars
<1> QED
  BY <1>1, <1>3, <1>4, <1>6, <1>7, <1>8, <1>9, <1>10, <1>11, <1>12, <1>13, <1>14
  DEF DemosNext, Display, MainRuns, DemosEnd

LEMMA DemosInvImplies == DemosInv => DemoShowsRightly
BY DEF DemosInv, DemosTypeOK, ImageInv, SnapInv, DemoShowsRightly

(* However the keys and the changes of format fall together, on any sensor,  *)
(* and whatever formats the camera refuses: the display thread shows no      *)
(* image that main has released, for main joins it before and a thread that  *)
(* was told to end shows nothing more; and "snap" takes pictures of the      *)
(* format the camera has, which it reads back.                               *)
THEOREM DemoShows == DemosSpec => []DemoShowsRightly
BY DemosInvInit, DemosInvStep, DemosInvImplies, PTL DEF DemosSpec

-----------------------------------------------------------------------------
(* Process: its behaviours follow one part and leave the others in their     *)
(* initial states, so every part makes a step of its own or none.            *)

LEMMA PartsStep ==
  [Next]_vars =>
    /\ [SettingsNext]_settingsVars /\ [GPSNext]_gpsVars /\ [SaveNext]_saveVars
    /\ [ServicesNext]_servicesVars /\ [DispatchNext]_dispatchVars /\ [DemosNext]_demoVars
<1>1. CASE Next
  BY <1>1 DEF Next
<1>2. CASE UNCHANGED vars
  BY <1>2 DEF vars
<1> QED
  BY <1>1, <1>2

ProcessInv ==
  /\ SettingsInv /\ GpsInv /\ SaveInv /\ ServicesInv /\ DispatchInv /\ DemosInv

LEMMA ProcessInvariant == Spec => []ProcessInv
<1>1. Init => ProcessInv
  BY SettingsInvInit, GpsInvInit, SaveInvInit, ServicesInvInit,
     DispatchInvInit, DemosInvInit DEF Init, ProcessInv
<1>2. ProcessInv /\ [Next]_vars => ProcessInv'
  BY PartsStep, SettingsInvStep, GpsInvStep, SaveInvStep, ServicesInvStep,
     DispatchInvStep, DemosInvStep DEF ProcessInv
<1> QED
  BY <1>1, <1>2, PTL DEF Spec

(* Every part keeps its types, for every value of the constants.             *)
THEOREM ProcessTypes == Spec => []ProcessTypeOK
<1>1. ProcessInv => ProcessTypeOK
  BY DEF ProcessInv, SettingsInv, GpsInv, SaveInv, ServicesInv, DispatchInv, DemosInv,
     ProcessTypeOK
<1> QED
  BY <1>1, ProcessInvariant, PTL

(* The specification that TLC checks keeps what the parts keep.              *)
THEOREM ProcessSafety ==
  Spec => [](/\ HeaderSettingsTrue /\ GpsHandleValid /\ MisfiledOnlyByOverlap
             /\ OneInstance /\ ServiceFollowsSpace
             /\ FinishedFilesKept /\ DemoShowsRightly)
<1>1. ProcessInv => /\ HeaderSettingsTrue /\ GpsHandleValid /\ MisfiledOnlyByOverlap
                    /\ OneInstance /\ ServiceFollowsSpace
                    /\ FinishedFilesKept /\ DemoShowsRightly
  <2> SUFFICES ASSUME ProcessInv
               PROVE  /\ HeaderSettingsTrue /\ GpsHandleValid /\ MisfiledOnlyByOverlap
                      /\ OneInstance /\ ServiceFollowsSpace
                      /\ FinishedFilesKept /\ DemoShowsRightly
    OBVIOUS
  <2>1. HeaderSettingsTrue
    BY SettingsInvImplies DEF ProcessInv
  <2>2. GpsHandleValid /\ MisfiledOnlyByOverlap
    BY DEF ProcessInv, GpsInv, SaveInv
  <2>3. OneInstance /\ ServiceFollowsSpace
    BY ServicesInvImplies DEF ProcessInv
  <2>4. FinishedFilesKept
    BY DispatchInvImplies DEF ProcessInv
  <2>5. DemoShowsRightly
    BY DemosInvImplies DEF ProcessInv
  <2> QED
    BY <2>1, <2>2, <2>3, <2>4, <2>5
<1> QED
  BY <1>1, ProcessInvariant, PTL
=============================================================================

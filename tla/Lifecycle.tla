----------------------------- MODULE Lifecycle -----------------------------
(***************************************************************************)
(* The life of the process: main from its first line to its last, the      *)
(* handles of every camera's threads, the SIGINT handler that interrupts   *)
(* main, the hotplug thread and the alarm, the HTTP thread's end, and      *)
(* systemd, which stops the service and starts it again.                   *)
(*                                                                         *)
(* A tick is five seconds, the period of the hotplug thread.  What the     *)
(* threads of a camera do with frames is ASICamHandler; here frames are    *)
(* counted, and the exposure thread waits for the next one, is in the      *)
(* middle of one, is stuck there in a call of the camera's library, or has *)
(* ended.                                                                  *)
(***************************************************************************)
EXTENDS Naturals, FiniteSets

CONSTANTS
    NCam,          \* cameras, numbered as in the map camManager
    NBuf,          \* buffers of a camera's ring (20)
    AlarmTicks,    \* alarm(20)
    MaxConnErr,    \* mismatches tolerated (3)
    MayHang,       \* whether a library call may never return
    MaxTicks       \* ticks until cameras and clients have settled (bound)

ASSUME LifecycleAssumption ==
    NCam \in Nat \ {0} /\ NBuf \in Nat \ {0} /\ AlarmTicks \in Nat \ {0} /\ MaxConnErr \in Nat
    /\ MayHang \in BOOLEAN /\ MaxTicks \in Nat

Cameras == 1..NCam
Kinds == <<"expo", "data", "mon">>     \* the order of wait_all_threads
Threads == Cameras \X {1, 2, 3}

VARIABLES
    at,          \* main: <<what it does, with which camera, with which of its threads>>
    sig,         \* the same for the SIGINT handler, or <<>>
    fate,        \* how the process ended, or "runs"
    opened,      \* cameras opened and not closed
    handle,      \* thread objects that exist: th_expo, th_data, th_mon of a camera
    thread,      \* what has become of each thread
    queued,      \* frames in data_q of each camera
    exposing,    \* cameras whose exposure thread is in the body of its loop
    stop,        \* cameras whose th_expo_stop is set
    caught,      \* history: those that were in the body when the flag went up
    lost,        \* a camera is unplugged (or one too many is connected)
    conn_err_count,
    alarm,       \* ticks until SIGALRM, 0 for none
    http,        \* the HTTP thread and its loop
    client,      \* a client has a connection open
    ticks

mainVars == <<at, sig, fate>>
stopVars == <<stop, caught>>
camVars == <<opened, handle, thread, queued, exposing, stopVars>>
watchVars == <<lost, conn_err_count, alarm, ticks>>
httpVars == <<http, client>>
lifeVars == <<mainVars, camVars, watchVars, httpVars>>

Runs == fate = "runs"

LifecycleInit ==
    /\ at = <<"lock", 1>>
    /\ sig = <<>>
    /\ fate = "runs"
    /\ opened = {}
    /\ handle = {}
    /\ thread = [t \in Threads |-> "none"]
    /\ queued = [c \in Cameras |-> 0] /\ exposing = {} /\ stop = {} /\ caught = {}
    /\ lost = FALSE /\ conn_err_count = 0 /\ alarm = 0 /\ ticks = 0
    /\ http = "none" /\ client = FALSE

-----------------------------------------------------------------------------
(* main, up to the launch; it only moves while no handler runs on its stack *)

Main == Runs /\ sig = <<>>
Die(how) == fate' = how

\* th_expo_stop = 1 of the cameras S. The exposure loop tests it before the next frame.
RaiseStop(S) == stop' = stop \cup S /\ caught' = caught \cup ((S \ stop) \cap exposing)

\* The lock, the cameras found, the handler registered: an early end is a return.
TakeLock ==
    /\ Main /\ at = <<"lock", 1>>
    /\ \/ at' = <<"open", 1>> /\ UNCHANGED fate
       \/ Die("returned") /\ UNCHANGED at
    /\ UNCHANGED <<sig, camVars, watchVars, httpVars>>

\* Opening, initialising and setting up a camera; main returns when a call fails
\* and aborts when a setting is refused.  After the last one the hotplug thread
\* and the HTTP thread start.
SetUpCamera ==
    /\ Main /\ at[1] = "open"
    /\ \/ /\ opened' = opened \cup {at[2]}
          /\ at' = IF at[2] < NCam THEN <<"open", at[2] + 1>> ELSE <<"launch", 1, 1>>
          /\ http' = IF at[2] < NCam THEN http ELSE "starting"
          /\ UNCHANGED fate
       \/ /\ fate' \in {"returned", "aborted"}
          /\ UNCHANGED <<at, opened, http>>
    /\ UNCHANGED <<sig, handle, thread, queued, exposing, stopVars, watchVars, client>>

\* monitor_loop, data_saving_start, expo_loop_start: each makes its handle.
LaunchThread ==
    LET c == at[2]  k == 4 - at[3]
    IN /\ Main /\ at[1] = "launch"
       /\ handle' = handle \cup {<<c, k>>}
       /\ thread' = [thread EXCEPT ![<<c, k>>] = "runs"]
       /\ at' = IF k > 1 THEN <<"launch", c, at[3] + 1>>
                ELSE IF c < NCam THEN <<"launch", c + 1, 1>> ELSE <<"join", 1, 1>>
       /\ UNCHANGED <<sig, fate, opened, queued, exposing, stopVars, watchVars, httpVars>>

-----------------------------------------------------------------------------
(* wait_all_threads, closing, the end of the HTTP thread: by main or by the *)
(* handler. p is the place of the one, and Follow what it becomes.          *)

Joined(c, k) == thread[<<c, k>>] = "ended"

AfterJoin(p) ==
    IF p[3] < 3 THEN <<"join", p[2], p[3] + 1>>
    ELSE IF p[2] < NCam THEN <<"join", p[2] + 1, 1>> ELSE <<"close", 1, 1>>

\* expo_loop_wait raises the stop flag, after the join, when it was not raised.
StopAfterExpo(c, k) == IF k = 1 THEN RaiseStop({c}) ELSE UNCHANGED stopVars

JoinThread(p) ==
    /\ p[1] = "join"
    /\ <<p[2], p[3]>> \in handle
    /\ Joined(p[2], p[3])
    /\ handle' = handle \ {<<p[2], p[3]>>}
    /\ StopAfterExpo(p[2], p[3])

CloseCameras(p) ==
    /\ p[1] = "close"
    /\ opened' = {}
    /\ UNCHANGED <<handle, stopVars>>

MainJoins ==
    /\ Main /\ JoinThread(at)
    /\ at' = AfterJoin(at)
    /\ UNCHANGED <<sig, fate, opened, thread, queued, exposing, watchVars, httpVars>>

\* ... and us_listen_socket_close if httpstub has been set by the HTTP thread.
CloseListener == http' = IF http = "serving" THEN "closing" ELSE http

MainCloses ==
    /\ Main /\ CloseCameras(at)
    /\ CloseListener
    /\ at' = <<"http", 1, 1>>
    /\ UNCHANGED <<sig, fate, thread, queued, exposing, watchVars, client>>

MainReturns ==
    /\ Main /\ at[1] = "http" /\ http = "ended"
    /\ Die("returned")
    /\ UNCHANGED <<at, sig, camVars, watchVars, httpVars>>

-----------------------------------------------------------------------------
(* The SIGINT handler, on main's stack *)

\* systemctl stop. Before the handler is registered the signal kills.
Sigint ==
    /\ Main
    /\ IF at[1] = "lock"
       THEN Die("killed") /\ UNCHANGED <<sig, stopVars>>
       ELSE sig' = <<"join", 1, 1>> /\ RaiseStop(Cameras) /\ UNCHANGED fate
    /\ UNCHANGED <<at, opened, handle, thread, queued, exposing, watchVars, httpVars>>

\* th_expo->joinable() through a null pointer: not launched yet, or joined already.
HandlerNullHandle ==
    /\ Runs /\ sig # <<>> /\ sig[1] = "join"
    /\ <<sig[2], sig[3]>> \notin handle
    /\ Die("crashed")
    /\ UNCHANGED <<at, sig, camVars, watchVars, httpVars>>

\* The join of a thread that the interrupted main is joining is refused: an
\* exception nobody catches.
HandlerJoinRefused ==
    /\ Runs /\ sig # <<>> /\ sig = at
    /\ Die("aborted")
    /\ UNCHANGED <<at, sig, camVars, watchVars, httpVars>>

HandlerJoins ==
    /\ Runs /\ sig # <<>> /\ JoinThread(sig)
    /\ sig' = AfterJoin(sig)
    /\ UNCHANGED <<at, fate, opened, thread, queued, exposing, watchVars, httpVars>>

HandlerCloses ==
    /\ Runs /\ sig # <<>> /\ CloseCameras(sig)
    /\ CloseListener
    /\ sig' = <<"http", 1, 1>>
    /\ UNCHANGED <<at, fate, thread, queued, exposing, watchVars, client>>

HandlerExits ==
    /\ Runs /\ sig # <<>> /\ sig[1] = "http" /\ http = "ended"
    /\ Die("returned")
    /\ UNCHANGED <<at, sig, camVars, watchVars, httpVars>>

-----------------------------------------------------------------------------
(* The threads *)

Alive(c, k) == Runs /\ thread[<<c, k>>] = "runs"
Ends(c, k) == thread' = [thread EXCEPT ![<<c, k>>] = "ended"]

\* The exposure loop: the flag and the count are tested before an exposure.
ExpoBegins(c) ==
    /\ Alive(c, 1) /\ c \notin stop /\ c \notin exposing
    /\ exposing' = exposing \cup {c}
    /\ UNCHANGED <<mainVars, opened, handle, thread, queued, stopVars, watchVars, httpVars>>

\* The exposure ends whatever the flag has become meanwhile: the frame is queued, or its
\* acquisition fails, or the next buffer of the ring is of a frame that still waits.
FramePushed(c) == queued[c] < NBuf /\ queued' = [queued EXCEPT ![c] = @ + 1] /\ UNCHANGED stopVars
FetchFailed == UNCHANGED <<queued, stopVars>>
RingFull(c) == queued[c] > 0 /\ stop' = stop \cup {c} /\ UNCHANGED <<queued, caught>>

Expose(c) ==
    /\ Alive(c, 1) /\ c \in exposing
    /\ FramePushed(c) \/ FetchFailed \/ RingFull(c)
    /\ exposing' = exposing \ {c}
    /\ UNCHANGED <<mainVars, opened, handle, thread, watchVars, httpVars>>

Save(c) ==
    /\ Alive(c, 2) /\ queued[c] > 0
    /\ queued' = [queued EXCEPT ![c] = @ - 1]
    /\ UNCHANGED <<mainVars, opened, handle, thread, exposing, stopVars, watchVars, httpVars>>

\* traceError, on a status query or an acquisition, has counted too many errors, of this
\* or of other cameras.
TooManyErrors(c) ==
    /\ Alive(c, 1) /\ c \in exposing
    /\ RaiseStop({c})
    /\ alarm' = AlarmTicks
    /\ UNCHANGED <<mainVars, opened, handle, thread, queued, exposing, lost, conn_err_count,
                   ticks, httpVars>>

CallHangs(c) ==
    /\ MayHang /\ Alive(c, 1) /\ c \in exposing
    /\ thread' = [thread EXCEPT ![<<c, 1>>] = "hangs"]
    /\ UNCHANGED <<mainVars, opened, handle, queued, exposing, stopVars, watchVars, httpVars>>

\* The loop ends at the flag, or after the exposures that were asked for.
LoopEnds(c) ==
    /\ Alive(c, 1) /\ c \notin exposing /\ Ends(c, 1)
    /\ UNCHANGED <<mainVars, opened, handle, queued, exposing, stopVars, watchVars, httpVars>>
TargetReached(c) == c \notin stop /\ LoopEnds(c)
ExpoEnds(c) == c \in stop /\ LoopEnds(c)

\* The saving thread ends when it finds the queue empty after the stop.
DataEndsUndrained(c) ==
    /\ Alive(c, 2) /\ c \in stop /\ Ends(c, 2)
    /\ UNCHANGED <<mainVars, opened, handle, queued, exposing, stopVars, watchVars, httpVars>>
DataEnds(c) ==
    /\ Alive(c, 2) /\ c \in stop /\ queued[c] = 0 /\ Ends(c, 2)
    /\ UNCHANGED <<mainVars, opened, handle, queued, exposing, stopVars, watchVars, httpVars>>

MonitorEnds(c) ==
    /\ Alive(c, 3) /\ c \in stop /\ Ends(c, 3)
    /\ UNCHANGED <<mainVars, opened, handle, queued, exposing, stopVars, watchVars, httpVars>>

-----------------------------------------------------------------------------
(* HTTP: the loop ends when no listen socket and no connection is left *)

HttpListens ==
    /\ Runs /\ http = "starting"
    /\ http' \in {"serving", "ended"}     \* the port may be taken
    /\ UNCHANGED <<mainVars, camVars, watchVars, client>>

ClientConnects ==
    /\ Runs /\ http = "serving" /\ ~client
    /\ client' = TRUE
    /\ UNCHANGED <<mainVars, camVars, watchVars, http>>

\* By the client, or by the idle timeout.
ClientGoes ==
    /\ Runs /\ client
    /\ client' = FALSE
    /\ UNCHANGED <<mainVars, camVars, watchVars, http>>

HttpEnds ==
    /\ Runs /\ http = "closing" /\ ~client
    /\ http' = "ended"
    /\ UNCHANGED <<mainVars, camVars, watchVars, client>>

-----------------------------------------------------------------------------
(* Five seconds pass: SIGALRM if it is due, else the hotplug thread's check *)

Sigalrm ==
    /\ Runs /\ alarm = 1
    /\ Die("sigalrm")
    /\ UNCHANGED <<at, sig, camVars, watchVars, httpVars>>

\* From the fourth mismatch on every check stops all cameras and sets the alarm
\* anew. The count is never reset; it is kept at the limit here.
HotplugCheck ==
    LET bad == lost /\ at[1] \notin {"lock", "open"}
        many == bad /\ conn_err_count >= MaxConnErr
    IN /\ Runs /\ alarm # 1
       /\ conn_err_count' = IF bad /\ ~many THEN conn_err_count + 1 ELSE conn_err_count
       /\ RaiseStop(IF many THEN Cameras ELSE {})
       /\ alarm' = IF many THEN AlarmTicks ELSE IF alarm > 0 THEN alarm - 1 ELSE 0
       /\ UNCHANGED <<mainVars, opened, handle, thread, queued, exposing, lost, ticks, httpVars>>

Plug ==
    /\ Runs /\ ticks < MaxTicks
    /\ lost' = ~lost
    /\ ticks' = ticks + 1
    /\ UNCHANGED <<mainVars, camVars, conn_err_count, alarm, httpVars>>

\* systemd: Restart=always, whatever the end was.
Restart ==
    /\ ~Runs
    /\ at' = <<"lock", 1>> /\ sig' = <<>> /\ fate' = "runs"
    /\ opened' = {} /\ handle' = {} /\ thread' = [t \in Threads |-> "none"]
    /\ queued' = [c \in Cameras |-> 0] /\ exposing' = {} /\ stop' = {} /\ caught' = {}
    /\ conn_err_count' = 0 /\ alarm' = 0
    /\ http' = "none" /\ client' = FALSE
    /\ UNCHANGED <<lost, ticks>>

\* systemd gives up waiting for the handler.
StopTimeout ==
    /\ Runs /\ sig # <<>>
    /\ Die("killed")
    /\ UNCHANGED <<at, sig, camVars, watchVars, httpVars>>

MainThread ==
    \/ TakeLock \/ SetUpCamera \/ LaunchThread \/ MainJoins \/ MainCloses \/ MainReturns

Handler ==
    \/ HandlerNullHandle \/ HandlerJoinRefused \/ HandlerJoins
    \/ HandlerCloses \/ HandlerExits

ThreadsOf(c) ==
    \/ ExpoBegins(c) \/ Expose(c) \/ Save(c) \/ TooManyErrors(c) \/ CallHangs(c)
    \/ TargetReached(c) \/ ExpoEnds(c) \/ DataEnds(c) \/ MonitorEnds(c)

HttpThread == HttpListens \/ ClientConnects \/ ClientGoes \/ HttpEnds

LifecycleNext ==
    \/ MainThread \/ Handler \/ HttpThread
    \/ \E c \in Cameras : ThreadsOf(c)
    \/ Sigint \/ StopTimeout \/ Sigalrm \/ HotplugCheck \/ Plug \/ Restart

LifecycleFairness ==
    /\ WF_lifeVars(MainThread) /\ WF_lifeVars(Handler)
    /\ \A c \in Cameras : /\ WF_lifeVars(Expose(c)) /\ WF_lifeVars(Save(c))
                       /\ WF_lifeVars(ExpoEnds(c))
                       /\ WF_lifeVars(DataEnds(c)) /\ WF_lifeVars(MonitorEnds(c))
    /\ WF_lifeVars(HttpListens) /\ WF_lifeVars(ClientGoes) /\ WF_lifeVars(HttpEnds)
    /\ WF_lifeVars(Sigalrm) /\ WF_lifeVars(HotplugCheck)

LifecycleSpec == LifecycleInit /\ [][LifecycleNext]_lifeVars /\ LifecycleFairness

-----------------------------------------------------------------------------
Place == {<<"lock", 1>>} \cup {<<"open", c>> : c \in Cameras}
         \cup {<<w, c, k>> : w \in {"launch", "join", "close", "http"}, c \in Cameras, k \in 1..3}

LifecycleTypeOK ==
    /\ at \in Place /\ sig \in Place \cup {<<>>}
    /\ fate \in {"runs", "returned", "aborted", "crashed", "killed", "sigalrm"}
    /\ opened \subseteq Cameras /\ exposing \subseteq Cameras
    /\ stop \subseteq Cameras /\ caught \subseteq Cameras
    /\ queued \in [Cameras -> 0..NBuf]
    /\ handle \subseteq Threads
    /\ thread \in [Threads -> {"none", "runs", "hangs", "ended"}]
    /\ lost \in BOOLEAN /\ conn_err_count \in 0..MaxConnErr
    /\ alarm \in 0..AlarmTicks /\ ticks \in 0..MaxTicks
    /\ http \in {"none", "starting", "serving", "closing", "ended"}
    /\ client \in BOOLEAN

\* A process that comes to its end by itself, in main or in the handler, after the
\* launch, leaves no thread of a camera running, no camera open and no HTTP loop, and of
\* each camera at most one frame unsaved: that of the exposure that was under way when the
\* stop flag went up, which is queued when the saving thread may have ended (727-734,
\* 901-903). A camera whose flag was raised between two exposures loses none.
LeavesOnlyInFlight ==
    (fate = "returned" /\ at[1] # "lock" /\ at[1] # "open") =>
        /\ \A c \in Cameras : queued[c] > 0 => queued[c] = 1 /\ c \in caught
        /\ opened = {} /\ handle = {}
        /\ \A t \in Threads : thread[t] = "ended"
        /\ http = "ended"

\* Once every camera is told to stop the process ends, provided the HTTP thread had
\* come to listen by then and no call of the camera library hangs.
SomeCallHangs == \E t \in Threads : thread[t] = "hangs"
ListenerKnown == http = "serving" /\ at[1] # "http" /\ (sig = <<>> \/ sig[1] # "http")
StoppedProcessEnds == (stop = Cameras /\ ListenerKnown) ~> (~Runs \/ SomeCallHangs)

\* When too many mismatches were counted ("consider restart", 1123), or too many
\* errors, an alarm is set, so that the process ends and systemd starts it again even
\* if a call of the camera library hangs and main waits for its thread for ever.
AlarmEndsProcess == (alarm > 0 /\ ListenerKnown) ~> ~Runs
=============================================================================

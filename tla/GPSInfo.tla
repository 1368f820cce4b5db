------------------------------ MODULE GPSInfo ------------------------------
(***************************************************************************)
(* The GPS receiver: the thread of GPSInfo, and an exposure thread that    *)
(* copies its data into the metadata of a frame.  A fix is the number of   *)
(* the report it came with; 0 is memory that was never written.            *)
(***************************************************************************)
EXTENDS Naturals

CONSTANT MaxFix     \* reports of the receiver (bound)

ASSUME MaxFixAssumption == MaxFix \in Nat

Fix == 0..MaxFix

VARIABLES
    gps_pc,         \* where the GPS thread is
    isloop,         \* cleared by stop
    gps_connected,
    gps_handle,     \* what libgps holds: "closed", or "open"
    gps_data,       \* the data of a fix, written one field after the other
    reader,         \* where the exposure thread is in addGPSinfo
    meta            \* the frame's metadata

gpsThreadVars == <<gps_pc, gps_handle>>
readerVars == <<reader, meta>>
gpsVars == <<gpsThreadVars, isloop, gps_connected, gps_data, readerVars>>

GPSInit ==
    /\ gps_pc = "test"
    /\ isloop = TRUE
    /\ gps_connected = FALSE
    /\ gps_handle = "closed"
    /\ gps_data = [pos |-> 0, time |-> 0]
    /\ reader = "lat_lon_alt"
    /\ meta = [pos |-> 0, time |-> 0, connected |-> FALSE]

LoopTestForever ==
    /\ gps_pc = "test"
    /\ gps_pc' = IF gps_connected THEN "wait" ELSE "open"
    /\ UNCHANGED <<gps_handle, isloop, gps_connected, gps_data, readerVars>>

\* The test of the loop; isloop is cleared at any time.
LoopTest ==
    /\ gps_pc = "test"
    /\ gps_pc' = IF ~isloop THEN "ended" ELSE IF gps_connected THEN "wait" ELSE "open"
    /\ UNCHANGED <<gps_handle, isloop, gps_connected, gps_data, readerVars>>

\* gps_open; when it fails, again in five seconds.
GpsOpen ==
    /\ gps_pc = "open"
    /\ \/ gps_pc' = "test" /\ UNCHANGED <<gps_connected, gps_handle>>
       \/ gps_pc' = "wait" /\ gps_connected' = TRUE /\ gps_handle' = "open"
    /\ UNCHANGED <<isloop, gps_data, readerVars>>

\* gps_waiting gives up after a while when nothing came.
GpsWaiting ==
    /\ gps_pc = "wait"
    /\ \/ gps_pc' = "test"
       \/ gps_pc' = "read" /\ gps_data.pos < MaxFix
    /\ UNCHANGED <<gps_handle, isloop, gps_connected, gps_data, readerVars>>

GpsRead ==
    /\ gps_pc = "read"
    /\ gps_pc' = "half"
    /\ gps_data' = [gps_data EXCEPT !.pos = @ + 1]
    /\ UNCHANGED <<gps_handle, isloop, gps_connected, readerVars>>

GpsReadDone ==
    /\ gps_pc = "half"
    /\ gps_pc' = "test"
    /\ gps_data' = [gps_data EXCEPT !.time = gps_data.pos]
    /\ UNCHANGED <<gps_handle, isloop, gps_connected, readerVars>>

GpsLostStaysConnected ==
    /\ gps_pc = "read"
    /\ gps_pc' = "test"
    /\ gps_handle' = "closed"
    /\ UNCHANGED <<isloop, gps_connected, gps_data, readerVars>>

\* gps_read failed: stream and handle are closed.
GpsLost ==
    /\ gps_pc = "read"
    /\ gps_pc' = "test"
    /\ gps_handle' = "closed"
    /\ gps_connected' = FALSE
    /\ UNCHANGED <<isloop, gps_data, readerVars>>

GpsThread == LoopTest \/ GpsOpen \/ GpsWaiting \/ GpsRead \/ GpsReadDone \/ GpsLost

\* GPSInfo::stop, from the signal handler or the destructor.
GpsStop ==
    /\ isloop
    /\ isloop' = FALSE
    /\ UNCHANGED <<gpsThreadVars, gps_connected, gps_data, readerVars>>

\* ... and its last line, after the join.
GpsStopped ==
    /\ ~isloop /\ gps_pc = "ended" /\ gps_connected
    /\ gps_connected' = FALSE
    /\ UNCHANGED <<gpsThreadVars, isloop, gps_data, readerVars>>

\* addGPSinfo: one getter after the other, without lock.
GetLatLonAlt ==
    /\ reader = "lat_lon_alt"
    /\ reader' = "time"
    /\ meta' = [meta EXCEPT !.pos = gps_data.pos]
    /\ UNCHANGED <<gpsThreadVars, isloop, gps_connected, gps_data>>

GetTime ==
    /\ reader = "time"
    /\ reader' = "connected"
    /\ meta' = [meta EXCEPT !.time = gps_data.time]
    /\ UNCHANGED <<gpsThreadVars, isloop, gps_connected, gps_data>>

GetConnected ==
    /\ reader = "connected"
    /\ reader' = "done"
    /\ meta' = [meta EXCEPT !.connected = gps_connected]
    /\ UNCHANGED <<gpsThreadVars, isloop, gps_connected, gps_data>>

NextFrame ==
    /\ reader = "done"
    /\ reader' = "lat_lon_alt"
    /\ meta' = [pos |-> 0, time |-> 0, connected |-> FALSE]
    /\ UNCHANGED <<gpsThreadVars, isloop, gps_connected, gps_data>>

GPSNext ==
    \/ GpsThread \/ GpsStop \/ GpsStopped
    \/ GetLatLonAlt \/ GetTime \/ GetConnected \/ NextFrame

GPSFairness == WF_gpsVars(GpsThread)

GPSSpec == GPSInit /\ [][GPSNext]_gpsVars /\ GPSFairness

-----------------------------------------------------------------------------
GPSTypeOK ==
    /\ gps_pc \in {"test", "open", "wait", "read", "half", "ended"}
    /\ isloop \in BOOLEAN /\ gps_connected \in BOOLEAN
    /\ gps_handle \in {"closed", "open"}
    /\ gps_data \in [pos : Fix, time : Fix]
    /\ reader \in {"lat_lon_alt", "time", "connected", "done"}
    /\ meta \in [pos : Fix, time : Fix, connected : BOOLEAN]

\* libgps is asked for data on an open handle only, and never opened while one is
\* open, however often the connection is lost (GPSInfo::loop).
GpsHandleValid ==
    /\ gps_pc \in {"wait", "read", "half"} => gps_handle = "open"
    /\ gps_pc = "open" => gps_handle = "closed"

\* The receiver is told to stop; the signal handler and the destructor join its thread.
GpsStopping == ~isloop /\ gps_pc # "ended"
=============================================================================

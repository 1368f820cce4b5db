------------------------------ MODULE SaveData ------------------------------
(***************************************************************************)
(* The saving threads of several cameras in save_data: how a frame's       *)
(* DATE-OBS, directory and file name come out of std::gmtime's one static  *)
(* buffer, and the race to create a directory.  Time is the hour, which    *)
(* names the directory.                                                    *)
(***************************************************************************)
EXTENDS Naturals

CONSTANTS
    Cams,       \* cameras
    MaxHour     \* hours that pass (bound)

ASSUME SaveAssumption == Cams # {} /\ MaxHour \in Nat

Hour == 0..MaxHour

VARIABLES
    hour,        \* the time
    place,       \* where camera c's saving thread is
    tim_expo_start, \* when the exposure of the frame it holds began
    utctm,       \* std::gmtime's buffer
    dirs,        \* directories that exist
    named,       \* what save_data has put together for camera c
    alone,       \* no other save_data has run since camera c's began
    filed,       \* the file written last
    up           \* the process runs

saveVars == <<hour, place, tim_expo_start, utctm, dirs, named, alone, filed, up>>

Saving == {"date", "dir", "mkdir", "name", "error"}
File == [of : Hour, date : Hour, dir : Hour, name : Hour, alone : BOOLEAN]

SaveInit ==
    /\ hour = 0
    /\ place = [c \in Cams |-> "idle"]
    /\ tim_expo_start = [c \in Cams |-> 0]
    /\ utctm = 0
    /\ dirs = {}
    /\ named = [c \in Cams |-> [date |-> 0, dir |-> 0]]
    /\ alone = [c \in Cams |-> TRUE]
    /\ filed = [of |-> 0, date |-> 0, dir |-> 0, name |-> 0, alone |-> TRUE]
    /\ up = TRUE

Goto(c, p) == place' = [place EXCEPT ![c] = p]

\* A frame whose exposure began in this hour is taken from the queue, now or later.
PickFrame(c) ==
    /\ place[c] = "idle"
    /\ tim_expo_start' = [tim_expo_start EXCEPT ![c] = hour]
    /\ Goto(c, "queued")
    /\ UNCHANGED <<hour, utctm, dirs, named, alone, filed, up>>

CachedTime(c) == utctm' = hour
Gmtime(c) == utctm' = tim_expo_start[c]

SaveBegin(c) ==
    LET others == {d \in Cams \ {c} : place[d] \in Saving}
    IN /\ place[c] = "queued"
       /\ Gmtime(c)
       /\ Goto(c, "date")
       /\ alone' = [d \in Cams |-> IF d = c THEN others = {} ELSE alone[d] /\ d \notin others]
       /\ UNCHANGED <<hour, tim_expo_start, dirs, named, filed, up>>

\* DATE-OBS, the directory and the name are formatted from the buffer in turn.
PutDate(c) ==
    /\ place[c] = "date"
    /\ named' = [named EXCEPT ![c].date = utctm]
    /\ Goto(c, "dir")
    /\ UNCHANGED <<hour, tim_expo_start, utctm, dirs, alone, filed, up>>

PutDir(c) ==
    /\ place[c] = "dir"
    /\ named' = [named EXCEPT ![c].dir = utctm]
    /\ Goto(c, IF utctm \in dirs THEN "name" ELSE "mkdir")
    /\ UNCHANGED <<hour, tim_expo_start, utctm, dirs, alone, filed, up>>

\* create_directories returns false when the directory has come into being since
\* the test, and then the process aborts.  (Write errors are in ASICamHandler.)
CreateDirectories(c) ==
    /\ place[c] = "mkdir"
    /\ dirs' = dirs \cup {named[c].dir}
    /\ up' = (named[c].dir \notin dirs)
    /\ Goto(c, IF up' THEN "name" ELSE "error")
    /\ UNCHANGED <<hour, tim_expo_start, utctm, named, alone, filed>>

WriteFile(c) ==
    /\ place[c] = "name"
    /\ filed' = [of |-> tim_expo_start[c], date |-> named[c].date, dir |-> named[c].dir,
                 name |-> utctm, alone |-> alone[c]]
    /\ Goto(c, "idle")
    /\ UNCHANGED <<hour, tim_expo_start, utctm, dirs, named, alone, up>>

HourPasses ==
    /\ hour < MaxHour
    /\ hour' = hour + 1
    /\ UNCHANGED <<place, tim_expo_start, utctm, dirs, named, alone, filed, up>>

SaveNext ==
    /\ up
    /\ \/ HourPasses
       \/ \E c \in Cams :
            \/ PickFrame(c) \/ SaveBegin(c) \/ PutDate(c) \/ PutDir(c)
            \/ CreateDirectories(c) \/ WriteFile(c)

SaveSpec == SaveInit /\ [][SaveNext]_saveVars

-----------------------------------------------------------------------------
SaveTypeOK ==
    /\ hour \in Hour
    /\ place \in [Cams -> {"idle", "queued"} \cup Saving]
    /\ tim_expo_start \in [Cams -> Hour]
    /\ utctm \in Hour /\ dirs \subseteq Hour
    /\ named \in [Cams -> [date : Hour, dir : Hour]]
    /\ alone \in [Cams -> BOOLEAN]
    /\ filed \in File
    /\ up \in BOOLEAN

\* A save that no other camera's save overlaps files the frame under the hour its
\* exposure began, in date, directory and name, and finds or makes its directory:
\* wrong files and the abort need two saving threads at once (save_data).
MisfiledOnlyByOverlap ==
    /\ filed.alone => filed.date = filed.of /\ filed.dir = filed.of /\ filed.name = filed.of
    /\ \A c \in Cams : place[c] = "error" => ~alone[c]
=============================================================================

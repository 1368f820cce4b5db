------------------------------ MODULE Services ------------------------------
(***************************************************************************)
(* Who starts and stops auto_expo: systemd with the service and its        *)
(* timers, mount_check.py which turns them off when every disk is full,    *)
(* should_i_start.py which starts a process of its own, and the lock file  *)
(* that lets one process through.                                          *)
(***************************************************************************)
EXTENDS Naturals

CONSTANT Disks     \* the disks of FS_CANDIDATE in mount_check.py, numbered in order

ASSUME DisksAssumption == Disks \subseteq Nat /\ 0 \notin Disks /\ Disks # {}

Procs == {"service", "script"}      \* the two ways to run auto_expo
None == 0
Nobody == "nobody"

VARIABLES
    free,       \* each disk: "ok", "full", "gone" (no such directory), "broken"
    check,      \* where mount_check.py is
    fs,         \* its fs: the disk it linked last, or None
    link,       \* what /data points to
    flagged,    \* no_more_space.flag exists in /root, the checker's directory
    timer,      \* auto_expo_start.timer is active
    proc,       \* each process: "down", "begun", "opened" its lock file, "runs"
    lock,       \* who holds the lock on auto_expo.pid
    unlocked,   \* processes that run without the lock, after an error of open or flock
    restart,    \* the service ended without systemctl stop
    outside,    \* the service was started by a trigger since it was stopped for space
    sameDisk    \* the last time space came back it was on the disk linked before

diskVars == <<free, fs, link, flagged, sameDisk>>
procVars == <<proc, lock, unlocked, restart>>
servicesVars == <<diskVars, check, timer, procVars, outside>>

ServicesInit ==
    /\ free = [d \in Disks |-> "ok"]
    /\ check = "start" /\ fs = None /\ link = None
    /\ flagged = FALSE /\ timer = FALSE
    /\ proc = [p \in Procs |-> "down"] /\ lock = Nobody /\ unlocked = {}
    /\ restart = FALSE /\ outside = FALSE /\ sameDisk = FALSE

-----------------------------------------------------------------------------
(* auto_expo up to its lock, where only EWOULDBLOCK keeps it from running; *)
(* the end of a process                                                    *)

Ended(p, itself) == restart' = (IF p = "service" THEN itself ELSE restart)

Begin(p) == proc' = [proc EXCEPT ![p] = "begun"] /\ Ended(p, FALSE)

\* If open fails flock gets -1, and fails too.
OpenLock(p) ==
    /\ proc[p] = "begun"
    /\ \/ proc' = [proc EXCEPT ![p] = "opened"] /\ UNCHANGED unlocked
       \/ proc' = [proc EXCEPT ![p] = "runs"] /\ unlocked' = unlocked \cup {p}
    /\ UNCHANGED <<diskVars, check, timer, lock, restart, outside>>

Drives(p) == proc' = [proc EXCEPT ![p] = "runs"] /\ UNCHANGED restart
Locked(p) == lock = Nobody /\ Drives(p) /\ lock' = p /\ UNCHANGED unlocked
FlockFailed(p) == Drives(p) /\ unlocked' = unlocked \cup {p} /\ UNCHANGED lock
HeldIgnored(p) == lock # Nobody /\ Drives(p) /\ UNCHANGED <<lock, unlocked>>
Held(p) ==
    /\ lock # Nobody /\ proc' = [proc EXCEPT ![p] = "down"] /\ Ended(p, TRUE)
    /\ UNCHANGED <<lock, unlocked>>

TryLock(p) ==
    /\ proc[p] = "opened"
    /\ Locked(p) \/ Held(p) \/ FlockFailed(p)
    /\ UNCHANGED <<diskVars, check, timer, outside>>

Down(p) ==
    /\ proc' = [proc EXCEPT ![p] = "down"]
    /\ lock' = IF lock = p THEN Nobody ELSE lock
    /\ unlocked' = unlocked \ {p}

\* The process ends, by itself, by an error or by the alarm.
Exits(p) ==
    /\ proc[p] = "runs"
    /\ Down(p)
    /\ Ended(p, TRUE)
    /\ UNCHANGED <<diskVars, check, timer, outside>>

-----------------------------------------------------------------------------
(* systemd *)

\* The timer starts the service, and so does Restart=always.
TimerFires ==
    /\ timer /\ proc["service"] = "down"
    /\ Begin("service")
    /\ UNCHANGED <<diskVars, check, timer, lock, unlocked, outside>>

RestartAlways ==
    /\ restart /\ proc["service"] = "down"
    /\ Begin("service")
    /\ UNCHANGED <<diskVars, check, timer, lock, unlocked, outside>>

\* expo_trigger@ and cleantmpdata want auto_expo.service, and a user may start it.
TriggerFires ==
    /\ proc["service"] = "down"
    /\ Begin("service")
    /\ outside' = TRUE
    /\ UNCHANGED <<diskVars, check, timer, lock, unlocked>>

\* auto_expo_stop.timer.
AutoExpoStop ==
    /\ proc["service"] # "down"
    /\ Down("service")
    /\ Ended("service", FALSE)
    /\ UNCHANGED <<diskVars, check, timer, outside>>

\* should_i_start.py: pidof, then the flag, looked for in systemd's directory, where
\* no checker writes it; then a process of its own.
ShouldIStart ==
    /\ \A p \in Procs : proc[p] = "down"
    /\ Begin("script")
    /\ UNCHANGED <<diskVars, check, timer, lock, unlocked, outside>>

-----------------------------------------------------------------------------
(* mount_check.py *)

SpaceOK == timer' = TRUE

CheckStart ==
    /\ check = "start"
    /\ IF flagged THEN UNCHANGED timer ELSE SpaceOK
    /\ check' = "select"
    /\ fs' = None
    /\ UNCHANGED <<free, link, flagged, sameDisk, procVars, outside>>

\* selectFs: the first disk with space; a disk that is gone is passed over, and any
\* other error ends the script, which systemd starts again.
Usable(d) == free[d] \in {"ok", "broken"}
First == {d \in Disks : Usable(d) /\ \A e \in Disks : e < d => ~Usable(e)}

SelectNone ==
    /\ check = "select" /\ First = {}
    /\ flagged' = TRUE
    /\ check' = "stop_timer"
    /\ UNCHANGED <<free, fs, link, sameDisk, timer, procVars, outside>>

SelectDisk == \E d \in First :
    /\ check = "select" /\ free[d] = "ok"
    /\ sameDisk' = ((flagged /\ d = fs) \/ (sameDisk /\ d = fs))
    /\ flagged' = FALSE
    /\ IF d = fs
       THEN check' = "sleep" /\ UNCHANGED fs
       ELSE check' = "link" /\ fs' = d
    /\ UNCHANGED <<free, link, timer, procVars, outside>>

SelectFails == \E d \in First :
    /\ check = "select" /\ free[d] = "broken"
    /\ check' = "start"
    /\ UNCHANGED <<diskVars, timer, procVars, outside>>

\* mkLink, which may fail, then onFindSpaceOK.
LinkTimerForgotten ==
    /\ check = "link"
    /\ link' \in {link, fs}
    /\ check' = "sleep"
    /\ UNCHANGED <<free, fs, flagged, sameDisk, timer, procVars, outside>>
Link ==
    /\ check = "link"
    /\ link' \in {link, fs}
    /\ SpaceOK
    /\ check' = "sleep"
    /\ UNCHANGED <<free, fs, flagged, sameDisk, procVars, outside>>

\* onFindSpaceFull: the timer, then the service.
TimerKept ==
    /\ check = "stop_timer"
    /\ check' = "stop_service"
    /\ UNCHANGED <<diskVars, timer, procVars, outside>>
StopTimer ==
    /\ check = "stop_timer"
    /\ timer' = FALSE
    /\ check' = "stop_service"
    /\ UNCHANGED <<diskVars, procVars, outside>>

StopService ==
    /\ check = "stop_service"
    /\ Down("service")
    /\ Ended("service", FALSE)
    /\ outside' = FALSE
    /\ check' = "long_sleep"
    /\ UNCHANGED <<diskVars, timer>>

Wake ==
    /\ check \in {"sleep", "long_sleep"}
    /\ check' = "select"
    /\ UNCHANGED <<diskVars, timer, procVars, outside>>

SpaceChanges == \E d \in Disks :
    /\ free' \in {[free EXCEPT ![d] = s] : s \in {"ok", "full", "gone", "broken"} \ {free[d]}}
    /\ UNCHANGED <<check, fs, link, flagged, sameDisk, timer, procVars, outside>>

ServicesNext ==
    \/ TimerFires \/ RestartAlways \/ TriggerFires \/ AutoExpoStop \/ ShouldIStart
    \/ \E p \in Procs : OpenLock(p) \/ TryLock(p) \/ Exits(p)
    \/ CheckStart \/ SelectNone \/ SelectDisk \/ SelectFails
    \/ Link \/ StopTimer \/ StopService \/ Wake
    \/ SpaceChanges

ServicesSpec == ServicesInit /\ [][ServicesNext]_servicesVars

-----------------------------------------------------------------------------
ServicesTypeOK ==
    /\ free \in [Disks -> {"ok", "full", "gone", "broken"}]
    /\ check \in {"start", "select", "link", "stop_timer", "stop_service", "sleep", "long_sleep"}
    /\ fs \in Disks \cup {None} /\ link \in Disks \cup {None}
    /\ flagged \in BOOLEAN /\ timer \in BOOLEAN
    /\ restart \in BOOLEAN /\ outside \in BOOLEAN /\ sameDisk \in BOOLEAN
    /\ proc \in [Procs -> {"down", "begun", "opened", "runs"}]
    /\ unlocked \subseteq Procs /\ lock \in Procs \cup {Nobody}

\* However they were started, two processes drive the cameras at once only if one of them
\* could not open the lock file, or lock it for another reason than that it is locked: main
\* returns for EWOULDBLOCK alone, and goes on without the lock after any other error
\* ("process singleton lock", 956; "other error about flock", 967).
OneInstance ==
    \A p, q \in Procs : proc[p] = "runs" /\ proc[q] = "runs" =>
        p = q \/ p \in unlocked \/ q \in unlocked

\* While mount_check sleeps because every disk is full, the service is up only if a
\* trigger, which knows nothing of disks, started it (onFindSpaceFull); and in normal
\* operation the timer that starts auto_expo is on, except when space came back on the
\* disk that was linked before: then it stays off (main loop, 115).
ServiceFollowsSpace ==
    /\ check = "long_sleep" => ~timer /\ (proc["service"] # "down" => outside)
    /\ check = "sleep" /\ ~timer => sameDisk
=============================================================================

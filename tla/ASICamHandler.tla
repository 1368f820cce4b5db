--------------------------- MODULE ASICamHandler ---------------------------
(***************************************************************************)
(* One camera of auto_expo.cpp: class ASICamHandler, from the moment main  *)
(* has started its monitor and data-saving threads and the HTTP server.    *)
(*                                                                         *)
(* Threads (pc gives the place each one is at):                            *)
(*   expo  takes exposures into a ring of NBuf buffers and queues them     *)
(*   data  takes frames off the queue and writes them to files             *)
(*   mon   polls the temperature until it is told to stop                  *)
(*   main  launches expo, then joins expo, data, mon in that order         *)
(*   http  the uWebSockets thread, serving start_expo and stop_expo        *)
(*   hotplug  the detached thread that counts the cameras online           *)
(* The SIGINT handler, which joins the same threads from main, is left out.*)
(*                                                                         *)
(* The image of an exposure is the number of that exposure, whatever the   *)
(* camera delivers for it; 0 stands for the bytes of a buffer that hold no *)
(* complete image.                                                         *)
(***************************************************************************)
EXTENDS Integers, Sequences

CONSTANTS
  NBuf,          (* buffers in the CircularBuffer; 20 in the code            *)
  ULONG_MAX,     (* largest unsigned long                                    *)
  ExpoCount,     (* FLAGS_expo_count                                         *)
  KeepRunning,   (* FLAGS_keep_running                                       *)
  ErrLimit,      (* errors before traceError gives up; 16 in the code        *)
  CamFailures,   (* the camera calls that may fail                           *)
  Unplug,        (* TRUE iff the number of cameras online may change         *)
  SaveFails,     (* TRUE iff writing a file may fail                         *)
  LoopCounts,    (* the N of start_expo/N requests                           *)
  MaxFrames,     (* bound on exposures, for TLC                              *)
  MaxCmds        (* bound on HTTP requests, for TLC                          *)

ASSUME NBufAssumption == NBuf \in Nat \ {0}
ASSUME CounterAssumption ==
  /\ ULONG_MAX \in Nat \ {0, 1}
  /\ ExpoCount \in 0 .. ULONG_MAX
  /\ LoopCounts \subseteq 0 .. ULONG_MAX
ASSUME ErrLimitAssumption == ErrLimit \in Nat \ {0}
ASSUME FailureAssumption ==
  /\ CamFailures \subseteq {"start", "expose", "status", "data"}
  /\ {KeepRunning, Unplug, SaveFails} \subseteq BOOLEAN
ASSUME BoundAssumption == MaxFrames \in Nat /\ MaxCmds \in Nat

VARIABLES
  pc,            (* place of each thread                                     *)
  proc,          (* "up", or how the process ended                           *)
  alarm,         (* alarm(20) is pending                                     *)
  th_expo_stop,  (* who has set the stop flag; the flag is raised if any did *)
  err_cnt,       (* traceError's static error counter                        *)
  exp_status,    (* what the camera would answer to ASIGetExpStatus          *)
  loop_cnt, expo_cnt,
  tmp,           (* expo's register between the load and store of expo_cnt++ *)
  cmd,           (* the latest HTTP request                                  *)
  ncmd,          (* number of requests so far                                *)
  frame,         (* number of ASIStartExposure calls so far                  *)
  mtx_data,      (* thread that holds mtx_data                               *)
  buf_cur_pos,   (* CircularBuffer::_buf_cur_pos                             *)
  content,       (* content[b]: the exposure whose image buffer b holds      *)
  imgBuf,        (* expo's current buffer                                    *)
  buf_to_proc, data_q,
  cur,           (* the entry data is saving                                 *)
  saved          (* files written so far: exposure named, image inside       *)

stopVars == <<th_expo_stop, err_cnt, alarm>>
countVars == <<loop_cnt, expo_cnt, tmp>>
cmdVars == <<cmd, ncmd>>
camVars == <<exp_status, frame>>
ringVars == <<buf_cur_pos, imgBuf, content>>
queueVars == <<mtx_data, buf_to_proc, data_q>>
saveVars == <<cur, saved>>
vars == <<pc, proc, stopVars, countVars, cmdVars, camVars, ringVars,
          queueVars, saveVars>>

Threads == {"expo", "data", "mon", "main", "http", "hotplug"}
None == "none"
Buffers == 0 .. NBuf - 1
ULong == 0 .. ULONG_MAX

(* A frame waiting in data_q: its buffer and, as metadata, its exposure.     *)
Entry == [buf : Buffers, id : Nat]
(* A written file: the exposure its name and header give, and its image.     *)
File == [id : Nat, img : Nat]

(* Thread t steps from one place to the next, while the process lives.       *)
Goto(t, from, to) ==
  /\ proc = "up"
  /\ pc[t] = from
  /\ pc' = [pc EXCEPT ![t] = to]

(* A step that changes nothing but where thread t is.                        *)
Move(t, from, to) ==
  /\ Goto(t, from, to)
  /\ UNCHANGED <<proc, stopVars, countVars, cmdVars, camVars, ringVars,
                 queueVars, saveVars>>

Lock(t) == mtx_data = None /\ mtx_data' = t
Unlock == mtx_data' = None

Stopping == th_expo_stop # {}
(* Mutant of Reached: > for >=.                                              *)
Exceeded == loop_cnt > 0 /\ expo_cnt > loop_cnt
Reached == loop_cnt > 0 /\ expo_cnt >= loop_cnt
QueuedBufs == {data_q[i].buf : i \in DOMAIN data_q}

FirstPlaces == [t \in Threads |->
  CASE t = "expo" -> "unborn" [] t = "main" -> "launch" [] t = "http" -> "idle"
    [] t = "hotplug" -> "watch" [] OTHER -> "top"]

Init ==
  /\ pc = FirstPlaces
  /\ proc = "up" /\ alarm = FALSE /\ th_expo_stop = {} /\ err_cnt = 0
  /\ exp_status = "idle" /\ frame = 0
  /\ loop_cnt = 0 /\ expo_cnt = 0 /\ tmp = 0
  /\ cmd = [op |-> "none", n |-> 0, mark |-> 0, fresh |-> FALSE] /\ ncmd = 0
  /\ mtx_data = None /\ buf_cur_pos = 0 /\ imgBuf = 0
  /\ content = [b \in Buffers |-> 0]
  /\ buf_to_proc = {} /\ data_q = <<>>
  /\ cur = [buf |-> 0, id |-> 0] /\ saved = <<>>

-----------------------------------------------------------------------------
(* main: expo_loop_start, then wait_all_threads.                             *)

ExpoLoopStart ==
  /\ proc = "up"
  /\ pc["main"] = "launch"
  /\ pc' = [pc EXCEPT !["main"] = "join_expo", !["expo"] = "cooling"]
  /\ loop_cnt' = ExpoCount
  /\ UNCHANGED <<proc, stopVars, expo_cnt, tmp, cmdVars, camVars, ringVars,
                 queueVars, saveVars>>

(* expo_loop_wait: only after the join does main raise the stop flag.        *)
ExpoLoopWait ==
  /\ pc["expo"] = "done"
  /\ Goto("main", "join_expo", "join_data")
  /\ th_expo_stop' = th_expo_stop \cup {"joined"}
  /\ UNCHANGED <<proc, err_cnt, alarm, countVars, cmdVars, camVars, ringVars,
                 queueVars, saveVars>>

DataSavingWait ==
  /\ pc["data"] = "done"
  /\ Move("main", "join_data", "join_mon")

MonitorWait ==
  /\ pc["mon"] = "done"
  /\ Move("main", "join_mon", "joined_all")

(* The monitor thread leaves its loop; the temperature is not modelled.      *)
MonitorExit ==
  /\ Stopping
  /\ Move("mon", "top", "done")

-----------------------------------------------------------------------------
(* expo: the exposure thread.                                                *)

(* expo_wait_cooling returns: cold enough, tried enough, or told to stop.    *)
ExpoWaitCooling ==
  Move("expo", "cooling", "check")

ExpoExit ==
  /\ Stopping \/ (Reached /\ ~KeepRunning)
  /\ Move("expo", "check", "done")

(* Mutant of ExpoContinue: the loop no longer tests the stop flag.           *)
ContinueThoughStopping ==
  /\ ~Reached
  /\ frame < MaxFrames
  /\ Move("expo", "check", "start")

(* The loop's tests let another exposure pass. When they do not and the      *)
(* program keeps running, the thread sleeps and tests again: a stutter.      *)
ExpoContinue ==
  /\ ~Stopping
  /\ ~Reached
  /\ frame < MaxFrames
  /\ Move("expo", "check", "start")

(* The result of ASIStartExposure is ignored.                                *)
StartExposure ==
  /\ Goto("expo", "start", "wait")
  /\ frame' = frame + 1
  /\ \/ exp_status' = "working"
     \/ "start" \in CamFailures /\ UNCHANGED exp_status
  /\ UNCHANGED <<proc, stopVars, countVars, cmdVars, ringVars, queueVars,
                 saveVars>>

(* The camera finishes an exposure on its own.                               *)
CameraDone ==
  /\ proc = "up"
  /\ exp_status = "working"
  /\ \/ exp_status' = "success"
     \/ "expose" \in CamFailures /\ exp_status' = "failed"
  /\ UNCHANGED <<pc, proc, stopVars, countVars, cmdVars, frame, ringVars,
                 queueVars, saveVars>>

(* Sixteen errors, none more than half an hour after the last, are too many. *)
(* How much time has passed is the environment's choice.                     *)
TraceError ==
  /\ err_cnt' \in {1, err_cnt + 1}
  /\ IF err_cnt' >= ErrLimit
       THEN th_expo_stop' = th_expo_stop \cup {"errors"} /\ alarm' = TRUE
       ELSE UNCHANGED <<th_expo_stop, alarm>>

(* The polling loop does not look at the stop flag. Whatever the status is,  *)
(* and if asking for it fails too, the code goes on to fetch an image.       *)
ExposureOver ==
  /\ Goto("expo", "wait", "lock_ring")
  /\ \/ exp_status # "working" /\ UNCHANGED stopVars
     \/ "status" \in CamFailures /\ TraceError
  /\ UNCHANGED <<proc, countVars, cmdVars, camVars, ringVars, queueVars,
                 saveVars>>

ExpoLock(from, to) ==
  /\ Goto("expo", from, to)
  /\ Lock("expo")
  /\ UNCHANGED <<proc, stopVars, countVars, cmdVars, camVars, ringVars,
                 buf_to_proc, data_q, saveVars>>

ExpoLockRing == ExpoLock("lock_ring", "ring")
ExpoLockPush == ExpoLock("lock_push", "push")
ExpoLockDrop == ExpoLock("lock_drop", "drop")

(* Mutants of GenBuff: the modulo is forgotten; the increment is.            *)
GenBuffUnwrapped == buf_cur_pos' = buf_cur_pos + 1
GenBuffStuck == buf_cur_pos' = buf_cur_pos
(* gen_buff hands out the next buffer and moves on, in both cases below.     *)
GenBuff == buf_cur_pos' = (buf_cur_pos + 1) % NBuf

(* Mutant of StillQueued: the check before a buffer is reused is dropped.    *)
NeverStillQueued == FALSE
StillQueued == buf_cur_pos \in buf_to_proc

ClaimBuffer ==
  /\ ~StillQueued
  /\ Goto("expo", "ring", "fetch")
  /\ GenBuff
  /\ imgBuf' = buf_cur_pos
  /\ buf_to_proc' = buf_to_proc \cup {buf_cur_pos}
  /\ Unlock
  /\ UNCHANGED <<proc, stopVars, countVars, cmdVars, camVars, content, data_q,
                 saveVars>>

(* Mutant of RingOverflow: its early "continue" leaves the mutex locked.     *)
OverflowKeepsLock ==
  /\ StillQueued
  /\ Goto("expo", "ring", "check")
  /\ GenBuff
  /\ th_expo_stop' = th_expo_stop \cup {"overflow"}
  /\ UNCHANGED <<proc, err_cnt, alarm, countVars, cmdVars, camVars, imgBuf,
                 content, queueVars, saveVars>>

(* "CircularBuffer is not big enough": the frame is abandoned uncounted.     *)
RingOverflow ==
  /\ StillQueued
  /\ Goto("expo", "ring", "check")
  /\ GenBuff
  /\ th_expo_stop' = th_expo_stop \cup {"overflow"}
  /\ Unlock
  /\ UNCHANGED <<proc, err_cnt, alarm, countVars, cmdVars, camVars, imgBuf,
                 content, buf_to_proc, data_q, saveVars>>

(* ASIGetDataAfterExp writes into the buffer for a while, mutex released.    *)
FetchBegin ==
  /\ Goto("expo", "fetch", "fetching")
  /\ content' = [content EXCEPT ![imgBuf] = 0]
  /\ UNCHANGED <<proc, stopVars, countVars, cmdVars, camVars, buf_cur_pos,
                 imgBuf, queueVars, saveVars>>

(* Whatever exp_status is. What a camera hands out after an exposure that    *)
(* failed, if the call succeeds, nothing in the repository says; it is taken *)
(* for the image of that exposure.                                           *)
FetchDone ==
  /\ Goto("expo", "fetching", "lock_push")
  /\ content' = [content EXCEPT ![imgBuf] = frame]
  /\ UNCHANGED <<proc, stopVars, countVars, cmdVars, camVars, buf_cur_pos,
                 imgBuf, queueVars, saveVars>>

(* Mutant of FetchFailed: the error is counted but the frame queued.         *)
FetchFailureIgnored ==
  /\ exp_status # "success" \/ "data" \in CamFailures
  /\ Goto("expo", "fetching", "lock_push")
  /\ TraceError
  /\ UNCHANGED <<proc, countVars, cmdVars, camVars, ringVars, queueVars,
                 saveVars>>

FetchFailed ==
  /\ exp_status # "success" \/ "data" \in CamFailures
  /\ Goto("expo", "fetching", "lock_drop")
  /\ TraceError
  /\ UNCHANGED <<proc, countVars, cmdVars, camVars, ringVars, queueVars,
                 saveVars>>

(* Mutant of PushFrame: the frame overtakes those that wait.                 *)
PushFrameFirst ==
  /\ Goto("expo", "push", "count")
  /\ data_q' = <<[buf |-> imgBuf, id |-> frame]>> \o data_q
  /\ Unlock
  /\ UNCHANGED <<proc, stopVars, countVars, cmdVars, camVars, ringVars,
                 buf_to_proc, saveVars>>

PushFrame ==
  /\ Goto("expo", "push", "count")
  /\ data_q' = Append(data_q, [buf |-> imgBuf, id |-> frame])
  /\ Unlock
  /\ UNCHANGED <<proc, stopVars, countVars, cmdVars, camVars, ringVars,
                 buf_to_proc, saveVars>>

(* Mutant of DropFrame: the buffer of a failed fetch is not given back.      *)
DropFrameLeaks ==
  /\ Goto("expo", "drop", "count")
  /\ Unlock
  /\ UNCHANGED <<proc, stopVars, countVars, cmdVars, camVars, ringVars,
                 buf_to_proc, data_q, saveVars>>

DropFrame ==
  /\ Goto("expo", "drop", "count")
  /\ buf_to_proc' = buf_to_proc \ {imgBuf}
  /\ Unlock
  /\ UNCHANGED <<proc, stopVars, countVars, cmdVars, camVars, ringVars,
                 data_q, saveVars>>

(* expo_cnt++ on a plain unsigned long that the http thread stores to.       *)
CountLoad ==
  /\ Goto("expo", "count", "count_store")
  /\ tmp' = expo_cnt
  /\ UNCHANGED <<proc, stopVars, loop_cnt, expo_cnt, cmdVars, camVars,
                 ringVars, queueVars, saveVars>>

CountStore ==
  /\ Goto("expo", "count_store", "check")
  /\ expo_cnt' = (tmp + 1) % (ULONG_MAX + 1)
  /\ UNCHANGED <<proc, stopVars, loop_cnt, tmp, cmdVars, camVars, ringVars,
                 queueVars, saveVars>>

-----------------------------------------------------------------------------
(* data: the saving thread.                                                  *)

(* Mutant of DataCheck: the stopped thread does not save what is queued.     *)
DataCheckNoDrain ==
  Move("data", "top", IF Stopping THEN "done" ELSE "lock")

DataCheck ==
  Move("data", "top", IF Stopping THEN "drain" ELSE "lock")

DataLock ==
  /\ Goto("data", "lock", "pick")
  /\ Lock("data")
  /\ UNCHANGED <<proc, stopVars, countVars, cmdVars, camVars, ringVars,
                 buf_to_proc, data_q, saveVars>>

DataEmpty ==
  /\ data_q = <<>>
  /\ Goto("data", "pick", "top")
  /\ Unlock
  /\ UNCHANGED <<proc, stopVars, countVars, cmdVars, camVars, ringVars,
                 buf_to_proc, data_q, saveVars>>

(* assert(buf_to_proc.erase(imgBuf)), pop: the buffer stops being tracked    *)
(* before save_data has read it.                                             *)
PopFrame ==
  /\ data_q # <<>>
  /\ cur' = Head(data_q)
  /\ data_q' = Tail(data_q)
  /\ buf_to_proc' = buf_to_proc \ {Head(data_q).buf}
  /\ proc' = IF Head(data_q).buf \in buf_to_proc THEN "up" ELSE "aborted"

DataPick ==
  /\ Goto("data", "pick", "save")
  /\ PopFrame
  /\ Unlock
  /\ UNCHANGED <<stopVars, countVars, cmdVars, camVars, ringVars, saved>>

(* save_data reads the buffer, writes the file and only then returns.        *)
SaveData(from, to) ==
  /\ Goto("data", from, to)
  /\ saved' = Append(saved, [id |-> cur.id, img |-> content[cur.buf]])
  /\ UNCHANGED <<proc, stopVars, countVars, cmdVars, camVars, ringVars,
                 queueVars, cur>>

(* A directory or file that cannot be written aborts the process.            *)
SaveFailed ==
  /\ SaveFails
  /\ proc = "up"
  /\ pc["data"] \in {"save", "save_cached"}
  /\ proc' = "aborted"
  /\ UNCHANGED <<pc, stopVars, countVars, cmdVars, camVars, ringVars,
                 queueVars, saveVars>>

DataSave == SaveData("save", "top")

(* "saving cached data...": the last loop never takes the mutex. Meeting     *)
(* expo inside its critical section there is a data race on the containers,  *)
(* which may also bring the process down.                                    *)
ExpoInQueue ==
  \/ pc["expo"] = "push"
  \/ pc["expo"] \in {"ring", "drop"} /\ data_q # <<>>

DrainPick ==
  /\ Goto("data", "drain", "save_cached")
  /\ PopFrame
  /\ UNCHANGED <<stopVars, countVars, cmdVars, camVars, ringVars, mtx_data,
                 saved>>

DrainRace ==
  /\ proc = "up"
  /\ pc["data"] = "drain"
  /\ ExpoInQueue
  /\ proc' = "crashed"
  /\ UNCHANGED <<pc, stopVars, countVars, cmdVars, camVars, ringVars,
                 queueVars, saveVars>>

DrainSave == SaveData("save_cached", "drain")

(* Mutant of DrainEnd: the last loop may end with frames still queued.       *)
DrainEndEarly == Move("data", "drain", "done")

DrainEnd ==
  /\ data_q = <<>>
  /\ Move("data", "drain", "done")

-----------------------------------------------------------------------------
(* http: one request at a time; the stores are plain and unordered with the  *)
(* loads of expo. An exposure that is under way is not restarted.            *)

(* reset_expo_count: first store. cmd remembers the request, the number of   *)
(* exposures begun before it, and whether expo was idle with nothing that    *)
(* could make the new target look unreached before the second store.         *)
StartExpo(n) ==
  /\ ncmd < MaxCmds
  /\ Goto("http", "idle", "reset")
  /\ loop_cnt' = n
  /\ ncmd' = ncmd + 1
  /\ cmd' = [op |-> "start", n |-> n, mark |-> frame,
             fresh |-> pc["expo"] = "check" /\ Reached /\ expo_cnt >= n]
  /\ UNCHANGED <<proc, stopVars, expo_cnt, tmp, camVars, ringVars, queueVars,
                 saveVars>>

(* Mutant of ResetExpoCount: the new target is set, the count not reset.     *)
KeepExpoCount == Move("http", "reset", "idle")

ResetExpoCount ==
  /\ Goto("http", "reset", "idle")
  /\ expo_cnt' = 0
  /\ UNCHANGED <<proc, stopVars, loop_cnt, tmp, cmdVars, camVars, ringVars,
                 queueVars, saveVars>>

(* stop_expo_count: ASIStopExposure, then the two stores. A stopped exposure *)
(* may leave an image or nothing. fresh: main will not overwrite loop_cnt.   *)
StopExpo ==
  /\ ncmd < MaxCmds
  /\ Goto("http", "idle", "stop_expo_cnt")
  /\ IF exp_status = "working" THEN exp_status' \in {"idle", "success"}
                               ELSE UNCHANGED exp_status
  /\ ncmd' = ncmd + 1
  /\ UNCHANGED <<proc, stopVars, countVars, cmd, frame, ringVars, queueVars,
                 saveVars>>

StopExpoCnt ==
  /\ Goto("http", "stop_expo_cnt", "stop_loop_cnt")
  /\ expo_cnt' = ULONG_MAX - 1
  /\ UNCHANGED <<proc, stopVars, loop_cnt, tmp, cmdVars, camVars, ringVars,
                 queueVars, saveVars>>

(* Mutant of StopLoopCnt: 0, which means no limit.                           *)
StopLoopCntUnlimited ==
  /\ Goto("http", "stop_loop_cnt", "idle")
  /\ loop_cnt' = 0
  /\ cmd' = [op |-> "stop", n |-> 0, mark |-> frame,
             fresh |-> pc["main"] # "launch"]
  /\ UNCHANGED <<proc, stopVars, expo_cnt, tmp, ncmd, camVars, ringVars,
                 queueVars, saveVars>>

StopLoopCnt ==
  /\ Goto("http", "stop_loop_cnt", "idle")
  /\ loop_cnt' = 1
  /\ cmd' = [op |-> "stop", n |-> 0, mark |-> frame,
             fresh |-> pc["main"] # "launch"]
  /\ UNCHANGED <<proc, stopVars, expo_cnt, tmp, ncmd, camVars, ringVars,
                 queueVars, saveVars>>

-----------------------------------------------------------------------------
(* The rest of the process.                                                  *)

(* The hotplug thread, having met a wrong number of cameras more than three  *)
(* times in all, stops every camera and then sets the alarm. The count is    *)
(* left to the environment.                                                  *)
HotplugStop ==
  /\ Unplug
  /\ Goto("hotplug", "watch", "alarm")
  /\ th_expo_stop' = th_expo_stop \cup {"hotplug"}
  /\ UNCHANGED <<proc, err_cnt, alarm, countVars, cmdVars, camVars, ringVars,
                 queueVars, saveVars>>

HotplugAlarm ==
  /\ Goto("hotplug", "alarm", "watch")
  /\ alarm' = TRUE
  /\ UNCHANGED <<proc, th_expo_stop, err_cnt, countVars, cmdVars, camVars,
                 ringVars, queueVars, saveVars>>

(* SIGALRM ends the process; a later alarm() may put it off for ever.        *)
AlarmFires ==
  /\ proc = "up"
  /\ alarm
  /\ proc' = "killed"
  /\ UNCHANGED <<pc, stopVars, countVars, cmdVars, camVars, ringVars,
                 queueVars, saveVars>>

ExpoNext ==
  \/ ExpoWaitCooling \/ ExpoExit \/ ExpoContinue \/ StartExposure
  \/ ExposureOver \/ ExpoLockRing \/ ClaimBuffer \/ RingOverflow
  \/ FetchBegin \/ FetchDone \/ FetchFailed
  \/ ExpoLockPush \/ PushFrame \/ ExpoLockDrop \/ DropFrame
  \/ CountLoad \/ CountStore

DataNext ==
  \/ DataCheck \/ DataLock \/ DataEmpty \/ DataPick \/ DataSave \/ SaveFailed
  \/ DrainPick \/ DrainRace \/ DrainSave \/ DrainEnd

HttpStores == ResetExpoCount \/ StopExpoCnt \/ StopLoopCnt

HttpNext == (\E n \in LoopCounts : StartExpo(n)) \/ StopExpo \/ HttpStores

MainNext == ExpoLoopStart \/ ExpoLoopWait \/ DataSavingWait \/ MonitorWait

(* Nothing is left to do once the process has ended or main has joined all.  *)
Ended ==
  /\ proc # "up" \/ pc["main"] = "joined_all"
  /\ UNCHANGED vars

Next ==
  \/ ExpoNext \/ DataNext \/ HttpNext \/ MainNext \/ MonitorExit
  \/ CameraDone \/ HotplugStop \/ HotplugAlarm \/ AlarmFires \/ Ended

Spec == Init /\ [][Next]_vars

(* The scheduler runs every thread; an exposure ends. A lock that keeps      *)
(* being released is eventually taken: neither thread comes back for it      *)
(* before it has slept or done I/O.                                          *)
Locking == ExpoLockRing \/ ExpoLockPush \/ ExpoLockDrop

Fairness ==
  /\ WF_vars(ExpoNext)
  /\ WF_vars(DataNext)
  /\ WF_vars(HttpStores)
  /\ WF_vars(MainNext)
  /\ WF_vars(MonitorExit)
  /\ WF_vars(CameraDone)
  /\ SF_vars(Locking)
  /\ SF_vars(DataLock)

FairSpec == Spec /\ Fairness

-----------------------------------------------------------------------------
(* Properties.                                                               *)

Places == [t \in Threads |->
  CASE t = "expo" -> {"unborn", "cooling", "check", "start", "wait", "lock_ring",
                      "ring", "fetch", "fetching", "lock_push", "push",
                      "lock_drop", "drop", "count", "count_store", "done"}
    [] t = "data" -> {"top", "lock", "pick", "save", "drain", "save_cached", "done"}
    [] t = "mon"  -> {"top", "done"}
    [] t = "main" -> {"launch", "join_expo", "join_data", "join_mon", "joined_all"}
    [] t = "http" -> {"idle", "reset", "stop_expo_cnt", "stop_loop_cnt"}
    [] t = "hotplug" -> {"watch", "alarm"}]

PlaceOK ==
  /\ pc \in [Threads -> UNION {Places[t] : t \in Threads}]
  /\ \A t \in Threads : pc[t] \in Places[t]
ProcOK == proc \in {"up", "aborted", "crashed", "killed"}
StopOK ==
  /\ th_expo_stop \subseteq {"joined", "errors", "overflow", "hotplug"}
  /\ err_cnt \in Nat
  /\ alarm \in BOOLEAN
CountOK == {loop_cnt, expo_cnt, tmp} \subseteq ULong
CmdOK ==
  /\ cmd \in [op : {"none", "start", "stop"}, n : ULong, mark : Nat,
              fresh : BOOLEAN]
  /\ ncmd \in Nat
CamOK == exp_status \in {"idle", "working", "success", "failed"} /\ frame \in Nat
RingOK ==
  /\ buf_cur_pos \in Buffers /\ imgBuf \in Buffers
  /\ content \in [Buffers -> Nat]
QueueOK ==
  /\ mtx_data \in {None, "expo", "data"}
  /\ buf_to_proc \subseteq Buffers
  /\ data_q \in Seq(Entry)
SaveOK == cur \in Entry /\ saved \in Seq(File)

TypeOK ==
  PlaceOK /\ ProcOK /\ StopOK /\ CountOK /\ CmdOK /\ CamOK /\ RingOK /\ QueueOK
  /\ SaveOK

(* The assertion at the pop: every queued buffer is still tracked in         *)
(* buf_to_proc, in whatever order the two threads ran.                       *)
QueuedTracked == QueuedBufs \subseteq buf_to_proc

(* A frame waiting in data_q has not been written over: its buffer still     *)
(* holds the image of the exposure its metadata names.                       *)
QueuedIntact == \A i \in DOMAIN data_q : content[data_q[i].buf] = data_q[i].id

(* A frame that waits in data_q is safe: its buffer is tracked, which is     *)
(* what keeps the ring from reusing it, and still holds its own image.       *)
QueuedSafe == QueuedTracked /\ QueuedIntact

(* A frame being saved can only have been written over if the camera has     *)
(* gone once round the ring since: NBuf more exposures were begun.           *)
Saving == pc["data"] \in {"save", "save_cached"}
OnlyLappedFramesTorn ==
  Saving /\ content[cur.buf] # cur.id => frame >= cur.id + NBuf

(* Whenever the saving thread ends, at most the frame that was in flight     *)
(* when the stop flag went up is left in the queue.                          *)
AtMostOneLost == pc["data"] = "done" => Len(data_q) <= 1

(* A camera that stops of itself (target reached, or ring overflow) loses    *)
(* nothing it captured.                                                      *)
SelfStopLosesNothing ==
  /\ pc["expo"] = "done" /\ pc["data"] = "done"
  /\ th_expo_stop \cap {"errors", "hotplug"} = {}
  => data_q = <<>>

(* A batch run (no keep_running, no request, no failing camera call) that is *)
(* not stopped early leaves one file for each of the ExpoCount exposures it  *)
(* was asked for, in order.                                                  *)
BatchComplete ==
  /\ pc["main"] = "joined_all" /\ proc = "up" /\ th_expo_stop = {"joined"}
  /\ ncmd = 0 /\ CamFailures = {}
  => /\ frame = ExpoCount /\ Len(saved) = ExpoCount
     /\ \A i \in 1 .. ExpoCount : saved[i].id = i

(* "CircularBuffer is not big enough" is only said when it is not: the       *)
(* frame taken NBuf exposures ago is still waiting, and is the oldest one.   *)
OverflowOnlyWhenLapped ==
  [][RingOverflow => data_q # <<>> /\ Head(data_q).id = frame - NBuf]_vars

(* Frames are captured and written in order, once each: FrameStore, whose    *)
(* pending frames are the one being saved and those in the queue.            *)
Ids(s) == [i \in DOMAIN s |-> s[i].id]
Pending == (IF Saving THEN <<cur.id>> ELSE <<>>) \o Ids(data_q)
Store == INSTANCE FrameStore
           WITH Frames <- 1 .. MaxFrames, pending <- Pending, stored <- Ids(saved)
InOrder == Store!Spec

(* Once any thread has raised the stop flag, all three threads end and main  *)
(* joins them, unless the process is brought down first.                     *)
StopJoinsAll == Stopping ~> pc["main"] = "joined_all" \/ proc # "up"

(* Frame f, captured while nothing outside the expo thread stops the camera, *)
(* is written to a file.                                                     *)
QueuedFramesSaved ==
  \A f \in 1 .. MaxFrames :
    (\E i \in DOMAIN data_q : data_q[i].id = f)
      ~> \/ \E i \in DOMAIN saved : saved[i].id = f
         \/ proc # "up" \/ th_expo_stop \cap {"errors", "hotplug"} # {}

(* After a stop_expo request served once the loop is launched, the camera    *)
(* comes to rest, unless another request is made first or the bound on       *)
(* exposures cuts a finite count short.                                      *)
Idle == pc["expo"] = "check" /\ Reached
Served(op) == pc["http"] = "idle" /\ cmd.op = op
CutShort == frame = MaxFrames /\ loop_cnt > 0
StopIdles ==
  Served("stop") /\ cmd.fresh
    ~> Idle \/ pc["expo"] = "done" \/ proc # "up" \/ ~Served("stop") \/ CutShort

(* After such a request at most two more exposures are begun: the one whose  *)
(* tests were already passed, and one more if expo_cnt wrapped between the   *)
(* two stores.                                                               *)
StopBeginsAtMostTwo ==
  Served("stop") /\ cmd.fresh => frame <= cmd.mark + 2

(* A start_expo/N request that finds the camera at rest takes N exposures    *)
(* before it comes to rest again.                                            *)
FreshStartTakesN ==
  /\ Served("start") /\ cmd.fresh /\ Idle
  => frame = cmd.mark + cmd.n

(* README: "Start exposure for N times". Violated.                           *)
StartTakesN ==
  Served("start") /\ Idle => frame >= cmd.mark + cmd.n

(* README: "Stop exposure", whenever the request is served. Violated: main   *)
(* sets loop_cnt when it launches the loop, after the server has started.    *)
StopExposure == Served("stop") => frame <= cmd.mark + 2

(* "save expo {} as {}": the file named for an exposure holds that           *)
(* exposure's image. Violated.                                               *)
SavedIntact == \A i \in DOMAIN saved : saved[i].img = saved[i].id

=============================================================================

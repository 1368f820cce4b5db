------------------------ MODULE ASICamHandlerProofs ------------------------
(*****************************************************************************)
(* Proofs about ASICamHandler: its types and which actions change what; the  *)
(* buffers, tracked and intact while they wait, and what a stop may lose;    *)
(* where frames sit in the ring, and what that says of overwriting and       *)
(* overflow; that it implements FrameStore; and what the counters do: how    *)
(* many exposures a stop_expo, a start_expo/N and a batch run take, whatever *)
(* the http thread's stores meet in expo's loop.                             *)
(*****************************************************************************)
EXTENDS ASICamHandler, SequenceTheorems, TLAPS

-----------------------------------------------------------------------------
(* Types *)

(* Which actions may change each group of variables; every other step leaves *)
(* the group as it is.                                                       *)
LEMMA Framing ==
  ASSUME [Next]_vars
  PROVE  /\ UNCHANGED proc \/ DataPick \/ DrainPick \/ DrainRace \/ SaveFailed \/ AlarmFires
         /\ \/ UNCHANGED stopVars
            \/ ExpoLoopWait \/ ExposureOver \/ FetchFailed \/ RingOverflow
            \/ HotplugStop \/ HotplugAlarm
         /\ \/ UNCHANGED countVars
            \/ ExpoLoopStart \/ CountLoad \/ CountStore
            \/ (\E n \in LoopCounts : StartExpo(n)) \/ HttpStores
         /\ \/ UNCHANGED cmdVars
            \/ (\E n \in LoopCounts : StartExpo(n)) \/ StopExpo \/ StopLoopCnt
         /\ UNCHANGED camVars \/ StartExposure \/ CameraDone \/ StopExpo
         /\ \/ UNCHANGED ringVars
            \/ ClaimBuffer \/ RingOverflow \/ FetchBegin \/ FetchDone
         /\ \/ UNCHANGED queueVars
            \/ ExpoLockRing \/ ExpoLockPush \/ ExpoLockDrop
            \/ ClaimBuffer \/ RingOverflow \/ PushFrame \/ DropFrame
            \/ DataLock \/ DataEmpty \/ DataPick \/ DrainPick
         /\ UNCHANGED saveVars \/ DataPick \/ DataSave \/ DrainPick \/ DrainSave
BY DEF Next, ExpoNext, DataNext, HttpNext, MainNext, HttpStores, vars, Move, ExpoLock,
  SaveData,
  ExpoWaitCooling, ExpoExit, ExpoContinue, StartExposure, ExposureOver, ExpoLockRing,
  ClaimBuffer, RingOverflow, FetchBegin, FetchDone, FetchFailed, ExpoLockPush,
  PushFrame, ExpoLockDrop, DropFrame, CountLoad, CountStore, DataCheck, DataLock,
  DataEmpty, DataPick, DataSave, SaveFailed, DrainPick, DrainRace, DrainSave, DrainEnd,
  ResetExpoCount, StopExpo, StopExpoCnt, StopLoopCnt, ExpoLoopStart, ExpoLoopWait,
  DataSavingWait, MonitorWait, MonitorExit, CameraDone, HotplugStop, HotplugAlarm,
  AlarmFires, Ended, StartExpo

(* The places of each thread, and that there are no other threads.           *)
LEMMA PlacesOf ==
  /\ Places["expo"] = {"unborn", "cooling", "check", "start", "wait", "lock_ring",
                       "ring", "fetch", "fetching", "lock_push", "push",
                       "lock_drop", "drop", "count", "count_store", "done"}
  /\ Places["data"] = {"top", "lock", "pick", "save", "drain", "save_cached", "done"}
  /\ Places["mon"] = {"top", "done"}
  /\ Places["main"] = {"launch", "join_expo", "join_data", "join_mon", "joined_all"}
  /\ Places["http"] = {"idle", "reset", "stop_expo_cnt", "stop_loop_cnt"}
  /\ Places["hotplug"] = {"watch", "alarm"}
  /\ {"expo", "data", "mon", "main", "http", "hotplug"} = Threads
BY DEF Places, Threads

(* A thread that steps to one of its own places keeps every place in range.  *)
LEMMA GotoPlace ==
  ASSUME PlaceOK, NEW t \in Threads, NEW from, NEW to \in Places[t],
         Goto(t, from, to)
  PROVE  PlaceOK'
BY DEF PlaceOK, Goto

(* No step takes a thread outside its places.                                *)
LEMMA PlaceStep == PlaceOK /\ [Next]_vars => PlaceOK'
<1> SUFFICES ASSUME PlaceOK, [Next]_vars PROVE PlaceOK'
  OBVIOUS
<1>1. CASE ExpoNext
  BY <1>1, GotoPlace, PlacesOf DEF ExpoNext, Move, ExpoLock, ExpoWaitCooling, ExpoExit,
    ExpoContinue, StartExposure, ExposureOver, ExpoLockRing, ClaimBuffer, RingOverflow,
    FetchBegin, FetchDone, FetchFailed, ExpoLockPush, PushFrame, ExpoLockDrop,
    DropFrame, CountLoad, CountStore
<1>2. CASE DataNext
  BY <1>2, GotoPlace, PlacesOf DEF DataNext, PlaceOK, Move, SaveData, DataCheck,
    DataLock, DataEmpty, DataPick, DataSave, SaveFailed, DrainPick, DrainRace,
    DrainSave, DrainEnd
<1>3. CASE HttpNext
  BY <1>3, GotoPlace, PlacesOf DEF HttpNext, HttpStores, StartExpo, ResetExpoCount,
    StopExpo, StopExpoCnt, StopLoopCnt
<1>4. CASE ExpoLoopStart
  BY <1>4, PlacesOf DEF ExpoLoopStart, PlaceOK
<1>5. CASE ExpoLoopWait \/ DataSavingWait \/ MonitorWait \/ MonitorExit \/ HotplugStop \/ HotplugAlarm
  BY <1>5, GotoPlace, PlacesOf DEF Move, ExpoLoopWait, DataSavingWait, MonitorWait,
    MonitorExit, HotplugStop, HotplugAlarm
<1>6. CASE UNCHANGED pc
  BY <1>6 DEF PlaceOK
<1> QED
  BY <1>1, <1>2, <1>3, <1>4, <1>5, <1>6 DEF Next, MainNext, CameraDone, AlarmFires,
    Ended, vars

(* traceError keeps the stop flag, the counter and the alarm typed.          *)
LEMMA TraceErrorType == StopOK /\ TraceError => StopOK'
<1> SUFFICES ASSUME StopOK, TraceError PROVE StopOK'
  OBVIOUS
<1>1. err_cnt' \in Nat
  BY DEF StopOK, TraceError
<1>2. CASE err_cnt' >= ErrLimit
  BY <1>1, <1>2 DEF StopOK, TraceError
<1>3. CASE ~(err_cnt' >= ErrLimit)
  BY <1>1, <1>3 DEF StopOK, TraceError
<1> QED
  BY <1>2, <1>3

(* The stop flag, the error counter and the alarm stay typed.                *)
LEMMA StopStep == TypeOK /\ [Next]_vars => StopOK'
<1> SUFFICES ASSUME TypeOK, [Next]_vars PROVE StopOK'
  OBVIOUS
<1>1. CASE UNCHANGED stopVars
  BY <1>1 DEF TypeOK, StopOK, stopVars
<1>2. CASE ExpoLoopWait \/ RingOverflow \/ HotplugStop \/ HotplugAlarm
  BY <1>2 DEF TypeOK, StopOK, ExpoLoopWait, RingOverflow, HotplugStop, HotplugAlarm
<1>3. CASE ExposureOver \/ FetchFailed
  BY <1>1, <1>3, TraceErrorType DEF TypeOK, ExposureOver, FetchFailed
<1> QED
  BY <1>1, <1>2, <1>3, Framing

(* loop_cnt and expo_cnt stay unsigned longs: expo_cnt++ wraps.              *)
LEMMA CountStep == TypeOK /\ [Next]_vars => CountOK'
<1> SUFFICES ASSUME TypeOK, [Next]_vars PROVE CountOK'
  OBVIOUS
<1>0. ULONG_MAX \in Nat /\ ULONG_MAX > 1
  BY CounterAssumption
<1>1. CASE UNCHANGED countVars
  BY <1>1 DEF TypeOK, CountOK, countVars
<1>2. CASE ExpoLoopStart
  BY <1>2, CounterAssumption DEF TypeOK, CountOK, ULong, ExpoLoopStart
<1>3. CASE CountLoad
  BY <1>3 DEF TypeOK, CountOK, CountLoad
<1>4. CASE CountStore
  BY <1>4, <1>0 DEF TypeOK, CountOK, ULong, CountStore
<1>5. CASE \E n \in LoopCounts : StartExpo(n)
  BY <1>5, CounterAssumption DEF TypeOK, CountOK, ULong, StartExpo
<1>6. CASE HttpStores
  BY <1>6, <1>0 DEF TypeOK, CountOK, ULong, HttpStores, ResetExpoCount, StopExpoCnt,
    StopLoopCnt
<1> QED
  BY <1>1, <1>2, <1>3, <1>4, <1>5, <1>6, Framing

(* The record of the latest request stays typed.                             *)
LEMMA CmdStep == TypeOK /\ [Next]_vars => CmdOK'
<1> SUFFICES ASSUME TypeOK, [Next]_vars PROVE CmdOK'
  OBVIOUS
<1>1. CASE UNCHANGED cmdVars
  BY <1>1 DEF TypeOK, CmdOK, cmdVars
<1>2. ASSUME NEW n \in LoopCounts, StartExpo(n) PROVE CmdOK'
  <2>1. n \in ULong
    BY CounterAssumption DEF ULong
  <2> DEFINE b == pc["expo"] = "check" /\ Reached /\ expo_cnt >= n
  <2>2. b \in BOOLEAN
    OBVIOUS
  <2>3. cmd' = [op |-> "start", n |-> n, mark |-> frame, fresh |-> b] /\ ncmd' = ncmd + 1
    BY <1>2 DEF StartExpo
  <2> HIDE DEF b
  <2> QED
    BY <2>1, <2>2, <2>3 DEF TypeOK, CmdOK, CamOK
<1>3. CASE StopExpo
  BY <1>3 DEF TypeOK, CmdOK, StopExpo
<1>4. CASE StopLoopCnt
  <2> DEFINE b == pc["main"] # "launch"
  <2>1. 0 \in ULong /\ b \in BOOLEAN
    BY CounterAssumption DEF ULong
  <2>2. cmd' = [op |-> "stop", n |-> 0, mark |-> frame, fresh |-> b] /\ ncmd' = ncmd
    BY <1>4 DEF StopLoopCnt
  <2> HIDE DEF b
  <2> QED
    BY <2>1, <2>2 DEF TypeOK, CmdOK, CamOK
<1> QED
  BY <1>1, <1>2, <1>3, <1>4, Framing

(* The camera's status and the exposure counter stay typed.                  *)
LEMMA CamStep == TypeOK /\ [Next]_vars => CamOK'
<1> SUFFICES ASSUME TypeOK, [Next]_vars PROVE CamOK'
  OBVIOUS
<1>1. CASE UNCHANGED camVars
  BY <1>1 DEF TypeOK, CamOK, camVars
<1>2. CASE StartExposure \/ CameraDone \/ StopExpo
  BY <1>2 DEF TypeOK, CamOK, StartExposure, CameraDone, StopExpo
<1> QED
  BY <1>1, <1>2, Framing

(* gen_buff never hands out a position outside the ring.                     *)
LEMMA RingStep == TypeOK /\ [Next]_vars => RingOK'
<1> SUFFICES ASSUME TypeOK, [Next]_vars PROVE RingOK'
  OBVIOUS
<1>1. CASE UNCHANGED ringVars
  BY <1>1 DEF TypeOK, RingOK, ringVars
<1>2. CASE ClaimBuffer \/ RingOverflow
  <2>1. (buf_cur_pos + 1) % NBuf \in Buffers
    BY NBufAssumption DEF TypeOK, RingOK, Buffers
  <2> QED
    BY <1>2, <2>1 DEF TypeOK, RingOK, ClaimBuffer, RingOverflow, GenBuff
<1>3. CASE FetchBegin \/ FetchDone
  BY <1>3 DEF TypeOK, RingOK, CamOK, FetchBegin, FetchDone
<1> QED
  BY <1>1, <1>2, <1>3, Framing

(* Only buffers of the ring are tracked and queued.                          *)
LEMMA QueueStep == TypeOK /\ [Next]_vars => QueueOK'
<1> SUFFICES ASSUME TypeOK, [Next]_vars PROVE QueueOK'
  OBVIOUS
<1> USE DEF TypeOK, QueueOK
<1>1. CASE UNCHANGED queueVars
  BY <1>1 DEF queueVars
<1>2. CASE ExpoLockRing \/ ExpoLockPush \/ ExpoLockDrop \/ DataLock
  BY <1>2 DEF ExpoLockRing, ExpoLockPush, ExpoLockDrop, ExpoLock, DataLock, Lock
<1>3. CASE ClaimBuffer \/ RingOverflow \/ DropFrame \/ DataEmpty
  BY <1>3 DEF RingOK, ClaimBuffer, RingOverflow, DropFrame, DataEmpty, Unlock
<1>4. CASE PushFrame
  BY <1>4 DEF RingOK, CamOK, PushFrame, Unlock, Entry
<1>5. CASE DataPick \/ DrainPick
  BY <1>5 DEF DataPick, DrainPick, PopFrame, Unlock
<1> QED
  BY <1>1, <1>2, <1>3, <1>4, <1>5, Framing

(* The entry being saved and the files stay typed.                           *)
LEMMA SaveStep == TypeOK /\ [Next]_vars => SaveOK'
<1> SUFFICES ASSUME TypeOK, [Next]_vars PROVE SaveOK'
  OBVIOUS
<1>1. CASE UNCHANGED saveVars
  BY <1>1 DEF TypeOK, SaveOK, saveVars
<1>2. CASE DataPick \/ DrainPick
  BY <1>2 DEF TypeOK, SaveOK, QueueOK, DataPick, DrainPick, PopFrame
<1>3. CASE DataSave \/ DrainSave
  <2>1. [id |-> cur.id, img |-> content[cur.buf]] \in File
    BY DEF TypeOK, SaveOK, RingOK, Entry, File
  <2> QED
    BY <1>3, <2>1 DEF TypeOK, SaveOK, DataSave, DrainSave, SaveData
<1> QED
  BY <1>1, <1>2, <1>3, Framing

(* The process is up or has ended in one of the known ways.                  *)
LEMMA ProcStep == TypeOK /\ [Next]_vars => ProcOK'
<1> SUFFICES ASSUME TypeOK, [Next]_vars PROVE ProcOK'
  OBVIOUS
<1>1. CASE UNCHANGED proc
  BY <1>1 DEF TypeOK, ProcOK
<1>2. CASE DataPick \/ DrainPick \/ DrainRace \/ SaveFailed \/ AlarmFires
  BY <1>2 DEF ProcOK, DataPick, DrainPick, PopFrame, DrainRace, SaveFailed, AlarmFires
<1> QED
  BY <1>1, <1>2, Framing

(* The initial state is typed.                                               *)
LEMMA TypeInit == Init => TypeOK
<1> SUFFICES ASSUME Init PROVE TypeOK
  OBVIOUS
<1>1. PlaceOK
  <2>1. DOMAIN pc = Threads /\ pc = [t \in Threads |-> pc[t]]
    BY DEF Init, FirstPlaces
  <2>2. /\ pc["expo"] = "unborn" /\ pc["main"] = "launch" /\ pc["http"] = "idle"
        /\ pc["hotplug"] = "watch" /\ pc["data"] = "top" /\ pc["mon"] = "top"
    BY DEF Init, FirstPlaces, Threads
  <2>3. \A t \in Threads : pc[t] \in Places[t]
    BY <2>2, PlacesOf
  <2> QED
    BY <2>1, <2>3 DEF PlaceOK
<1>2. 0 \in Buffers /\ 0 \in ULong
  BY NBufAssumption, CounterAssumption DEF Buffers, ULong
<1>3. ProcOK /\ StopOK /\ CountOK /\ CamOK
  BY <1>2 DEF Init, ProcOK, StopOK, CountOK, CamOK
<1>4. CmdOK
  BY <1>2 DEF Init, CmdOK
<1>5. RingOK
  BY <1>2 DEF Init, RingOK
<1>6. QueueOK /\ SaveOK
  BY <1>2 DEF Init, QueueOK, SaveOK, Entry
<1> QED
  BY <1>1, <1>3, <1>4, <1>5, <1>6 DEF TypeOK

(* Every step keeps the types.                                               *)
LEMMA TypeStep == TypeOK /\ [Next]_vars => TypeOK'
BY PlaceStep, ProcStep, StopStep, CountStep, CmdStep, CamStep, RingStep, QueueStep,
   SaveStep DEF TypeOK

(* Type correctness, for any ring size, word size, error limit and bounds.   *)
THEOREM TypeCorrect == Spec => []TypeOK
BY TypeInit, TypeStep, PTL DEF Spec

-----------------------------------------------------------------------------
(* Buffers *)

(* Expo has claimed imgBuf and not yet queued it or given it back.           *)
Holding == pc["expo"] \in {"fetch", "fetching", "lock_push", "push",
                           "lock_drop", "drop"}

(* A thread holds mtx_data exactly while it is inside a critical section.    *)
MutexInv ==
  /\ mtx_data = "expo" <=> pc["expo"] \in {"ring", "push", "drop"}
  /\ mtx_data = "data" <=> pc["data"] = "pick"

(* What is tracked is what is queued, and the buffer expo holds, if any.     *)
TrackedInv ==
  /\ QueuedBufs \subseteq buf_to_proc
  /\ Holding => imgBuf \in buf_to_proc /\ imgBuf \notin QueuedBufs
  /\ \A b \in buf_to_proc : b \in QueuedBufs \/ (Holding /\ b = imgBuf)
  /\ \A i, j \in DOMAIN data_q : data_q[i].buf = data_q[j].buf => i = j

(* QueuedIntact, and the same of the buffer expo is about to queue.          *)
IntactInv ==
  /\ QueuedIntact
  /\ pc["expo"] \in {"lock_push", "push"} => content[imgBuf] = frame

(* How far the threads have got, once someone has raised the stop flag.      *)
StopInv ==
  /\ pc["data"] \in {"drain", "save_cached", "done"} => Stopping
  /\ "joined" \in th_expo_stop => pc["expo"] = "done"
  /\ "overflow" \in th_expo_stop => pc["expo"] \in {"check", "done"}
  /\ pc["main"] = "launch" <=> pc["expo"] = "unborn"

(* What the saving thread has left behind when it has ended.                 *)
DoneInv ==
  pc["data"] = "done" =>
    /\ Len(data_q) <= 1
    /\ data_q # <<>> => pc["expo"] \in {"count", "count_store", "check", "done"}
    /\ th_expo_stop \cap {"errors", "hotplug"} = {} => data_q = <<>>

(* The inductive invariant behind the safety theorems of this module.        *)
IInv == TypeOK /\ MutexInv /\ TrackedInv /\ IntactInv /\ StopInv /\ DoneInv

Other ==
  \/ HttpNext \/ MonitorExit \/ CameraDone \/ HotplugStop \/ HotplugAlarm
  \/ AlarmFires \/ Ended \/ UNCHANGED vars

(* pc is a function whose domain holds every thread.                         *)
LEMMA PlacesTyped ==
  ASSUME TypeOK
  PROVE  DOMAIN pc = Threads /\ {"expo", "data", "mon", "main", "http", "hotplug"} \subseteq DOMAIN pc
BY DEF TypeOK, PlaceOK, Threads

(* The http, hotplug and monitor threads, the camera and the alarm touch     *)
(* neither the queue nor the ring, and only hotplug raises the flag.         *)
LEMMA OtherStep ==
  ASSUME TypeOK, Other
  PROVE  /\ pc'["expo"] = pc["expo"] /\ pc'["data"] = pc["data"] /\ pc'["main"] = pc["main"]
         /\ UNCHANGED <<frame, ringVars, queueVars, saveVars>>
         /\ th_expo_stop' \in {th_expo_stop, th_expo_stop \cup {"hotplug"}}
BY PlacesTyped DEF Other, HttpNext, HttpStores, StartExpo, ResetExpoCount, StopExpo,
   StopExpoCnt, StopLoopCnt, MonitorExit, CameraDone, HotplugStop, HotplugAlarm,
   AlarmFires, Ended, Move, Goto, vars, stopVars, camVars, ringVars, queueVars, saveVars

(* The saving thread moves no other thread and leaves the ring alone.        *)
LEMMA DataKeeps ==
  ASSUME TypeOK, DataNext
  PROVE  /\ pc'["expo"] = pc["expo"] /\ pc'["main"] = pc["main"]
         /\ UNCHANGED <<frame, ringVars, th_expo_stop>>
BY PlacesTyped DEF DataNext, DataCheck, DataLock, DataEmpty, DataPick, DataSave,
  SaveFailed,
    DrainPick, DrainRace, DrainSave, DrainEnd, SaveData, PopFrame, Move, Goto, stopVars,
    camVars, ringVars

(* The exposure thread moves no other thread and writes no file.             *)
LEMMA ExpoKeeps ==
  ASSUME TypeOK, ExpoNext
  PROVE  /\ pc'["data"] = pc["data"] /\ pc'["main"] = pc["main"]
         /\ UNCHANGED saveVars
BY PlacesTyped DEF ExpoNext, ExpoWaitCooling, ExpoExit, ExpoContinue, StartExposure,
  ExposureOver,
    ExpoLockRing, ExpoLockPush, ExpoLockDrop, ExpoLock, ClaimBuffer, RingOverflow,
    FetchBegin, FetchDone, FetchFailed, PushFrame, DropFrame, CountLoad, CountStore,
    Move, Goto, saveVars

(* main touches neither the queue nor the ring.                              *)
LEMMA MainKeeps ==
  ASSUME TypeOK, MainNext
  PROVE  /\ pc'["data"] = pc["data"]
         /\ UNCHANGED <<frame, ringVars, queueVars, saveVars>>
BY PlacesTyped DEF MainNext, ExpoLoopStart, ExpoLoopWait, DataSavingWait, MonitorWait,
   Move, Goto, camVars, ringVars, queueVars, saveVars

(* Every step is one of expo, of data, of main, or another's.                *)
LEMMA NextCases == [Next]_vars => ExpoNext \/ DataNext \/ MainNext \/ Other
BY DEF Next, Other

(* mtx_data is held by exactly the thread that is in its critical section;   *)
(* the drain loop has none.                                                  *)
LEMMA MutexStep == TypeOK /\ MutexInv /\ StopInv /\ [Next]_vars => MutexInv'
<1> SUFFICES ASSUME TypeOK, MutexInv, StopInv, [Next]_vars PROVE MutexInv'
  OBVIOUS
<1> USE PlacesTyped DEF MutexInv
<1>1. CASE ExpoNext
  BY <1>1, ExpoKeeps DEF ExpoNext, ExpoWaitCooling, ExpoExit, ExpoContinue,
    StartExposure, ExposureOver,
    ExpoLockRing, ExpoLockPush, ExpoLockDrop, ExpoLock, ClaimBuffer, RingOverflow,
    FetchBegin, FetchDone, FetchFailed, PushFrame, DropFrame, CountLoad, CountStore,
    Move, Goto, Lock, Unlock, None, queueVars
<1>2. CASE DataNext
  BY <1>2, DataKeeps DEF DataNext, DataCheck, DataLock, DataEmpty, DataPick, DataSave,
    SaveFailed,
    DrainPick, DrainRace, DrainSave, DrainEnd, SaveData, PopFrame,
    Move, Goto, Lock, Unlock, None, queueVars
<1>3. CASE MainNext
  <2>1. pc'["expo"] = pc["expo"] \/ (pc["expo"] = "unborn" /\ pc'["expo"] = "cooling")
    BY <1>3 DEF MainNext, ExpoLoopStart, ExpoLoopWait, DataSavingWait, MonitorWait,
      Move, Goto, StopInv
  <2> QED
    BY <1>3, <2>1, MainKeeps DEF queueVars
<1>4. CASE Other
  BY <1>4, OtherStep DEF queueVars
<1> QED
  BY <1>1, <1>2, <1>3, <1>4, NextCases

(* The steps of expo that touch neither the queue, the ring nor the flag.    *)
ExpoPlain ==
  \/ ExpoWaitCooling \/ ExpoExit \/ ExpoContinue
  \/ ExpoLockRing \/ ExpoLockPush \/ ExpoLockDrop \/ CountLoad \/ CountStore

(* Facts about data_q as a sequence of entries.                              *)
LEMMA Queued ==
  ASSUME TypeOK
  PROVE  /\ Len(data_q) \in Nat /\ DOMAIN data_q = 1 .. Len(data_q)
         /\ \A i \in DOMAIN data_q : data_q[i] \in Entry
         /\ data_q = <<>> <=> Len(data_q) = 0
BY LenProperties, EmptySeq, ElementOfSeq DEF TypeOK, QueueOK

(* What a push does to the queue.                                            *)
LEMMA Pushed ==
  ASSUME TypeOK, PushFrame
  PROVE  /\ [buf |-> imgBuf, id |-> frame] \in Entry
         /\ Len(data_q') = Len(data_q) + 1
         /\ DOMAIN data_q' = 1 .. Len(data_q) + 1
         /\ \A i \in DOMAIN data_q : data_q'[i] = data_q[i]
         /\ data_q'[Len(data_q) + 1] = [buf |-> imgBuf, id |-> frame]
         /\ QueuedBufs' = QueuedBufs \cup {imgBuf}
<1> DEFINE e == [buf |-> imgBuf, id |-> frame]
<1>1. e \in Entry /\ e.buf = imgBuf
  BY DEF TypeOK, RingOK, CamOK, Entry
<1>2. data_q \in Seq(Entry) /\ data_q' = Append(data_q, e)
  BY DEF TypeOK, QueueOK, PushFrame
<1> HIDE DEF e
<1>3. /\ data_q' \in Seq(Entry)
      /\ Len(data_q') = Len(data_q) + 1
      /\ \A i \in 1 .. Len(data_q) : data_q'[i] = data_q[i]
      /\ data_q'[Len(data_q) + 1] = e
  BY <1>1, <1>2, AppendProperties
<1>4. DOMAIN data_q' = 1 .. Len(data_q) + 1
  BY <1>3, LenProperties
<1>5. QueuedBufs' = QueuedBufs \cup {imgBuf}
  BY <1>1, <1>3, <1>4, Queued DEF QueuedBufs
<1> QED
  BY <1>1, <1>3, <1>4, <1>5, Queued DEF e

(* What a pop does to the queue.                                             *)
LEMMA Popped ==
  ASSUME TypeOK, PopFrame
  PROVE  /\ Len(data_q) >= 1
         /\ cur' = data_q[1] /\ cur' \in Entry
         /\ Len(data_q') = Len(data_q) - 1
         /\ DOMAIN data_q' = 1 .. Len(data_q) - 1
         /\ \A i \in DOMAIN data_q' : i + 1 \in DOMAIN data_q /\ data_q'[i] = data_q[i + 1]
<1>1. data_q \in Seq(Entry) /\ data_q # <<>> /\ data_q' = Tail(data_q) /\ cur' = Head(data_q)
  BY DEF TypeOK, QueueOK, PopFrame
<1>2. Len(data_q) >= 1
  BY <1>1, EmptySeq
<1>3. Head(data_q) = data_q[1] /\ data_q[1] \in Entry
  BY <1>1, <1>2, Queued
<1>4. /\ data_q' \in Seq(Entry) /\ Len(data_q') = Len(data_q) - 1
      /\ \A i \in 1 .. Len(data_q') : data_q'[i] = data_q[i + 1]
  BY <1>1, HeadTailProperties
<1>5. DOMAIN data_q' = 1 .. Len(data_q) - 1
  BY <1>4, LenProperties
<1> QED
  BY <1>1, <1>2, <1>3, <1>4, <1>5, Queued

(* buf_to_proc stays the set of queued buffers and the one expo holds, in    *)
(* each of its three critical sections and in both of data's loops.          *)
LEMMA TrackedStep == TypeOK /\ StopInv /\ TrackedInv /\ [Next]_vars => TrackedInv'
<1> SUFFICES ASSUME TypeOK, StopInv, TrackedInv, [Next]_vars PROVE TrackedInv'
  OBVIOUS
<1> USE PlacesTyped
<1>1. CASE ExpoNext
  <2>1. CASE ExpoPlain \/ StartExposure \/ ExposureOver \/ RingOverflow \/ FetchBegin \/ FetchDone \/ FetchFailed
    <3>1. UNCHANGED <<imgBuf, buf_to_proc, data_q>> /\ (Holding' <=> Holding)
      BY <2>1 DEF ExpoPlain, ExpoWaitCooling, ExpoExit, ExpoContinue, StartExposure,
        ExposureOver,
    ExpoLockRing, ExpoLockPush, ExpoLockDrop, ExpoLock, RingOverflow,
    FetchBegin, FetchDone, FetchFailed, CountLoad, CountStore,
        Holding, Move, Goto, Unlock, ringVars, queueVars
    <3> QED
      BY <3>1 DEF TrackedInv, QueuedBufs
  <2>2. CASE ClaimBuffer
    <3>1. ~Holding /\ Holding' /\ imgBuf' = buf_cur_pos /\ buf_cur_pos \notin buf_to_proc
          /\ buf_to_proc' = buf_to_proc \cup {buf_cur_pos} /\ UNCHANGED data_q
      BY <2>2 DEF ClaimBuffer, StillQueued, Holding, Goto
    <3> QED
      BY <3>1 DEF TrackedInv, QueuedBufs
  <2>3. CASE PushFrame
    <3>1. Holding /\ ~Holding' /\ UNCHANGED <<imgBuf, buf_to_proc>>
      BY <2>3 DEF PushFrame, Holding, Goto, ringVars
    <3>2. \A i \in DOMAIN data_q : data_q[i].buf # imgBuf
      BY <3>1 DEF TrackedInv, QueuedBufs
    <3> QED
      BY <2>3, <3>1, <3>2, Pushed, Queued DEF TrackedInv
  <2>4. CASE DropFrame
    <3>1. Holding /\ ~Holding' /\ UNCHANGED <<imgBuf, data_q>> /\ buf_to_proc' = buf_to_proc \ {imgBuf}
      BY <2>4 DEF DropFrame, Holding, Goto, ringVars
    <3> QED
      BY <3>1 DEF TrackedInv, QueuedBufs
  <2> QED
    BY <1>1, <2>1, <2>2, <2>3, <2>4 DEF ExpoNext, ExpoPlain
<1>2. CASE DataNext
  <2>1. UNCHANGED imgBuf /\ (Holding' <=> Holding)
    BY <1>2, DataKeeps DEF Holding, ringVars
  <2>2. CASE DataPick \/ DrainPick
    <3>1. PopFrame
      BY <2>2 DEF DataPick, DrainPick
    <3>2. buf_to_proc' = buf_to_proc \ {data_q[1].buf}
      BY <3>1, Popped DEF PopFrame
    <3>3. \A i, j \in DOMAIN data_q' : data_q'[i].buf = data_q'[j].buf => i = j
      BY <3>1, Popped, Queued DEF TrackedInv
    <3>4. QueuedBufs' = QueuedBufs \ {data_q[1].buf}
      <4>1. QueuedBufs' \subseteq QueuedBufs \ {data_q[1].buf}
        BY <3>1, Popped, Queued DEF TrackedInv, QueuedBufs
      <4>2. ASSUME NEW i \in DOMAIN data_q, i # 1 PROVE data_q[i].buf \in QueuedBufs'
        <5>1. i - 1 \in DOMAIN data_q' /\ data_q'[i - 1] = data_q[i]
          BY <4>2, <3>1, Popped, Queued
        <5> QED
          BY <5>1 DEF QueuedBufs
      <4> QED
        BY <4>1, <4>2 DEF QueuedBufs
    <3>5. data_q[1].buf \in QueuedBufs
      BY <3>1, Popped, Queued DEF QueuedBufs
    <3> QED
      BY <2>1, <3>2, <3>3, <3>4, <3>5 DEF TrackedInv
  <2>3. CASE UNCHANGED <<buf_to_proc, data_q>>
    BY <2>1, <2>3 DEF TrackedInv, QueuedBufs
  <2> QED
    BY <1>2, <2>2, <2>3 DEF DataNext, DataCheck, DataLock, DataEmpty, DataSave,
      SaveFailed,
    DrainRace, DrainSave, DrainEnd, SaveData,
      Move, queueVars
<1>3. CASE MainNext
  <2>1. Holding' <=> Holding
    BY <1>3 DEF Holding, MainNext, ExpoLoopStart, ExpoLoopWait, DataSavingWait,
      MonitorWait,
      Move, Goto, StopInv
  <2> QED
    BY <1>3, <2>1, MainKeeps DEF TrackedInv, QueuedBufs, queueVars, ringVars
<1>4. CASE Other
  BY <1>4, OtherStep DEF TrackedInv, QueuedBufs, queueVars, ringVars, Holding
<1> QED
  BY <1>1, <1>2, <1>3, <1>4, NextCases

(* Nothing lowers the stop flag.                                             *)
LEMMA FlagOnlyRises == TypeOK /\ [Next]_vars => th_expo_stop \subseteq th_expo_stop'
BY Framing DEF ExpoLoopWait, ExposureOver, FetchFailed, RingOverflow, HotplugStop,
  HotplugAlarm,
   TraceError, stopVars

(* How far the threads can have got, given who raised the stop flag.         *)
LEMMA StopInvStep == TypeOK /\ StopInv /\ [Next]_vars => StopInv'
<1> SUFFICES ASSUME TypeOK, StopInv, [Next]_vars PROVE StopInv'
  OBVIOUS
<1> USE PlacesTyped
<1>0. Stopping => Stopping'
  BY FlagOnlyRises DEF Stopping
<1>1. CASE ExpoNext
  <2>1. pc'["data"] = pc["data"] /\ pc'["main"] = pc["main"]
    BY <1>1, ExpoKeeps
  <2>2. CASE ExpoExit \/ RingOverflow
    BY <1>0, <2>1, <2>2 DEF StopInv, ExpoExit, RingOverflow, Move, Goto, stopVars
  <2>3. CASE ~(ExpoExit \/ RingOverflow)
    <3>1. /\ pc["expo"] \notin {"unborn", "done"} /\ pc'["expo"] # "unborn"
          /\ pc["expo"] = "check" => ~Stopping
          /\ th_expo_stop' \in {th_expo_stop, th_expo_stop \cup {"errors"}}
      BY <1>1, <2>3 DEF ExpoNext, ExpoWaitCooling, ExpoContinue, StartExposure,
        ExposureOver,
    ExpoLockRing, ExpoLockPush, ExpoLockDrop, ExpoLock, ClaimBuffer,
    FetchBegin, FetchDone, FetchFailed, PushFrame, DropFrame, CountLoad, CountStore,
        Move, Goto, TraceError, stopVars
    <3>2. "joined" \notin th_expo_stop /\ "overflow" \notin th_expo_stop
      BY <3>1 DEF StopInv, Stopping
    <3> QED
      BY <1>0, <2>1, <3>1, <3>2 DEF StopInv
  <2> QED
    BY <2>2, <2>3
<1>2. CASE DataNext
  <2>1. pc["data"] \in {"drain", "save_cached"} \/ pc'["data"] \notin {"drain", "save_cached", "done"} \/ Stopping
    BY <1>2 DEF DataNext, DataCheck, DataLock, DataEmpty, DataPick, DataSave,
      SaveFailed,
    DrainPick, DrainRace, DrainSave, DrainEnd, SaveData, PopFrame, Move, Goto
  <2> QED
    BY <1>0, <1>2, <2>1, DataKeeps DEF StopInv
<1>3. CASE MainNext
  BY <1>0, <1>3, MainKeeps DEF StopInv, MainNext, ExpoLoopStart, ExpoLoopWait,
    DataSavingWait,
    MonitorWait, Move, Goto, stopVars
<1>4. CASE Other
  BY <1>0, <1>4, OtherStep DEF StopInv
<1> QED
  BY <1>1, <1>2, <1>3, <1>4, NextCases

(* What can be left in the queue once the saving thread has ended.           *)
LEMMA DoneInvStep == TypeOK /\ StopInv /\ DoneInv /\ [Next]_vars => DoneInv'
<1> SUFFICES ASSUME TypeOK, StopInv, DoneInv, [Next]_vars, pc'["data"] = "done"
             PROVE  /\ Len(data_q') <= 1
                    /\ data_q' # <<>> => pc'["expo"] \in {"count", "count_store", "check", "done"}
                    /\ th_expo_stop' \cap {"errors", "hotplug"} = {} => data_q' = <<>>
  BY DEF DoneInv
<1> USE PlacesTyped
<1>1. CASE ExpoNext
  <2>1. pc["data"] = "done" /\ Stopping
    BY <1>1, ExpoKeeps DEF StopInv
  <2>2. CASE PushFrame
    <3>1. data_q = <<>> /\ pc["expo"] = "push" /\ pc'["expo"] = "count" /\ UNCHANGED th_expo_stop
      BY <2>1, <2>2 DEF DoneInv, PushFrame, Goto, stopVars
    <3>2. th_expo_stop \cap {"errors", "hotplug"} # {}
      BY <2>1, <3>1 DEF StopInv, Stopping, TypeOK, StopOK
    <3>3. Len(data_q') = 1
      BY <2>2, <3>1, Pushed, Queued
    <3> QED
      BY <3>1, <3>2, <3>3
  <2>3. CASE ~PushFrame
    <3>1. UNCHANGED data_q
      BY <1>1, <2>3 DEF ExpoNext, ExpoWaitCooling, ExpoExit, ExpoContinue,
        StartExposure, ExposureOver,
    ExpoLockRing, ExpoLockPush, ExpoLockDrop, ExpoLock, ClaimBuffer, RingOverflow,
    FetchBegin, FetchDone, FetchFailed, DropFrame, CountLoad, CountStore, Move,
    queueVars
    <3>2. pc["expo"] \in {"count", "count_store", "check", "done"}
            => pc'["expo"] \in {"count", "count_store", "check", "done"}
      BY <1>1, <2>1, <2>3 DEF ExpoNext, ExpoWaitCooling, ExpoExit, ExpoContinue,
        StartExposure, ExposureOver,
    ExpoLockRing, ExpoLockPush, ExpoLockDrop, ExpoLock, ClaimBuffer, RingOverflow,
    FetchBegin, FetchDone, FetchFailed, DropFrame, CountLoad, CountStore, Move, Goto
    <3> QED
      BY <2>1, <3>1, <3>2, FlagOnlyRises DEF DoneInv
  <2> QED
    BY <2>2, <2>3
<1>2. CASE DataNext
  <2>1. data_q' = <<>>
    BY <1>2 DEF DataNext, DataCheck, DataLock, DataEmpty, DataPick, DataSave,
      SaveFailed,
    DrainPick, DrainRace, DrainSave, DrainEnd, SaveData, PopFrame, Move, Goto, queueVars
  <2> QED
    BY <2>1
<1>3. CASE MainNext
  BY <1>3, MainKeeps, FlagOnlyRises DEF DoneInv, MainNext, ExpoLoopStart, ExpoLoopWait,
    DataSavingWait, MonitorWait, Move, Goto, queueVars, StopInv
<1>4. CASE Other
  BY <1>4, OtherStep, FlagOnlyRises DEF DoneInv, queueVars
<1> QED
  BY <1>1, <1>2, <1>3, <1>4, NextCases

(* A queued buffer keeps its image: expo only writes to the one it holds.    *)
LEMMA IntactStep ==
  TypeOK /\ StopInv /\ TrackedInv /\ IntactInv /\ [Next]_vars => IntactInv'
<1> SUFFICES ASSUME TypeOK, StopInv, TrackedInv, IntactInv, [Next]_vars PROVE IntactInv'
  OBVIOUS
<1> USE PlacesTyped
<1>1. CASE ExpoNext
  <2>1. CASE FetchBegin \/ FetchDone
    <3>1. /\ Holding /\ UNCHANGED <<imgBuf, data_q, frame>> /\ pc'["expo"] \in {"fetching", "lock_push"}
          /\ \A b \in Buffers : b # imgBuf => content'[b] = content[b]
          /\ FetchDone => content'[imgBuf] = frame
          /\ FetchBegin => pc'["expo"] = "fetching"
      BY <2>1 DEF FetchBegin, FetchDone, Goto, Holding, queueVars, camVars, TypeOK,
        RingOK
    <3>2. \A i \in DOMAIN data_q : data_q[i].buf # imgBuf /\ data_q[i].buf \in Buffers
      BY <3>1, Queued DEF TrackedInv, QueuedBufs, Entry
    <3> QED
      BY <2>1, <3>1, <3>2 DEF IntactInv, QueuedIntact
  <2>2. CASE PushFrame
    <3>1. UNCHANGED content /\ content[imgBuf] = frame /\ pc'["expo"] = "count"
      BY <2>2 DEF PushFrame, Goto, ringVars, IntactInv
    <3> QED
      BY <2>2, <3>1, Pushed, Queued DEF IntactInv, QueuedIntact
  <2>3. CASE ~(FetchBegin \/ FetchDone \/ PushFrame)
    <3>1. /\ UNCHANGED <<content, data_q>>
          /\ pc'["expo"] \in {"lock_push", "push"}
                => pc["expo"] = "lock_push" /\ UNCHANGED <<imgBuf, frame>>
      BY <1>1, <2>3 DEF ExpoNext, ExpoWaitCooling, ExpoExit, ExpoContinue,
        StartExposure, ExposureOver,
    ExpoLockRing, ExpoLockPush, ExpoLockDrop, ExpoLock, ClaimBuffer, RingOverflow,
    FetchFailed, DropFrame, CountLoad, CountStore,
        Move, Goto, queueVars, ringVars, camVars
    <3> QED
      BY <3>1 DEF IntactInv, QueuedIntact
  <2> QED
    BY <2>1, <2>2, <2>3
<1>2. CASE DataNext
  <2>1. UNCHANGED <<content, imgBuf, frame>> /\ pc'["expo"] = pc["expo"]
    BY <1>2, DataKeeps DEF ringVars
  <2>2. CASE PopFrame
    BY <2>1, <2>2, Popped DEF IntactInv, QueuedIntact
  <2>3. CASE ~PopFrame
    <3>1. UNCHANGED data_q
      BY <1>2, <2>3 DEF DataNext, DataCheck, DataLock, DataEmpty, DataPick, DataSave,
        SaveFailed,
        DrainPick, DrainRace, DrainSave, DrainEnd, SaveData, Move, queueVars
    <3> QED
      BY <2>1, <3>1 DEF IntactInv, QueuedIntact
  <2> QED
    BY <2>2, <2>3
<1>3. CASE MainNext
  BY <1>3, MainKeeps DEF IntactInv, QueuedIntact, queueVars, ringVars, MainNext,
    ExpoLoopStart,
    ExpoLoopWait, DataSavingWait, MonitorWait, Move, Goto, StopInv
<1>4. CASE Other
  BY <1>4, OtherStep DEF IntactInv, QueuedIntact, queueVars, ringVars
<1> QED
  BY <1>1, <1>2, <1>3, <1>4, NextCases

(* The invariant holds initially.                                            *)
LEMMA IInvInit == Init => IInv
<1> SUFFICES ASSUME Init PROVE IInv
  OBVIOUS
<1>1. TypeOK
  BY TypeInit
<1>2. /\ pc["expo"] = "unborn" /\ pc["data"] = "top" /\ pc["main"] = "launch"
      /\ mtx_data = "none" /\ data_q = <<>> /\ buf_to_proc = {} /\ th_expo_stop = {}
  BY DEF Init, FirstPlaces, Threads, None
<1>3. MutexInv /\ StopInv /\ DoneInv
  BY <1>2 DEF MutexInv, StopInv, DoneInv
<1>4. TrackedInv /\ IntactInv
  BY <1>2 DEF TrackedInv, IntactInv, QueuedBufs, QueuedIntact, Holding
<1> QED
  BY <1>1, <1>3, <1>4 DEF IInv

(* Every step preserves the invariant.                                       *)
LEMMA IInvStep == IInv /\ [Next]_vars => IInv'
BY TypeStep, MutexStep, TrackedStep, IntactStep, StopInvStep, DoneInvStep DEF IInv

(* The inductive invariant of the pipeline.                                  *)
THEOREM Invariant == Spec => []IInv
BY IInvInit, IInvStep, PTL DEF Spec

(* The assertions of auto_expo.cpp 717 and 730 never fail, and a frame that  *)
(* waits in data_q still has the image its metadata names.                   *)
THEOREM QueueSafe == Spec => []QueuedSafe
<1>1. IInv => QueuedTracked
  BY DEF IInv, TrackedInv, QueuedTracked
<1>2. IInv => QueuedIntact
  BY DEF IInv, IntactInv
<1>3. IInv => QueuedSafe
  BY <1>1, <1>2 DEF QueuedSafe
<1> QED
  BY <1>3, Invariant, PTL

(* At most one captured frame is left unsaved when the threads end.          *)
THEOREM LossBounded == Spec => []AtMostOneLost
<1>1. IInv => AtMostOneLost
  BY DEF IInv, DoneInv, AtMostOneLost
<1> QED
  BY <1>1, Invariant, PTL

(* A camera that stops of itself leaves no captured frame unsaved.           *)
THEOREM SelfStopSafe == Spec => []SelfStopLosesNothing
<1>1. IInv => SelfStopLosesNothing
  BY DEF IInv, DoneInv, SelfStopLosesNothing
<1> QED
  BY <1>1, Invariant, PTL

-----------------------------------------------------------------------------
(* The ring *)

(* Division with remainder.                                                  *)
LEMMA DivMod == ASSUME NEW n \in Nat \ {0}, NEW a \in Nat
  PROVE a = n * (a \div n) + (a % n) /\ a \div n \in Int /\ a % n \in 0 .. n-1
OBVIOUS

(* The remainder of n q + r.                                                 *)
LEMMA ModIs == ASSUME NEW n \in Nat \ {0}, NEW q \in Int, NEW r \in 0 .. n-1
  PROVE (n * q + r) % n = r
OBVIOUS

(* Equal remainders are at least one divisor apart.                          *)
LEMMA ModApart == ASSUME NEW n \in Nat \ {0}, NEW a \in Nat, NEW b \in Nat, a < b, a % n = b % n
  PROVE b >= a + n
<1> DEFINE p == a \div n
           q == b \div n
           r == a % n
<1>1. a = n * p + r /\ b = n * q + r /\ p \in Int /\ q \in Int /\ r \in 0 .. n - 1
  BY DivMod
<1> HIDE DEF p, q, r
<1>2. n * p < n * q
  BY <1>1
<1>3. p < q
  BY <1>1, <1>2
<1>4. n * q >= n * (p + 1)
  BY <1>1, <1>3
<1>5. n * (p + 1) = n * p + n
  BY <1>1
<1> QED
  BY <1>1, <1>4, <1>5

(* One step round the ring, from a position or from a count.                 *)
LEMMA ModSucc == ASSUME NEW n \in Nat \ {0}, NEW a \in Nat
  PROVE ((a % n) + 1) % n = (a+1) % n
<1> DEFINE q == a \div n
           r == a % n
<1>1. a = n * q + r /\ q \in Int /\ r \in 0 .. n - 1
  BY DivMod
<1> HIDE DEF q, r
<1>2. CASE r + 1 < n
  <2>1. r + 1 \in 0 .. n - 1 /\ a + 1 = n * q + (r + 1) /\ r + 1 = n * 0 + (r + 1)
    BY <1>1, <1>2
  <2>2. (a + 1) % n = r + 1 
    BY <1>1, <2>1, ModIs
  <2>3. (r + 1) % n = r + 1
    BY <1>1, <1>2
  <2> QED BY <2>2, <2>3 DEF r
<1>3. CASE r + 1 = n
  <2>1. a + 1 = n * (q + 1) + 0 /\ q + 1 \in Int /\ 0 \in 0 .. n - 1
    BY <1>1, <1>3
  <2>2. (a + 1) % n = 0
    BY <2>1, ModIs
  <2>3. (r + 1) % n = 0
    BY <1>3
  <2> QED BY <2>2, <2>3 DEF r
<1> QED BY <1>1, <1>2, <1>3

(* One lap back is the same position.                                        *)
LEMMA ModLap == ASSUME NEW n \in Nat \ {0}, NEW a \in Nat, a >= n
  PROVE (a - n) % n = a % n
<1> DEFINE q == a \div n
           r == a % n
<1>1. a = n * q + r /\ q \in Int /\ r \in 0 .. n - 1
  BY DivMod
<1> HIDE DEF q, r
<1>2. a - n = n * (q - 1) + r
  BY <1>1
<1>3. q - 1 \in Int
  BY <1>1
<1>4. (n * (q - 1) + r) % n = r
  BY <1>1, <1>3, ModIs
<1> QED
  BY <1>2, <1>4 DEF r

(* An exposure has begun and has no buffer yet.                              *)
BeforeClaim == pc["expo"] \in {"wait", "lock_ring", "ring"}

(* The number k of a frame is known already: it is below that of an exposure *)
(* whose frame is still to be queued.                                        *)
Past(k) == 0 < k /\ k <= frame /\ (BeforeClaim \/ Holding => k < frame)
InPlace(e) == e.buf = (e.id - 1) % NBuf

(* Positions in the ring follow the number of exposures.                     *)
PositionInv ==
  /\ BeforeClaim => frame > 0 /\ buf_cur_pos = (frame - 1) % NBuf
  /\ ~BeforeClaim => buf_cur_pos = frame % NBuf
  /\ Holding => frame > 0 /\ imgBuf = (frame - 1) % NBuf
  /\ frame <= MaxFrames
  /\ pc["expo"] = "start" => frame < MaxFrames

(* Queued frames and the one being saved sit where their number puts them.   *)
EntryInv ==
  /\ \A i \in DOMAIN data_q : Past(data_q[i].id) /\ InPlace(data_q[i])
  /\ Saving => Past(cur.id) /\ InPlace(cur)
  /\ \A i \in DOMAIN saved : Past(saved[i].id)

(* OnlyLappedFramesTorn, in the form the induction needs.                    *)
LapInv == Saving => content[cur.buf] = cur.id \/ frame >= cur.id + NBuf

(* The queue is in order and, until it overflows, spans less than one lap.   *)
WindowInv ==
  /\ \A i, j \in DOMAIN data_q : i < j => data_q[i].id < data_q[j].id
  /\ BeforeClaim => \A i \in DOMAIN data_q : data_q[i].id >= frame - NBuf
  /\ ~BeforeClaim /\ "overflow" \notin th_expo_stop =>
       \A i \in DOMAIN data_q : data_q[i].id > frame - NBuf

(* _buf_cur_pos and imgBuf follow the number of exposures, failed and        *)
(* abandoned ones included: gen_buff is called once for each.                *)
LEMMA PositionStep == TypeOK /\ StopInv /\ PositionInv /\ [Next]_vars => PositionInv'
<1> SUFFICES ASSUME TypeOK, StopInv, PositionInv, [Next]_vars PROVE PositionInv'
  OBVIOUS
<1> USE PlacesTyped, NBufAssumption, BoundAssumption
<1>0. frame \in Nat
  BY DEF TypeOK, CamOK
<1>1. CASE ExpoNext
  <2>1. CASE StartExposure
    <3>1. /\ pc["expo"] = "start" /\ pc'["expo"] = "wait" /\ frame' = frame + 1
          /\ UNCHANGED <<buf_cur_pos, imgBuf>>
      BY <2>1 DEF StartExposure, Goto, ringVars
    <3>2. frame' - 1 = frame
      BY <1>0, <3>1
    <3> QED
      BY <1>0, <3>1, <3>2 DEF PositionInv, BeforeClaim, Holding
  <2>2. CASE ClaimBuffer \/ RingOverflow
    <3>1. /\ pc["expo"] = "ring" /\ pc'["expo"] \in {"fetch", "check"} /\ UNCHANGED frame
          /\ buf_cur_pos' = (buf_cur_pos + 1) % NBuf
          /\ ClaimBuffer => imgBuf' = buf_cur_pos
          /\ RingOverflow => pc'["expo"] = "check"
      BY <2>2 DEF ClaimBuffer, RingOverflow, GenBuff, Goto, camVars
    <3>2. frame > 0 /\ buf_cur_pos = (frame - 1) % NBuf
      BY <3>1 DEF PositionInv, BeforeClaim
    <3>3. frame - 1 \in Nat /\ (frame - 1) + 1 = frame
      BY <1>0, <3>2
    <3>4. buf_cur_pos' = frame % NBuf
      BY <3>1, <3>2, <3>3, ModSucc
    <3>5. ~BeforeClaim' /\ pc'["expo"] # "start" /\ (Holding' => ClaimBuffer)
      BY <2>2, <3>1 DEF BeforeClaim, Holding
    <3> QED
      BY <3>1, <3>2, <3>4, <3>5 DEF PositionInv
  <2>3. CASE ~(StartExposure \/ ClaimBuffer \/ RingOverflow)
    <3>1. /\ UNCHANGED <<frame, buf_cur_pos, imgBuf>>
          /\ BeforeClaim' <=> BeforeClaim
          /\ Holding' => Holding
          /\ pc'["expo"] = "start" => frame < MaxFrames
      BY <1>1, <2>3 DEF ExpoNext, ExpoWaitCooling, ExpoExit, ExpoContinue, ExposureOver,
        ExpoLockRing,
    ExpoLockPush, ExpoLockDrop, ExpoLock, FetchBegin, FetchDone,
    FetchFailed, PushFrame, DropFrame, CountLoad, CountStore,
        Move, Goto, camVars, ringVars, BeforeClaim, Holding
    <3> QED
      BY <3>1 DEF PositionInv
  <2> QED
    BY <2>1, <2>2, <2>3
<1>2. CASE DataNext
  BY <1>2, DataKeeps DEF PositionInv, BeforeClaim, Holding, ringVars
<1>3. CASE MainNext
  BY <1>3, MainKeeps DEF PositionInv, BeforeClaim, Holding, ringVars, MainNext,
    ExpoLoopStart,
    ExpoLoopWait, DataSavingWait, MonitorWait, Move, Goto, StopInv
<1>4. CASE Other
  BY <1>4, OtherStep DEF PositionInv, BeforeClaim, Holding, ringVars
<1> QED
  BY <1>1, <1>2, <1>3, <1>4, NextCases

(* Nothing makes a frame that is past present again.                         *)
LEMMA PastStays ==
  ASSUME TypeOK, StopInv, [Next]_vars, NEW k \in Nat, Past(k)
  PROVE  Past(k)'
<1> USE PlacesTyped
<1>0. frame \in Nat
  BY DEF TypeOK, CamOK
<1>1. CASE ExpoNext
  <2>1. CASE StartExposure
    BY <1>0, <2>1 DEF StartExposure, Past
  <2>2. CASE ~StartExposure
    <3>1. UNCHANGED frame /\ ((BeforeClaim \/ Holding)' => (BeforeClaim \/ Holding))
      BY <1>1, <2>2 DEF ExpoNext, ExpoWaitCooling, ExpoExit, ExpoContinue, ExposureOver,
        ExpoLockRing,
    ExpoLockPush, ExpoLockDrop, ExpoLock, ClaimBuffer, RingOverflow,
    FetchBegin, FetchDone, FetchFailed, PushFrame, DropFrame, CountLoad,
    CountStore,
        Move, Goto, camVars, BeforeClaim, Holding
    <3> QED
      BY <3>1 DEF Past
  <2> QED
    BY <2>1, <2>2
<1>2. CASE DataNext
  BY <1>2, DataKeeps DEF Past, BeforeClaim, Holding
<1>3. CASE MainNext
  BY <1>3, MainKeeps DEF Past, BeforeClaim, Holding, MainNext, ExpoLoopStart,
    ExpoLoopWait, DataSavingWait, MonitorWait, Move, Goto, StopInv
<1>4. CASE Other
  BY <1>4, OtherStep DEF Past, BeforeClaim, Holding
<1> QED
  BY <1>1, <1>2, <1>3, <1>4, NextCases

(* What a step does to the queue: nothing, a push at its end, or a pop.      *)
LEMMA QueueCases == TypeOK /\ [Next]_vars => UNCHANGED data_q \/ PushFrame \/ PopFrame
BY Framing DEF ExpoLockRing, ExpoLockPush, ExpoLockDrop, ExpoLock, ClaimBuffer,
  RingOverflow,
   DropFrame, DataLock, DataEmpty, DataPick, DrainPick, queueVars

(* Likewise for the files, and for the entry being saved.                    *)
LEMMA SaveCases ==
  ASSUME TypeOK, [Next]_vars
  PROVE  \/ UNCHANGED saved /\ (Saving' => Saving /\ UNCHANGED cur)
         \/ UNCHANGED saved /\ PopFrame
         \/ /\ Saving /\ ~Saving' /\ UNCHANGED data_q
            /\ saved' = Append(saved, [id |-> cur.id, img |-> content[cur.buf]])
<1> USE PlacesTyped
<1>1. CASE ExpoNext
  BY <1>1, ExpoKeeps DEF Saving, saveVars
<1>2. CASE DataNext
  BY <1>2 DEF DataNext, DataCheck, DataLock, DataEmpty, DataPick, DataSave, SaveFailed,
    DrainPick, DrainRace, DrainSave, DrainEnd, SaveData,
    Move, Goto, saveVars, queueVars, Saving
<1>3. CASE MainNext
  BY <1>3, MainKeeps DEF Saving, saveVars
<1>4. CASE Other
  BY <1>4, OtherStep DEF Saving, saveVars
<1> QED
  BY <1>1, <1>2, <1>3, <1>4, NextCases

(* Where expo is around a push.                                              *)
LEMMA PushPlaces ==
  ASSUME TypeOK, PositionInv, PushFrame
  PROVE  /\ ~BeforeClaim' /\ ~Holding' /\ Holding /\ UNCHANGED frame
         /\ Past(frame)' /\ imgBuf = (frame - 1) % NBuf
BY PlacesTyped DEF TypeOK, CamOK, PositionInv, PushFrame, Goto, BeforeClaim, Holding,
  Past, camVars

(* What writing a file does to the sequence of files.                        *)
LEMMA SavedFile ==
  ASSUME TypeOK, NEW k \in Nat, NEW x \in Nat, saved' = Append(saved, [id |-> k, img |-> x])
  PROVE  /\ DOMAIN saved' = 1 .. Len(saved) + 1 /\ DOMAIN saved = 1 .. Len(saved)
         /\ Len(saved) \in Nat
         /\ \A i \in DOMAIN saved : saved'[i] = saved[i]
         /\ saved'[Len(saved) + 1].id = k
<1> DEFINE f == [id |-> k, img |-> x]
<1>1. f \in File /\ saved \in Seq(File) /\ saved' = Append(saved, f) /\ f.id = k
  BY DEF TypeOK, SaveOK, File
<1> HIDE DEF f
<1>2. /\ saved' \in Seq(File) /\ Len(saved') = Len(saved) + 1
      /\ \A i \in 1 .. Len(saved) : saved'[i] = saved[i]
      /\ saved'[Len(saved) + 1] = f
  BY <1>1, AppendProperties
<1> QED
  BY <1>1, <1>2, LenProperties

(* Every frame queued, being saved or saved is past, and sits where its      *)
(* exposure's number says.                                                   *)
LEMMA EntryStep ==
  TypeOK /\ StopInv /\ PositionInv /\ EntryInv /\ [Next]_vars => EntryInv'
<1> SUFFICES ASSUME TypeOK, StopInv, PositionInv, EntryInv, [Next]_vars PROVE EntryInv'
  OBVIOUS
<1>1. \A k \in Nat : Past(k) => Past(k)'
  BY PastStays
<1>2. \A i \in DOMAIN data_q' : Past(data_q[i].id)' /\ InPlace(data_q[i])'
  <2>0. \A i \in DOMAIN data_q : data_q[i].id \in Nat
    BY Queued DEF Entry
  <2>1. CASE UNCHANGED data_q
    BY <1>1, <2>0, <2>1 DEF EntryInv, InPlace, Past
  <2>2. CASE PushFrame
    <3>1. \A i \in DOMAIN data_q : Past(data_q[i].id)' /\ InPlace(data_q[i])'
      BY <1>1, <2>0, <2>2, Pushed DEF EntryInv, InPlace, Past
    <3>2. Past(data_q[Len(data_q)].id)' /\ InPlace(data_q[Len(data_q)])'
      BY <2>2, Pushed, PushPlaces DEF Past, InPlace
    <3> QED
      BY <2>2, <3>1, <3>2, Pushed, Queued
  <2>3. CASE PopFrame
    BY <1>1, <2>0, <2>3, Popped DEF EntryInv, InPlace, Past
  <2> QED
    BY <2>1, <2>2, <2>3, QueueCases
<1>3. Saving' => Past(cur.id)' /\ InPlace(cur)'
  <2>1. CASE PopFrame
    <3>1. cur' = data_q[1] /\ 1 \in DOMAIN data_q /\ data_q[1].id \in Nat
      BY <2>1, Popped, Queued DEF Entry
    <3> QED
      BY <1>1, <3>1 DEF EntryInv, InPlace, Past
  <2>2. CASE Saving' => Saving /\ UNCHANGED cur
    <3>1. cur.id \in Nat
      BY DEF TypeOK, SaveOK, Entry
    <3> QED
      BY <1>1, <2>2, <3>1 DEF EntryInv, InPlace, Past
  <2> QED
    BY <2>1, <2>2, SaveCases
<1>4. \A i \in DOMAIN saved' : Past(saved[i].id)'
  <2>0. \A i \in DOMAIN saved : saved[i].id \in Nat
    <3>1. \A i \in DOMAIN saved : saved[i] \in File
      BY LenProperties, ElementOfSeq DEF TypeOK, SaveOK
    <3> QED
      BY <3>1 DEF File
  <2>1. CASE UNCHANGED saved
    BY <1>1, <2>0, <2>1 DEF EntryInv, Past
  <2>2. CASE Saving /\ saved' = Append(saved, [id |-> cur.id, img |-> content[cur.buf]])
    <3>1. cur.id \in Nat /\ content[cur.buf] \in Nat
      BY DEF TypeOK, SaveOK, RingOK, Entry
    <3>2. PICK k \in Nat, x \in Nat : k = cur.id /\ x = content[cur.buf]
      BY <3>1
    <3>3. saved' = Append(saved, [id |-> k, img |-> x])
      BY <2>2, <3>2
    <3>4. Past(k)'
      BY <1>1, <2>2, <3>2 DEF EntryInv
    <3>5. \A i \in DOMAIN saved : Past(saved[i].id)'
      BY <1>1, <2>0, <3>3, SavedFile DEF EntryInv, Past
    <3>6. Past(saved[Len(saved)].id)'
      BY <3>3, <3>4, SavedFile DEF Past
    <3> QED
      BY <3>3, <3>5, <3>6, SavedFile
  <2> QED
    BY <2>1, <2>2, SaveCases
<1> QED
  BY <1>2, <1>3, <1>4 DEF EntryInv

(* The frame being saved is only overwritten by an exposure one lap later.   *)
LEMMA LapStep ==
  IInv /\ PositionInv /\ EntryInv /\ LapInv /\ [Next]_vars => LapInv'
<1> SUFFICES ASSUME IInv, PositionInv, EntryInv, LapInv, [Next]_vars, Saving'
             PROVE  content'[cur'.buf] = cur'.id \/ frame' >= cur'.id + NBuf
  BY DEF LapInv
<1>0. TypeOK /\ StopInv /\ IntactInv /\ frame \in Nat /\ NBuf \in Nat \ {0}
  BY NBufAssumption DEF IInv, TypeOK, CamOK
<1> USE PlacesTyped, <1>0
<1>1. CASE ExpoNext
  <2>1. Saving /\ UNCHANGED cur /\ cur.id \in Nat /\ cur.buf \in Buffers
    BY <1>1, ExpoKeeps DEF Saving, saveVars, TypeOK, SaveOK, Entry
  <2>2. CASE FetchBegin \/ FetchDone
    <3>1. /\ Holding /\ UNCHANGED frame
          /\ \A b \in Buffers : b # imgBuf => content'[b] = content[b]
      BY <2>2 DEF FetchBegin, FetchDone, Goto, Holding, camVars, TypeOK, RingOK
    <3>2. CASE cur.buf # imgBuf
      BY <2>1, <3>1, <3>2 DEF LapInv
    <3>3. CASE cur.buf = imgBuf
      <4>1. /\ 0 < cur.id /\ cur.id < frame
            /\ (cur.id - 1) % NBuf = (frame - 1) % NBuf
        BY <2>1, <3>1, <3>3 DEF EntryInv, Past, InPlace, PositionInv
      <4>2. cur.id - 1 \in Nat /\ frame - 1 \in Nat /\ cur.id - 1 < frame - 1
        BY <2>1, <4>1
      <4>3. frame - 1 >= (cur.id - 1) + NBuf
        BY <4>1, <4>2, ModApart
      <4> QED
        BY <2>1, <3>1, <4>3
    <3> QED
      BY <3>2, <3>3
  <2>3. CASE ~(FetchBegin \/ FetchDone)
    <3>1. UNCHANGED content /\ frame' \in {frame, frame + 1}
      BY <1>1, <2>3 DEF ExpoNext, ExpoWaitCooling, ExpoExit, ExpoContinue,
        StartExposure, ExposureOver,
    ExpoLockRing, ExpoLockPush, ExpoLockDrop, ExpoLock, ClaimBuffer,
    RingOverflow, FetchFailed, PushFrame, DropFrame, CountLoad,
    CountStore,
        Move, camVars, ringVars
    <3> QED
      BY <2>1, <3>1 DEF LapInv
  <2> QED
    BY <2>2, <2>3
<1>2. CASE ~ExpoNext
  <2>1. UNCHANGED <<content, frame>>
    BY <1>2, NextCases, DataKeeps, MainKeeps, OtherStep DEF ringVars
  <2>2. CASE PopFrame
    BY <2>1, <2>2, Popped, Queued DEF IntactInv, QueuedIntact
  <2>3. CASE Saving /\ UNCHANGED cur
    BY <2>1, <2>3 DEF LapInv
  <2> QED
    BY <2>2, <2>3, SaveCases
<1> QED
  BY <1>1, <1>2

(* The buffer at the ring's position can only be that of the frame taken     *)
(* NBuf exposures ago.                                                       *)
LEMMA SamePlace ==
  ASSUME TypeOK, PositionInv, EntryInv, WindowInv, BeforeClaim, NEW i \in DOMAIN data_q
  PROVE  data_q[i].buf = buf_cur_pos <=> data_q[i].id = frame - NBuf
<1> DEFINE k == data_q[i].id
<1>1. /\ k \in Nat /\ frame \in Nat /\ NBuf \in Nat \ {0} /\ 0 < k /\ k < frame
      /\ k >= frame - NBuf /\ data_q[i].buf = (k - 1) % NBuf
      /\ buf_cur_pos = (frame - 1) % NBuf
  BY Queued, NBufAssumption DEF TypeOK, CamOK, Entry, EntryInv, Past, InPlace,
    WindowInv, PositionInv
<1> HIDE DEF k
<1>2. k - 1 \in Nat /\ frame - 1 \in Nat /\ k - 1 < frame - 1
  BY <1>1
<1>3. ASSUME (k - 1) % NBuf = (frame - 1) % NBuf PROVE k = frame - NBuf
  <2>1. frame - 1 >= (k - 1) + NBuf
    BY <1>1, <1>2, <1>3, ModApart
  <2> QED
    BY <1>1, <2>1
<1>4. ASSUME k = frame - NBuf PROVE (k - 1) % NBuf = (frame - 1) % NBuf
  <2>1. frame - 1 >= NBuf /\ (frame - 1) - NBuf = k - 1
    BY <1>1, <1>2, <1>4
  <2>2. ((frame - 1) - NBuf) % NBuf = (frame - 1) % NBuf
    BY <1>1, <1>2, <2>1, ModLap
  <2> QED
    BY <2>1, <2>2
<1> QED
  BY <1>1, <1>3, <1>4 DEF k

(* The queue stays in order, within one lap.                                 *)
LEMMA WindowStep ==
  IInv /\ PositionInv /\ EntryInv /\ WindowInv /\ [Next]_vars => WindowInv'
<1> SUFFICES ASSUME IInv, PositionInv, EntryInv, WindowInv, [Next]_vars PROVE WindowInv'
  OBVIOUS
<1>0. /\ TypeOK /\ StopInv /\ TrackedInv /\ frame \in Nat /\ NBuf \in Nat \ {0}
      /\ \A i \in DOMAIN data_q : data_q[i].id \in Nat
  BY NBufAssumption, Queued DEF IInv, TypeOK, CamOK, Entry
<1> USE PlacesTyped, <1>0
<1>1. CASE ExpoNext
  <2>1. CASE StartExposure
    <3>1. /\ pc["expo"] = "start" /\ ~BeforeClaim /\ BeforeClaim' /\ UNCHANGED data_q
          /\ frame' = frame + 1
      BY <2>1 DEF StartExposure, Goto, BeforeClaim, queueVars
    <3>2. "overflow" \notin th_expo_stop
      BY <3>1 DEF StopInv
    <3> QED
      BY <3>1, <3>2 DEF WindowInv
  <2>2. CASE ClaimBuffer
    <3>1. /\ BeforeClaim /\ ~BeforeClaim' /\ ~Holding /\ buf_cur_pos \notin buf_to_proc
          /\ UNCHANGED <<data_q, frame>>
      BY <2>2 DEF ClaimBuffer, StillQueued, Goto, BeforeClaim, Holding, camVars
    <3>2. \A i \in DOMAIN data_q : data_q[i].buf # buf_cur_pos
      BY <3>1 DEF TrackedInv, QueuedBufs
    <3>3. \A i \in DOMAIN data_q : data_q[i].id # frame - NBuf /\ data_q[i].id >= frame - NBuf
      BY <3>1, <3>2, SamePlace DEF WindowInv
    <3> QED
      BY <3>1, <3>3 DEF WindowInv
  <2>3. CASE RingOverflow
    <3>1. /\ ~BeforeClaim' /\ UNCHANGED data_q /\ "overflow" \in th_expo_stop'
      BY <2>3 DEF RingOverflow, Goto, BeforeClaim
    <3> QED
      BY <3>1 DEF WindowInv
  <2>4. CASE PushFrame
    <3>1. ~BeforeClaim /\ ~BeforeClaim' /\ UNCHANGED <<frame, th_expo_stop>>
      BY <2>4, PushPlaces DEF PushFrame, Goto, BeforeClaim, stopVars
    <3>2. \A i \in DOMAIN data_q : data_q[i].id < frame
      BY <2>4, PushPlaces DEF EntryInv, Past
    <3> QED
      BY <2>4, <3>1, <3>2, Pushed, Queued, SMTT(40) DEF WindowInv
  <2>5. CASE ~(StartExposure \/ ClaimBuffer \/ RingOverflow \/ PushFrame)
    <3>1. UNCHANGED <<frame, data_q>> /\ (BeforeClaim' <=> BeforeClaim)
      BY <1>1, <2>5 DEF ExpoNext, ExpoWaitCooling, ExpoExit, ExpoContinue, ExposureOver,
        ExpoLockRing,
    ExpoLockPush, ExpoLockDrop, ExpoLock, FetchBegin, FetchDone,
    FetchFailed, DropFrame, CountLoad, CountStore,
        Move, Goto, camVars, queueVars, BeforeClaim
    <3> QED
      BY <3>1, FlagOnlyRises DEF WindowInv
  <2> QED
    BY <2>1, <2>2, <2>3, <2>4, <2>5
<1>2. CASE ~ExpoNext
  <2>1. UNCHANGED frame /\ (BeforeClaim' <=> BeforeClaim)
    BY <1>2, NextCases, DataKeeps, MainKeeps, OtherStep DEF BeforeClaim, MainNext,
      ExpoLoopStart, ExpoLoopWait, DataSavingWait, MonitorWait, Move, Goto, StopInv
  <2>2. CASE PopFrame
    BY <2>1, <2>2, Popped, FlagOnlyRises DEF WindowInv
  <2>3. CASE UNCHANGED data_q
    BY <2>1, <2>3, FlagOnlyRises DEF WindowInv
  <2> QED
    BY <1>2, <2>2, <2>3, QueueCases DEF ExpoNext
<1> QED
  BY <1>1, <1>2

(* The inductive invariant behind the ring and refinement theorems.          *)
RInv == IInv /\ PositionInv /\ EntryInv /\ LapInv /\ WindowInv

(* The invariant holds initially.                                            *)
LEMMA RInvInit == Init => RInv
<1> SUFFICES ASSUME Init PROVE RInv
  OBVIOUS
<1>1. /\ pc["expo"] = "unborn" /\ pc["data"] = "top" /\ data_q = <<>> /\ saved = <<>>
      /\ frame = 0 /\ buf_cur_pos = 0
  BY DEF Init, FirstPlaces, Threads
<1>2. 0 % NBuf = 0 /\ 0 <= MaxFrames
  BY NBufAssumption, BoundAssumption
<1> QED
  BY <1>1, <1>2, IInvInit DEF RInv, PositionInv, EntryInv, LapInv, WindowInv,
    BeforeClaim, Holding,
    Saving

(* Every step preserves the invariant.                                       *)
LEMMA RInvStep == RInv /\ [Next]_vars => RInv'
BY IInvStep, PositionStep, EntryStep, LapStep, WindowStep DEF RInv, IInv

(* The inductive invariant of the ring.                                      *)
THEOREM RingInvariant == Spec => []RInv
BY RInvInit, RInvStep, PTL DEF Spec

(* A frame being saved is torn only if NBuf more exposures have begun.       *)
THEOREM TornOnlyIfLapped == Spec => []OnlyLappedFramesTorn
<1>1. RInv => OnlyLappedFramesTorn
  BY DEF RInv, LapInv, OnlyLappedFramesTorn
<1> QED
  BY <1>1, RingInvariant, PTL

(* The overflow stop is raised only when the ring is really full of frames   *)
(* that wait.                                                                *)
THEOREM OverflowJustified == Spec => OverflowOnlyWhenLapped
<1>1. ASSUME RInv, RingOverflow
      PROVE  data_q # <<>> /\ Head(data_q).id = frame - NBuf
  <2>0. /\ TypeOK /\ TrackedInv /\ PositionInv /\ EntryInv /\ WindowInv /\ frame \in Nat
        /\ NBuf \in Nat \ {0} /\ \A i \in DOMAIN data_q : data_q[i].id \in Nat
    BY <1>1, NBufAssumption, Queued DEF RInv, IInv, TypeOK, CamOK, Entry
  <2>1. BeforeClaim /\ ~Holding /\ buf_cur_pos \in buf_to_proc
    BY <1>1 DEF RingOverflow, StillQueued, Goto, BeforeClaim, Holding
  <2>2. PICK i \in DOMAIN data_q : data_q[i].buf = buf_cur_pos
    BY <2>0, <2>1 DEF TrackedInv, QueuedBufs
  <2>3. data_q[i].id = frame - NBuf
    BY <2>0, <2>1, <2>2, SamePlace
  <2>4. 1 \in DOMAIN data_q /\ i >= 1 /\ i \in Nat
    BY <2>0, <2>2, Queued
  <2>5. data_q[1].id >= frame - NBuf /\ (1 < i => data_q[1].id < data_q[i].id)
    BY <2>0, <2>1, <2>4 DEF WindowInv
  <2>6. i = 1
    BY <2>0, <2>3, <2>4, <2>5
  <2>7. data_q # <<>> /\ Head(data_q) = data_q[1]
    BY <2>0, <2>4, Queued DEF TypeOK, QueueOK
  <2> QED
    BY <2>3, <2>6, <2>7
<1>2. RInv /\ [Next]_vars => [RingOverflow => data_q # <<>> /\ Head(data_q).id = frame - NBuf]_vars
  BY <1>1
<1> QED
  BY <1>2, RingInvariant, PTL DEF Spec, OverflowOnlyWhenLapped

-----------------------------------------------------------------------------
(* FrameStore *)

(* The frame the saving thread holds, as the first of the pending ones.      *)
HeldIds == IF Saving THEN <<cur.id>> ELSE <<>>

(* Ids maps a sequence of frames to the sequence of their numbers.           *)
LEMMA IdsSeq ==
  ASSUME NEW S, NEW s \in Seq(S), \A e \in S : e.id \in Nat
  PROVE  /\ Ids(s) \in Seq(Nat) /\ Len(Ids(s)) = Len(s)
         /\ DOMAIN Ids(s) = 1 .. Len(s)
         /\ \A i \in 1 .. Len(s) : Ids(s)[i] = s[i].id
<1>1. Len(s) \in Nat /\ DOMAIN s = 1 .. Len(s) /\ \A i \in 1 .. Len(s) : s[i] \in S
  BY LenProperties, ElementOfSeq
<1>2. Ids(s) \in [1 .. Len(s) -> Nat] /\ \A i \in 1 .. Len(s) : Ids(s)[i] = s[i].id
  BY <1>1 DEF Ids
<1>3. Ids(s) \in Seq(Nat)
  BY <1>1, <1>2, SeqDef
<1>4. DOMAIN Ids(s) = 1 .. Len(s)
  BY <1>2
<1>5. Len(Ids(s)) = Len(s)
  BY <1>1, <1>3, <1>4, LenProperties
<1> QED
  BY <1>2, <1>3, <1>4, <1>5

(* Ids and Append commute.                                                   *)
LEMMA IdsAppend ==
  ASSUME NEW S, NEW s \in Seq(S), NEW e \in S, \A x \in S : x.id \in Nat
  PROVE  Ids(Append(s, e)) = Append(Ids(s), e.id)
<1> DEFINE a == Ids(Append(s, e))
           b == Append(Ids(s), e.id)
<1>1. /\ Append(s, e) \in Seq(S) /\ Len(Append(s, e)) = Len(s) + 1
      /\ \A i \in 1 .. Len(s) : Append(s, e)[i] = s[i]
      /\ Append(s, e)[Len(s) + 1] = e
      /\ Len(s) \in Nat
  BY AppendProperties, LenProperties
<1>2. /\ a \in Seq(Nat) /\ Len(a) = Len(s) + 1
      /\ \A i \in 1 .. Len(s) + 1 : a[i] = Append(s, e)[i].id
  BY <1>1, IdsSeq
<1>3. /\ Ids(s) \in Seq(Nat) /\ Len(Ids(s)) = Len(s) /\ e.id \in Nat
      /\ \A i \in 1 .. Len(s) : Ids(s)[i] = s[i].id
  BY IdsSeq
<1>4. /\ b \in Seq(Nat) /\ Len(b) = Len(s) + 1
      /\ \A i \in 1 .. Len(s) : b[i] = Ids(s)[i]
      /\ b[Len(s) + 1] = e.id
  BY <1>3, AppendProperties
<1> HIDE DEF a, b
<1>5. ASSUME NEW i \in 1 .. Len(s) + 1 PROVE a[i] = b[i]
  <2>1. CASE i \in 1 .. Len(s)
    <3>1. a[i] = s[i].id
      BY <1>1, <1>2, <2>1
    <3>2. b[i] = s[i].id
      BY <1>3, <1>4, <2>1
    <3> QED
      BY <3>1, <3>2
  <2>2. CASE i = Len(s) + 1
    BY <1>1, <1>2, <1>4, <2>2
  <2> QED
    BY <1>1, <2>1, <2>2
<1>6. a = b
  BY <1>1, <1>2, <1>4, <1>5, SeqEqual
<1> QED
  BY <1>6 DEF a, b

(* The number of the head, then the numbers of the tail.                     *)
LEMMA IdsTail ==
  ASSUME NEW S, NEW s \in Seq(S), s # <<>>, \A x \in S : x.id \in Nat
  PROVE  <<Head(s).id>> \o Ids(Tail(s)) = Ids(s)
<1> DEFINE h == <<Head(s).id>>
           t == Ids(Tail(s))
<1>1. /\ Head(s) \in S /\ Tail(s) \in Seq(S) /\ Len(Tail(s)) = Len(s) - 1
      /\ \A i \in 1 .. Len(Tail(s)) : Tail(s)[i] = s[i + 1]
      /\ Len(s) \in Nat \ {0} /\ Head(s) = s[1]
  BY HeadTailProperties, EmptySeq
<1>2. h \in Seq(Nat) /\ Len(h) = 1 /\ h[1] = s[1].id
  BY <1>1
<1>3. /\ t \in Seq(Nat) /\ Len(t) = Len(s) - 1
      /\ \A i \in 1 .. Len(s) - 1 : t[i] = s[i + 1].id
  <2> DEFINE u == Tail(s)
  <2>1. u \in Seq(S) /\ Len(u) = Len(s) - 1 /\ \A i \in 1 .. Len(u) : u[i] = s[i + 1]
    BY <1>1, SMTT(40)
  <2>2. /\ Ids(u) \in Seq(Nat) /\ Len(Ids(u)) = Len(u)
        /\ \A i \in 1 .. Len(u) : Ids(u)[i] = u[i].id
    BY <2>1, IdsSeq
  <2>3. \A i \in 1 .. Len(u) : Ids(u)[i] = s[i + 1].id
    BY <2>1, <2>2
  <2> QED
    BY <2>1, <2>2, <2>3
<1>4. /\ Ids(s) \in Seq(Nat) /\ Len(Ids(s)) = Len(s)
      /\ \A i \in 1 .. Len(s) : Ids(s)[i] = s[i].id
  BY IdsSeq
<1> HIDE DEF h, t
<1>5. /\ h \o t \in Seq(Nat) /\ Len(h \o t) = Len(s)
      /\ \A i \in 1 .. Len(s) : (h \o t)[i] = IF i <= 1 THEN h[i] ELSE t[i - 1]
  <2>1. Len(h) + Len(t) = Len(s)
    BY <1>1, <1>2, <1>3
  <2>2. /\ h \o t \in Seq(Nat) /\ Len(h \o t) = Len(h) + Len(t)
        /\ \A i \in 1 .. Len(h) + Len(t) : (h \o t)[i] =
             IF i <= Len(h) THEN h[i] ELSE t[i - Len(h)]
    BY <1>2, <1>3, ConcatProperties
  <2> QED
    BY <1>2, <2>1, <2>2
<1>6. \A i \in 1 .. Len(s) : (h \o t)[i] = Ids(s)[i]
  <2>1. ASSUME NEW i \in 1 .. Len(s), i > 1 PROVE (h \o t)[i] = s[i].id
    <3>1. i - 1 \in 1 .. Len(s) - 1 /\ (i - 1) + 1 = i
      BY <1>1, <2>1
    <3>2. t[i - 1] = s[i].id
      BY <1>3, <3>1
    <3> QED
      BY <1>5, <2>1, <3>2
  <2>2. 1 \in 1 .. Len(s) /\ (h \o t)[1] = s[1].id
    BY <1>1, <1>2, <1>5
  <2>3. ASSUME NEW i \in 1 .. Len(s) PROVE (h \o t)[i] = Ids(s)[i]
    <3>1. i = 1 \/ i > 1
      OBVIOUS
    <3>2. Ids(s)[i] = s[i].id
      BY <1>4
    <3> QED
      BY <2>1, <2>2, <3>1, <3>2
  <2> QED
    BY <2>3
<1>7. h \o t = Ids(s)
  BY <1>4, <1>5, <1>6, SeqEqual
<1> QED
  BY <1>7 DEF h, t

(* Taking the front off a sequence gives back both parts.                    *)
LEMMA HeadOfCons ==
  ASSUME NEW k \in Nat, NEW t \in Seq(Nat)
  PROVE  <<k>> \o t # <<>> /\ Head(<<k>> \o t) = k /\ Tail(<<k>> \o t) = t
OBVIOUS

(* Appending to the second of two sequences.                                 *)
LEMMA AppendBehind ==
  ASSUME NEW h \in Seq(Nat), NEW t \in Seq(Nat), NEW k \in Nat
  PROVE  h \o Append(t, k) = Append(h \o t, k)
OBVIOUS

(* The queue and the files as sequences of numbers.                          *)
LEMMA FrameIds ==
  ASSUME TypeOK
  PROVE  /\ data_q \in Seq(Entry) /\ Ids(data_q) \in Seq(Nat)
         /\ saved \in Seq(File) /\ Ids(saved) \in Seq(Nat)
         /\ cur \in Entry /\ cur.id \in Nat
         /\ \A e \in Entry : e.id \in Nat
         /\ \A f \in File : f.id \in Nat
         /\ DOMAIN Ids(data_q) = DOMAIN data_q /\ DOMAIN Ids(saved) = DOMAIN saved
         /\ \A i \in DOMAIN data_q : Ids(data_q)[i] = data_q[i].id
         /\ \A i \in DOMAIN saved : Ids(saved)[i] = saved[i].id
<1>1. data_q \in Seq(Entry) /\ saved \in Seq(File) /\ cur \in Entry
  BY DEF TypeOK, QueueOK, SaveOK
<1>2. (\A e \in Entry : e.id \in Nat) /\ (\A f \in File : f.id \in Nat)
  BY DEF Entry, File
<1>3. DOMAIN data_q = 1 .. Len(data_q) /\ DOMAIN saved = 1 .. Len(saved)
  BY <1>1, LenProperties
<1>4. /\ Ids(data_q) \in Seq(Nat) /\ DOMAIN Ids(data_q) = 1 .. Len(data_q)
      /\ \A i \in 1 .. Len(data_q) : Ids(data_q)[i] = data_q[i].id
  BY <1>1, <1>2, IdsSeq
<1>5. /\ Ids(saved) \in Seq(Nat) /\ DOMAIN Ids(saved) = 1 .. Len(saved)
      /\ \A i \in 1 .. Len(saved) : Ids(saved)[i] = saved[i].id
  BY <1>1, <1>2, IdsSeq
<1> QED
  BY <1>1, <1>2, <1>3, <1>4, <1>5

(* The pipeline's steps as FrameStore sees them: a frame captured, handed to *)
(* the saver, written, or nothing.                                           *)
LEMMA Partition ==
  ASSUME TypeOK, [Next]_vars
  PROVE  \/ PushFrame /\ UNCHANGED <<HeldIds, saved>>
         \/ PopFrame /\ ~Saving /\ Saving' /\ UNCHANGED saved
         \/ /\ Saving /\ ~Saving' /\ UNCHANGED data_q
            /\ saved' = Append(saved, [id |-> cur.id, img |-> content[cur.buf]])
         \/ UNCHANGED <<data_q, HeldIds, saved>>
<1> USE PlacesTyped
<1>1. CASE ExpoNext
  <2>1. UNCHANGED <<HeldIds, saved>>
    BY <1>1, ExpoKeeps DEF HeldIds, Saving, saveVars
  <2>2. UNCHANGED data_q \/ PushFrame
    BY <1>1 DEF ExpoNext, ExpoWaitCooling, ExpoExit, ExpoContinue, StartExposure,
      ExposureOver, ExpoLockRing, ExpoLockPush, ExpoLockDrop, ExpoLock, ClaimBuffer,
      RingOverflow, FetchBegin, FetchDone, FetchFailed, DropFrame, CountLoad,
      CountStore,
      Move, queueVars
  <2> QED
    BY <2>1, <2>2
<1>2. CASE DataNext
  BY <1>2 DEF DataNext, DataCheck, DataLock, DataEmpty, DataPick, DataSave, SaveFailed,
    DrainPick, DrainRace, DrainSave, DrainEnd, SaveData, Move, Goto, saveVars,
    queueVars,
    Saving, HeldIds
<1>3. CASE MainNext
  BY <1>3, MainKeeps DEF HeldIds, Saving, saveVars, queueVars
<1>4. CASE Other
  BY <1>4, OtherStep DEF HeldIds, Saving, saveVars, queueVars
<1> QED
  BY <1>1, <1>2, <1>3, <1>4, NextCases

(* Pending is the frame being saved, then the queue.                         *)
LEMMA HeldSeq == TypeOK => HeldIds \in Seq(Nat) /\ Pending = HeldIds \o Ids(data_q)
BY FrameIds DEF HeldIds, Pending

(* Every frame known to FrameStore is past.                                  *)
LEMMA KnownPast ==
  ASSUME TypeOK, EntryInv, NEW g \in Store!Known
  PROVE  Past(g)
<1>1. CASE \E i \in DOMAIN Ids(saved) : g = Ids(saved)[i]
  BY <1>1, FrameIds DEF EntryInv
<1>2. CASE \E i \in DOMAIN Pending : g = Pending[i]
  <2>1. PICK i \in DOMAIN Pending : g = Pending[i]
    BY <1>2
  <2>2. \A j \in DOMAIN Ids(data_q) : Past(Ids(data_q)[j])
    BY FrameIds DEF EntryInv
  <2>3. CASE Saving
    <3> DEFINE t == Ids(data_q)
               h == <<cur.id>>
    <3>1. h \in Seq(Nat) /\ t \in Seq(Nat) /\ Len(h) = 1 /\ h[1] = cur.id /\ Past(cur.id)
      BY <2>3, FrameIds DEF EntryInv
    <3>2. Pending = h \o t
      BY <2>3 DEF Pending
    <3>3. Len(t) \in Nat /\ DOMAIN t = 1 .. Len(t)
      BY <3>1, LenProperties
    <3> HIDE DEF h, t
    <3>4. /\ h \o t \in Seq(Nat) /\ Len(h \o t) = 1 + Len(t)
          /\ \A j \in 1 .. 1 + Len(t) : (h \o t)[j] = IF j <= 1 THEN h[j] ELSE t[j - 1]
      <4>1. /\ h \o t \in Seq(Nat) /\ Len(h \o t) = Len(h) + Len(t)
            /\ \A j \in 1 .. Len(h) + Len(t) : (h \o t)[j] =
                 IF j <= Len(h) THEN h[j] ELSE t[j - Len(h)]
        BY <3>1, ConcatProperties
      <4> QED
        BY <3>1, <4>1
    <3>5. i \in 1 .. 1 + Len(t)
      BY <2>1, <3>2, <3>4, LenProperties
    <3>6. CASE i = 1
      BY <2>1, <3>1, <3>2, <3>4, <3>5, <3>6
    <3>7. CASE i > 1
      <4>1. i - 1 \in DOMAIN t /\ g = t[i - 1]
        BY <2>1, <3>2, <3>3, <3>4, <3>5, <3>7
      <4> QED
        BY <2>2, <4>1 DEF t
    <3> QED
      BY <3>3, <3>5, <3>6, <3>7
  <2>4. CASE ~Saving
    <3>1. Pending = Ids(data_q)
      BY <2>4, FrameIds, ConcatEmptySeq DEF Pending
    <3> QED
      BY <2>1, <2>2, <3>1
  <2> QED
    BY <2>3, <2>4
<1> QED
  BY <1>1, <1>2 DEF Store!Known

(* Every step captures a frame, stores one, or stutters.                     *)
LEMMA StepRefines ==
  ASSUME RInv, RInv', [Next]_vars
  PROVE  \/ \E f \in 1 .. MaxFrames : Store!Capture(f)
         \/ Store!Store
         \/ UNCHANGED <<Pending, Ids(saved)>>
<1>0. TypeOK /\ TypeOK' /\ PositionInv /\ EntryInv
  BY DEF RInv, IInv
<1>1. /\ HeldIds \in Seq(Nat) /\ Pending = HeldIds \o Ids(data_q)
      /\ Pending' = HeldIds' \o Ids(data_q')
  BY <1>0, HeldSeq DEF Pending, HeldIds, Saving
<1>2. CASE PushFrame /\ UNCHANGED <<HeldIds, saved>>
  <2>1. Holding /\ frame \in 1 .. MaxFrames
    BY <1>0, <1>2, PushPlaces, BoundAssumption DEF PositionInv, TypeOK, CamOK
  <2>2. \A g \in Store!Known : g < frame
    BY <1>0, <2>1, KnownPast DEF Past
  <2>3. PICK e \in Entry : e.id = frame /\ data_q' = Append(data_q, e)
    BY <1>0, <1>2, Pushed DEF PushFrame
  <2>4. Ids(data_q') = Append(Ids(data_q), frame)
    BY <1>0, <2>3, IdsAppend, FrameIds
  <2>5. Pending' = Append(Pending, frame)
    <3>1. HeldIds \o Append(Ids(data_q), frame) = Append(HeldIds \o Ids(data_q), frame)
      <4>1. Ids(data_q) \in Seq(Nat) /\ frame \in Nat
        BY <1>0, <2>1, FrameIds
      <4> QED
        BY <1>1, <4>1, AppendBehind, Zenon
    <3> QED
      BY <1>1, <1>2, <2>4, <3>1
  <2>6. Store!Capture(frame)
    BY <1>2, <2>2, <2>5 DEF Store!Capture
  <2> QED
    BY <2>1, <2>6
<1>3. CASE PopFrame /\ ~Saving /\ Saving' /\ UNCHANGED saved
  <2>1. data_q # <<>> /\ cur' = Head(data_q) /\ data_q' = Tail(data_q)
    BY <1>3 DEF PopFrame
  <2>2. Pending' = <<Head(data_q).id>> \o Ids(Tail(data_q))
    BY <1>1, <1>3, <2>1 DEF HeldIds
  <2>3. Pending = Ids(data_q)
    BY <1>0, <1>1, <1>3, FrameIds, ConcatEmptySeq DEF HeldIds
  <2>4. <<Head(data_q).id>> \o Ids(Tail(data_q)) = Ids(data_q)
    BY <1>0, <2>1, IdsTail, FrameIds
  <2> QED
    BY <1>3, <2>2, <2>3, <2>4
<1>4. CASE /\ Saving /\ ~Saving' /\ UNCHANGED data_q
           /\ saved' = Append(saved, [id |-> cur.id, img |-> content[cur.buf]])
  <2>1. PICK f \in File : f.id = cur.id /\ saved' = Append(saved, f)
    <3>1. content[cur.buf] \in Nat /\ cur.id \in Nat
      BY <1>0 DEF TypeOK, SaveOK, RingOK, Entry
    <3> QED
      BY <1>4, <3>1 DEF File
  <2>2. Ids(saved') = Append(Ids(saved), cur.id)
    BY <1>0, <2>1, IdsAppend, FrameIds
  <2>3. Pending = <<cur.id>> \o Ids(data_q)
    BY <1>1, <1>4 DEF HeldIds
  <2>4. Pending' = Ids(data_q)
    BY <1>0, <1>1, <1>4, FrameIds, ConcatEmptySeq DEF HeldIds
  <2>5. Pending # <<>> /\ Head(Pending) = cur.id /\ Tail(Pending) = Ids(data_q)
    BY <1>0, <2>3, FrameIds, HeadOfCons
  <2>6. Store!Store
    BY <2>2, <2>4, <2>5 DEF Store!Store
  <2> QED
    BY <2>6
<1>5. CASE UNCHANGED <<data_q, HeldIds, saved>>
  BY <1>1, <1>5
<1> QED
  BY <1>0, <1>2, <1>3, <1>4, <1>5, Partition

(* Initially nothing is pending and nothing stored.                          *)
LEMMA InitRefines == Init => Store!Init
BY DEF Init, FirstPlaces, Threads, Store!Init, Pending, Saving, Ids

(* The pipeline implements FrameStore: whatever the threads, failures and    *)
(* stops do, frames are written in the order they were taken, each at most   *)
(* once.                                                                     *)
THEOREM Refines == Spec => InOrder
<1>1. RInv /\ RInv' /\ [Next]_vars =>
        [Store!Store \/ \E f \in 1 .. MaxFrames : Store!Capture(f)]_<<Pending, Ids(saved)>>
  BY StepRefines
<1> QED
  BY <1>1, InitRefines, RingInvariant, PTL DEF Spec, InOrder, Store!Spec

-----------------------------------------------------------------------------
(* The counters *)

(* An exposure that is under way: begun, and not yet counted.                *)
Exposing == pc["expo"] \in {"wait", "lock_ring", "ring", "fetch", "fetching", "lock_push",
                            "push", "lock_drop", "drop", "count"}

(* expo_cnt counts the exposures begun after exposure m.                     *)
CountsFrom(m) ==
  /\ pc["expo"] \in {"unborn", "cooling", "check", "start", "done"} => frame = m + expo_cnt
  /\ Exposing => frame = m + expo_cnt + 1
  /\ pc["expo"] = "count_store" => tmp = expo_cnt /\ frame = m + expo_cnt + 1

(* expo counts from m up to its target n. An exposure given up for want of a *)
(* buffer is not counted, but then expo is stopped short of n.               *)
Counting(m, n) ==
  /\ loop_cnt = n
  /\ n > 0 =>
       /\ expo_cnt <= n
       /\ Exposing \/ pc["expo"] \in {"start", "count_store"} => expo_cnt < n
       /\ IF "overflow" \in th_expo_stop THEN expo_cnt < n ELSE CountsFrom(m)

(* The count that expo next compares with its target.                        *)
NextCount ==
  IF Exposing \/ pc["expo"] = "start" THEN (expo_cnt + 1) % (ULONG_MAX + 1)
  ELSE IF pc["expo"] = "count_store" THEN (tmp + 1) % (ULONG_MAX + 1) ELSE expo_cnt

(* How many more exposures expo begins towards a target of one: that whose   *)
(* tests it has passed, and another if the count is zero when it next looks. *)
Passed == IF pc["expo"] = "start" THEN 1 ELSE 0
Zero == IF ~Stopping /\ NextCount = 0 THEN 1 ELSE 0

(* While the latest request is a stop_expo that main does not overwrite, its *)
(* target stands and what is still begun is bounded.                         *)
StopServed ==
  /\ pc["http"] = "reset" => cmd.op = "start"
  /\ Served("stop") /\ cmd.fresh =>
       pc["main"] # "launch" /\ loop_cnt = 1 /\ frame + Passed + Zero <= cmd.mark + 2

(* A start_expo/n that found expo at rest: until the count is reset expo     *)
(* stays there, if n is a limit at all, and then counts from there to n.     *)
StartServed ==
  cmd.op = "start" /\ cmd.fresh =>
    /\ pc["http"] \in {"reset", "idle"} => pc["main"] # "launch" /\ loop_cnt = cmd.n
    /\ pc["http"] = "reset" /\ cmd.n > 0 =>
         /\ pc["expo"] \in {"check", "done"} /\ expo_cnt >= cmd.n /\ frame = cmd.mark
    /\ pc["http"] = "idle" => Counting(cmd.mark, cmd.n)

(* main joins the threads one after the other.                               *)
JoinInv ==
  /\ pc["main"] \in {"join_data", "join_mon", "joined_all"} => pc["expo"] = "done"
  /\ pc["main"] \in {"join_mon", "joined_all"} => pc["data"] = "done"

(* Without a request, expo counts from the first exposure to ExpoCount, and  *)
(* ends of itself only there.                                                *)
BatchCount ==
  ncmd = 0 =>
    /\ pc["http"] = "idle"
    /\ IF pc["main"] = "launch" THEN frame = 0 /\ expo_cnt = 0 ELSE Counting(0, ExpoCount)
    /\ pc["expo"] = "done" /\ th_expo_stop \subseteq {"joined"} => Reached

(* Without a request or a failing camera call, every exposure succeeds.      *)
CameraSound ==
  ncmd = 0 /\ CamFailures = {} =>
    /\ exp_status # "failed" /\ pc["expo"] \notin {"lock_drop", "drop"}
    /\ pc["expo"] = "wait" => exp_status # "idle"
    /\ pc["expo"] \in {"lock_ring", "ring", "fetch", "fetching"} => exp_status = "success"

(* And every frame is, in order, in a file, in data's hands, in the queue or *)
(* in expo's hands.                                                          *)
Held == Len(saved) + (IF Saving THEN 1 ELSE 0)
Taken == IF pc["expo"] \in {"wait", "lock_ring", "ring", "fetch", "fetching", "lock_push",
                            "push"} THEN frame - 1 ELSE frame
AllAccounted ==
  ncmd = 0 /\ CamFailures = {} /\ th_expo_stop \subseteq {"joined"} =>
    /\ \A i \in DOMAIN saved : saved[i].id = i
    /\ Saving => cur.id = Len(saved) + 1
    /\ \A i \in DOMAIN data_q : data_q[i].id = Held + i
    /\ Held + Len(data_q) = Taken

-----------------------------------------------------------------------------
(* A thread other than expo leaves expo where it is, or starts it, and does  *)
(* not touch what expo counts with, the http thread's stores apart.          *)
LEMMA OthersKeep ==
  ASSUME TypeOK, StopInv, [Next]_vars, ~ExpoNext
  PROVE  /\ pc'["expo"] = pc["expo"] \/ (pc["expo"] = "unborn" /\ pc'["expo"] = "cooling")
         /\ UNCHANGED <<frame, tmp>>
         /\ th_expo_stop' \in {th_expo_stop, th_expo_stop \cup {"joined"},
                               th_expo_stop \cup {"hotplug"}}
<1> USE PlacesTyped
<1>1. CASE DataNext
  BY <1>1, DataKeeps DEF DataNext, DataCheck, DataLock, DataEmpty, DataPick, DataSave,
    SaveFailed, DrainPick, DrainRace, DrainSave, DrainEnd, SaveData, Move, countVars
<1>2. CASE MainNext
  BY <1>2, MainKeeps DEF MainNext, ExpoLoopStart, ExpoLoopWait, DataSavingWait,
    MonitorWait, Move, Goto, StopInv, countVars, stopVars
<1>3. CASE Other
  BY <1>3, OtherStep DEF Other, HttpNext, HttpStores, StartExpo, ResetExpoCount, StopExpo,
    StopExpoCnt, StopLoopCnt, MonitorExit, CameraDone, HotplugStop, HotplugAlarm,
    AlarmFires, Ended, Move, countVars, vars
<1> QED
  BY <1>1, <1>2, <1>3, NextCases

(* What each step of expo does to the place it is at and to its counters.    *)
LEMMA ExpoCounts ==
  ASSUME TypeOK, ExpoNext
  PROVE  \/ /\ pc["expo"] \in {"cooling", "check"} /\ pc'["expo"] \in {"check", "done"}
            /\ pc'["expo"] = "done" => pc["expo"] = "check" /\ (Stopping \/ Reached)
            /\ UNCHANGED <<frame, tmp, expo_cnt, th_expo_stop>>
         \/ /\ pc["expo"] = "check" /\ pc'["expo"] = "start" /\ ~Reached /\ ~Stopping
            /\ UNCHANGED <<frame, tmp, expo_cnt, th_expo_stop>>
         \/ /\ pc["expo"] = "start" /\ pc'["expo"] = "wait" /\ frame' = frame + 1
            /\ UNCHANGED <<tmp, expo_cnt, th_expo_stop>>
         \/ /\ Exposing /\ Exposing'
            /\ UNCHANGED <<frame, tmp, expo_cnt>>
            /\ th_expo_stop' \in {th_expo_stop, th_expo_stop \cup {"errors"}}
         \/ /\ Exposing /\ pc'["expo"] = "check"
            /\ UNCHANGED <<frame, tmp, expo_cnt>>
            /\ th_expo_stop' = th_expo_stop \cup {"overflow"}
         \/ /\ pc["expo"] = "count" /\ pc'["expo"] = "count_store" /\ tmp' = expo_cnt
            /\ UNCHANGED <<frame, expo_cnt, th_expo_stop>>
         \/ /\ pc["expo"] = "count_store" /\ pc'["expo"] = "check"
            /\ expo_cnt' = (tmp + 1) % (ULONG_MAX + 1)
            /\ UNCHANGED <<frame, th_expo_stop>>
<1> USE PlacesTyped DEF countVars, stopVars, camVars
<1>1. CASE ExpoWaitCooling \/ ExpoExit
  BY <1>1 DEF ExpoWaitCooling, ExpoExit, Move, Goto
<1>2. CASE ExpoContinue
  BY <1>2 DEF ExpoContinue, Move, Goto
<1>3. CASE StartExposure
  BY <1>3 DEF StartExposure, Goto
<1>4. CASE ExposureOver \/ FetchFailed
  BY <1>4 DEF ExposureOver, FetchFailed, TraceError, Goto, Exposing
<1>5. CASE ExpoLockRing \/ ExpoLockPush \/ ExpoLockDrop \/ ClaimBuffer \/ FetchBegin
           \/ FetchDone \/ PushFrame \/ DropFrame
  BY <1>5 DEF ExpoLockRing, ExpoLockPush, ExpoLockDrop, ExpoLock, ClaimBuffer, FetchBegin,
    FetchDone, PushFrame, DropFrame, Goto, Exposing
<1>6. CASE RingOverflow
  BY <1>6 DEF RingOverflow, Goto, Exposing
<1>7. CASE CountLoad
  BY <1>7 DEF CountLoad, Goto
<1>8. CASE CountStore
  BY <1>8 DEF CountStore, Goto
<1> QED
  BY <1>1, <1>2, <1>3, <1>4, <1>5, <1>6, <1>7, <1>8 DEF ExpoNext

(* expo leaves the other threads, the requests and its target alone.         *)
LEMMA ExpoLeaves ==
  ASSUME TypeOK, ExpoNext
  PROVE  /\ \A t \in Threads \ {"expo"} : pc'[t] = pc[t]
         /\ UNCHANGED <<loop_cnt, cmdVars>>
BY PlacesTyped DEF ExpoNext, ExpoWaitCooling, ExpoExit, ExpoContinue, StartExposure,
  ExposureOver, ExpoLockRing, ExpoLockPush, ExpoLockDrop, ExpoLock, ClaimBuffer,
  RingOverflow, FetchBegin, FetchDone, FetchFailed, PushFrame, DropFrame, CountLoad,
  CountStore, Move, Goto, countVars

(* A count below the largest unsigned long does not wrap.                    *)
LEMMA NoWrap ==
  ASSUME NEW c \in ULong, c < ULONG_MAX
  PROVE  (c + 1) % (ULONG_MAX + 1) = c + 1
BY CounterAssumption DEF ULong

(* A step that changes neither the target nor, expo's own counting apart,    *)
(* the count goes on counting.                                               *)
LEMMA CountingStep ==
  ASSUME TypeOK, StopInv, NEW m \in Nat, NEW n \in ULong, Counting(m, n), [Next]_vars,
         UNCHANGED loop_cnt, ExpoNext \/ UNCHANGED expo_cnt
  PROVE  Counting(m, n)'
<1>0. CASE n = 0
  BY <1>0 DEF Counting
<1>1. CASE n > 0
  <2> USE <1>1
  <2>1. /\ loop_cnt = n /\ loop_cnt' = n /\ expo_cnt <= n
        /\ Exposing \/ pc["expo"] \in {"start", "count_store"} => expo_cnt < n
        /\ "overflow" \in th_expo_stop => expo_cnt < n
        /\ "overflow" \notin th_expo_stop => CountsFrom(m)
    BY DEF Counting
  <2>2. /\ expo_cnt \in Nat /\ tmp \in Nat /\ frame \in Nat /\ n \in Nat
        /\ expo_cnt \in ULong /\ n <= ULONG_MAX /\ ULONG_MAX \in Nat
    BY CounterAssumption DEF TypeOK, CountOK, CamOK, ULong
  <2>3. "overflow" \in th_expo_stop => pc["expo"] \in {"check", "done"} /\ Stopping
    BY DEF StopInv, Stopping
  <2> SUFFICES /\ expo_cnt' <= n
               /\ Exposing' \/ pc'["expo"] \in {"start", "count_store"} => expo_cnt' < n
               /\ "overflow" \in th_expo_stop' => expo_cnt' < n
               /\ "overflow" \notin th_expo_stop' => CountsFrom(m)'
    BY <2>1 DEF Counting
  <2>4. CASE ~ExpoNext
    BY <2>1, <2>2, <2>4, OthersKeep DEF CountsFrom, Exposing
  <2>5. CASE ExpoNext
    <3>1. ~Reached => expo_cnt < n
      BY <2>1, <2>2 DEF Reached
    <3>2. pc["expo"] = "count_store" => tmp = expo_cnt /\ (tmp + 1) % (ULONG_MAX + 1) = expo_cnt + 1
      BY <2>1, <2>2, <2>3, NoWrap DEF CountsFrom
    <3> QED
      BY <2>1, <2>2, <2>3, <2>5, <3>1, <3>2, ExpoCounts DEF CountsFrom, Exposing
  <2> QED
    BY <2>4, <2>5
<1> QED
  BY <1>0, <1>1 DEF ULong

(* With a target of one, an exposure is only ever begun out of what was      *)
(* still to be begun: expo_cnt does not come back to zero by itself.         *)
LEMMA BudgetStep ==
  ASSUME TypeOK, StopInv, [Next]_vars, loop_cnt = 1, ExpoNext \/ UNCHANGED expo_cnt
  PROVE  frame' + Passed' + Zero' <= frame + Passed + Zero
<1>0. frame \in Nat /\ expo_cnt \in Nat /\ ULONG_MAX \in Nat /\ ULONG_MAX > 1
  BY CounterAssumption DEF TypeOK, CountOK, CamOK, ULong
<1>1. Stopping => Stopping'
  BY FlagOnlyRises DEF Stopping
<1>2. CASE ~ExpoNext
  <2>1. frame' = frame /\ Passed' = Passed /\ NextCount' = NextCount
    BY <1>2, OthersKeep DEF Passed, NextCount, Exposing
  <2> QED
    BY <1>0, <1>1, <2>1 DEF Zero, Passed
<1>3. CASE ExpoNext
  <2>1. CASE pc["expo"] = "check" /\ pc'["expo"] = "start"
    <3>1. ~Stopping /\ expo_cnt = 0 /\ frame' = frame /\ expo_cnt' = 0
      BY <1>0, <1>3, <2>1, ExpoCounts DEF Reached, Exposing
    <3>2. NextCount = 0
      BY <2>1, <3>1 DEF NextCount, Exposing
    <3>3. 1 % (ULONG_MAX + 1) = 1
      BY <1>0
    <3>4. NextCount' = 1
      BY <2>1, <3>1, <3>3 DEF NextCount
    <3> QED
      BY <1>0, <2>1, <3>1, <3>2, <3>4 DEF Zero, Passed
  <2>2. CASE pc["expo"] = "start"
    <3>1. pc'["expo"] = "wait" /\ frame' = frame + 1 /\ UNCHANGED <<expo_cnt, th_expo_stop>>
      BY <1>3, <2>2, ExpoCounts DEF Exposing
    <3>2. NextCount' = NextCount
      BY <2>2, <3>1 DEF NextCount, Exposing
    <3> QED
      BY <1>0, <2>2, <3>1, <3>2 DEF Zero, Passed, Stopping
  <2>3. CASE ~(pc["expo"] = "start") /\ pc'["expo"] # "start"
    <3>1. frame' = frame /\ (NextCount' = NextCount \/ Stopping')
      BY <1>3, <2>3, ExpoCounts DEF NextCount, Exposing, Stopping
    <3> QED
      BY <1>0, <1>1, <2>3, <3>1 DEF Zero, Passed
  <2> QED
    BY <1>3, <2>1, <2>2, <2>3, ExpoCounts DEF Exposing
<1> QED
  BY <1>2, <1>3

(* A thread other than http leaves the requests alone; only main's launch of *)
(* the loop sets the target, and only expo counts.                           *)
LEMMA RequestsKeep ==
  ASSUME TypeOK, [Next]_vars, ~HttpNext
  PROVE  /\ pc'["http"] = pc["http"] /\ UNCHANGED cmdVars
         /\ UNCHANGED loop_cnt \/ ExpoLoopStart
         /\ ExpoNext \/ UNCHANGED expo_cnt
         /\ pc'["main"] = "launch" <=> pc["main"] = "launch" /\ ~ExpoLoopStart
         /\ ExpoLoopStart => pc["main"] = "launch"
<1> USE PlacesTyped
<1>1. CASE ExpoNext
  <2>1. pc'["http"] = pc["http"] /\ pc'["main"] = pc["main"] /\ UNCHANGED <<loop_cnt, cmdVars>>
    BY <1>1, ExpoLeaves DEF Threads
  <2>2. ~ExpoLoopStart
    BY <2>1 DEF ExpoLoopStart
  <2> QED
    BY <1>1, <2>1, <2>2
<1>2. CASE DataNext
  BY <1>2 DEF DataNext, DataCheck, DataLock, DataEmpty, DataPick, DataSave, SaveFailed,
    DrainPick, DrainRace, DrainSave, DrainEnd, SaveData, Move, Goto, countVars, cmdVars,
    ExpoLoopStart
<1>3. CASE MainNext
  BY <1>3 DEF MainNext, ExpoLoopStart, ExpoLoopWait, DataSavingWait, MonitorWait, Move, Goto,
    countVars, cmdVars
<1>4. CASE Other
  BY <1>4 DEF Other, MonitorExit, CameraDone, HotplugStop, HotplugAlarm, AlarmFires, Ended,
    Move, Goto, countVars, cmdVars, vars, ExpoLoopStart
<1> QED
  BY <1>1, <1>2, <1>3, <1>4, NextCases

(* A request moves no thread but http and begins no exposure.                *)
LEMMA RequestStep ==
  ASSUME TypeOK, HttpNext
  PROVE  /\ \A t \in Threads \ {"http"} : pc'[t] = pc[t]
         /\ UNCHANGED <<frame, tmp, th_expo_stop>>
BY PlacesTyped DEF HttpNext, HttpStores, StartExpo, ResetExpoCount, StopExpo, StopExpoCnt,
   StopLoopCnt, Goto, camVars, countVars, stopVars

(* A count and what is still to be begun add up.                             *)
LEMMA SumsNat ==
  \A f \in Nat : \A p, z \in {0, 1} : f + p + z \in Nat /\ f + p + z <= f + 2 /\ f + 2 \in Nat
OBVIOUS

(* At most two exposures are begun after a stop_expo, by every step.         *)
LEMMA StopServedStep == TypeOK /\ StopInv /\ StopServed /\ [Next]_vars => StopServed'
<1> SUFFICES ASSUME TypeOK, StopInv, StopServed, [Next]_vars PROVE StopServed'
  OBVIOUS
<1> USE PlacesTyped
<1>1. CASE ~HttpNext
  <2>1. /\ pc'["http"] = pc["http"] /\ cmd' = cmd
        /\ pc["main"] # "launch" => pc'["main"] # "launch" /\ UNCHANGED loop_cnt
        /\ ExpoNext \/ UNCHANGED expo_cnt
    BY <1>1, RequestsKeep DEF cmdVars
  <2>2. CASE Served("stop") /\ cmd.fresh
    <3>1. loop_cnt = 1 /\ loop_cnt' = 1 /\ pc'["main"] # "launch"
          /\ frame + Passed + Zero <= cmd.mark + 2
      BY <2>1, <2>2 DEF StopServed
    <3>2. frame' + Passed' + Zero' <= frame + Passed + Zero
      BY <2>1, <3>1, BudgetStep
    <3>3. /\ frame \in Nat /\ frame' \in Nat /\ Passed \in {0, 1} /\ Zero \in {0, 1}
          /\ Passed' \in {0, 1} /\ Zero' \in {0, 1} /\ cmd.mark \in Nat
      BY TypeStep DEF TypeOK, CamOK, CmdOK, Passed, Zero
    <3>4. frame' + Passed' + Zero' <= cmd.mark + 2
      <4>1. frame + Passed + Zero \in Nat /\ frame' + Passed' + Zero' \in Nat /\ cmd.mark + 2 \in Nat
        BY <3>3, SumsNat
      <4>2. \A x, y, z \in Nat : x <= y /\ y <= z => x <= z
        OBVIOUS
      <4> QED
        BY <3>1, <3>2, <4>1, <4>2, Zenon
    <3> QED
      BY <2>1, <2>2, <3>1, <3>4 DEF StopServed, Served
  <2>3. CASE ~(Served("stop") /\ cmd.fresh)
    BY <2>1, <2>3 DEF StopServed, Served
  <2> QED
    BY <2>2, <2>3
<1>2. ASSUME NEW n \in LoopCounts, StartExpo(n) PROVE StopServed'
  <2>1. pc'["http"] = "reset" /\ cmd'.op = "start"
    BY <1>2 DEF StartExpo, Goto
  <2> QED
    BY <2>1 DEF StopServed, Served
<1>3. CASE StopExpo \/ StopExpoCnt
  <2>1. pc'["http"] \notin {"reset", "idle"}
    BY <1>3 DEF StopExpo, StopExpoCnt, Goto
  <2> QED
    BY <2>1 DEF StopServed, Served
<1>4. CASE ResetExpoCount
  <2>1. pc["http"] = "reset" /\ pc'["http"] = "idle" /\ cmd' = cmd
    BY <1>4 DEF ResetExpoCount, Goto, cmdVars
  <2> QED
    BY <2>1 DEF StopServed, Served
<1>5. CASE StopLoopCnt
  <2> DEFINE b == pc["main"] # "launch"
  <2>1. /\ pc'["http"] = "idle" /\ loop_cnt' = 1 /\ frame' = frame /\ pc'["main"] = pc["main"]
        /\ cmd' = [op |-> "stop", n |-> 0, mark |-> frame, fresh |-> b]
    BY <1>5 DEF StopLoopCnt, Goto, camVars
  <2>2. cmd'.mark = frame /\ cmd'.fresh = b
    BY <2>1
  <2>3. frame \in Nat /\ Passed' \in {0, 1} /\ Zero' \in {0, 1}
    BY DEF TypeOK, CamOK, Passed, Zero
  <2>4. frame' + Passed' + Zero' <= cmd'.mark + 2
    <3>1. frame + Passed' + Zero' <= frame + 2
      BY <2>3, SumsNat
    <3> QED
      BY <2>1, <2>2, <3>1
  <2> QED
    BY <2>1, <2>2, <2>4 DEF StopServed, Served
<1> QED
  BY <1>1, <1>2, <1>3, <1>4, <1>5 DEF HttpNext, HttpStores

(* N exposures are counted off after a start_expo/N, by every step.          *)
LEMMA StartServedStep == TypeOK /\ StopInv /\ StartServed /\ [Next]_vars => StartServed'
<1> SUFFICES ASSUME TypeOK, StopInv, StartServed, [Next]_vars PROVE StartServed'
  OBVIOUS
<1> USE PlacesTyped
<1>0. cmd.n \in ULong /\ cmd.mark \in Nat
  BY DEF TypeOK, CmdOK
<1>1. CASE ~HttpNext
  <2> SUFFICES ASSUME cmd'.op = "start", cmd'.fresh
               PROVE  /\ pc'["http"] \in {"reset", "idle"} => pc'["main"] # "launch" /\ loop_cnt' = cmd'.n
                      /\ pc'["http"] = "reset" /\ cmd'.n > 0 =>
                           /\ pc'["expo"] \in {"check", "done"} /\ expo_cnt' >= cmd'.n /\ frame' = cmd'.mark
                      /\ pc'["http"] = "idle" => Counting(cmd.mark, cmd.n)'
    BY <1>1, RequestsKeep DEF StartServed, cmdVars
  <2>1. /\ pc'["http"] = pc["http"] /\ cmd' = cmd
        /\ pc["main"] # "launch" => pc'["main"] # "launch" /\ UNCHANGED loop_cnt
        /\ ExpoNext \/ UNCHANGED expo_cnt
    BY <1>1, RequestsKeep DEF cmdVars
  <2>2. CASE pc["http"] = "idle"
    <3>1. Counting(cmd.mark, cmd.n) /\ pc["main"] # "launch" /\ loop_cnt = cmd.n
      BY <2>1, <2>2 DEF StartServed
    <3>2. PICK m \in Nat, n \in ULong : m = cmd.mark /\ n = cmd.n
      BY <1>0
    <3>3. Counting(m, n)
      BY <3>1, <3>2
    <3>4. Counting(m, n)'
      BY <2>1, <3>1, <3>3, CountingStep
    <3>5. Counting(cmd.mark, cmd.n)'
      BY <2>1, <3>2, <3>4
    <3> QED
      BY <2>1, <2>2, <3>1, <3>5
  <2>3. CASE pc["http"] = "reset"
    <3>1. /\ pc["main"] # "launch" /\ loop_cnt = cmd.n
          /\ cmd.n > 0 => pc["expo"] \in {"check", "done"} /\ expo_cnt >= cmd.n /\ frame = cmd.mark
      BY <2>1, <2>3 DEF StartServed
    <3>2. CASE cmd.n > 0
      <4>1. Reached /\ pc["expo"] \in {"check", "done"}
        BY <3>1, <3>2 DEF Reached
      <4>2. CASE ExpoNext
        BY <2>1, <2>3, <3>1, <4>1, <4>2, ExpoCounts DEF Exposing
      <4>3. CASE ~ExpoNext
        BY <2>1, <2>3, <3>1, <4>1, <4>3, OthersKeep
      <4> QED
        BY <4>2, <4>3
    <3> QED
      BY <2>1, <2>3, <3>1, <3>2
  <2>4. CASE pc["http"] \notin {"reset", "idle"}
    BY <2>1, <2>4
  <2> QED
    BY <2>2, <2>3, <2>4
<1>2. ASSUME NEW n \in LoopCounts, StartExpo(n) PROVE StartServed'
  <2> DEFINE b == pc["expo"] = "check" /\ Reached /\ expo_cnt >= n
  <2>1. /\ pc'["http"] = "reset" /\ pc'["expo"] = pc["expo"] /\ pc'["main"] = pc["main"]
        /\ loop_cnt' = n /\ expo_cnt' = expo_cnt /\ frame' = frame
        /\ cmd' = [op |-> "start", n |-> n, mark |-> frame, fresh |-> b]
    BY <1>2 DEF StartExpo, Goto, camVars
  <2>2. cmd'.n = n /\ cmd'.mark = frame /\ cmd'.fresh = b
    BY <2>1
  <2>3. b => pc["main"] # "launch"
    BY DEF StopInv
  <2> QED
    BY <2>1, <2>2, <2>3 DEF StartServed
<1>3. CASE StopExpo \/ StopExpoCnt
  <2>1. pc'["http"] \notin {"reset", "idle"}
    BY <1>3 DEF StopExpo, StopExpoCnt, Goto
  <2> QED
    BY <2>1 DEF StartServed
<1>4. CASE ResetExpoCount
  <2>1. /\ pc["http"] = "reset" /\ pc'["http"] = "idle" /\ pc'["main"] = pc["main"]
        /\ pc'["expo"] = pc["expo"] /\ expo_cnt' = 0
        /\ UNCHANGED <<cmd, loop_cnt, frame, th_expo_stop>>
    BY <1>4 DEF ResetExpoCount, Goto, cmdVars, camVars, stopVars
  <2>2. cmd.op = "start" /\ cmd.fresh => Counting(cmd.mark, cmd.n)'
    BY <1>0, <2>1 DEF StartServed, Counting, CountsFrom, Exposing, ULong
  <2> QED
    BY <2>1, <2>2 DEF StartServed, Counting
<1>5. CASE StopLoopCnt
  <2>1. cmd'.op = "stop"
    BY <1>5 DEF StopLoopCnt
  <2> QED
    BY <2>1 DEF StartServed
<1> QED
  BY <1>1, <1>2, <1>3, <1>4, <1>5 DEF HttpNext, HttpStores

(* Once main has joined a thread, the thread has ended, and stays so.        *)
LEMMA JoinInvStep == TypeOK /\ JoinInv /\ [Next]_vars => JoinInv'
<1> SUFFICES ASSUME TypeOK, JoinInv, [Next]_vars PROVE JoinInv'
  OBVIOUS
<1> USE PlacesTyped DEF JoinInv
<1>1. CASE ExpoNext
  BY <1>1, ExpoLeaves, ExpoCounts DEF Exposing, Threads
<1>2. CASE DataNext
  <2>1. pc["data"] # "done"
    BY <1>2 DEF DataNext, DataCheck, DataLock, DataEmpty, DataPick, DataSave, SaveFailed,
      DrainPick, DrainRace, DrainSave, DrainEnd, SaveData, Move, Goto
  <2> QED
    BY <1>2, <2>1, DataKeeps
<1>3. CASE MainNext
  BY <1>3, MainKeeps DEF MainNext, ExpoLoopStart, ExpoLoopWait, DataSavingWait, MonitorWait,
    Move, Goto
<1>4. CASE Other
  BY <1>4, OtherStep
<1> QED
  BY <1>1, <1>2, <1>3, <1>4, NextCases

(* A request is counted, and one that is under way has been.                 *)
LEMMA NoRequest ==
  ASSUME TypeOK, [Next]_vars, BatchCount, ncmd' = 0
  PROVE  ncmd = 0 /\ ~HttpNext
<1>0. ncmd \in Nat
  BY DEF TypeOK, CmdOK
<1>1. CASE HttpNext
  BY <1>0, <1>1 DEF HttpNext, HttpStores, StartExpo, ResetExpoCount, StopExpo, StopExpoCnt,
    StopLoopCnt, Goto, cmdVars, BatchCount
<1>2. CASE ~HttpNext
  BY <1>2, RequestsKeep DEF cmdVars
<1> QED
  BY <1>1, <1>2

(* Left alone, expo counts from the first exposure to ExpoCount.             *)
LEMMA BatchCountStep == TypeOK /\ StopInv /\ BatchCount /\ [Next]_vars => BatchCount'
<1> SUFFICES ASSUME TypeOK, StopInv, BatchCount, [Next]_vars, ncmd' = 0
             PROVE  /\ pc'["http"] = "idle"
                    /\ pc'["main"] = "launch" => frame' = 0 /\ expo_cnt' = 0
                    /\ pc'["main"] # "launch" => Counting(0, ExpoCount)'
                    /\ pc'["expo"] = "done" /\ th_expo_stop' \subseteq {"joined"} => Reached'
  BY DEF BatchCount
<1> USE PlacesTyped
<1>0. ncmd = 0 /\ ~HttpNext
  BY NoRequest
<1>1. /\ pc["http"] = "idle"
      /\ pc["main"] = "launch" => frame = 0 /\ expo_cnt = 0
      /\ pc["main"] # "launch" => Counting(0, ExpoCount)
      /\ pc["expo"] = "done" /\ th_expo_stop \subseteq {"joined"} => Reached
  BY <1>0 DEF BatchCount
<1>2. pc'["http"] = "idle"
  BY <1>0, <1>1, RequestsKeep
<1>3. ExpoCount \in ULong /\ ExpoCount \in Nat
  BY CounterAssumption DEF ULong
<1>4. CASE ExpoLoopStart
  <2>1. /\ pc'["expo"] = "cooling" /\ pc'["main"] = "join_expo" /\ loop_cnt' = ExpoCount
        /\ UNCHANGED <<frame, expo_cnt>> /\ pc["main"] = "launch"
    BY <1>4 DEF ExpoLoopStart, camVars
  <2> QED
    BY <1>1, <1>2, <1>3, <2>1 DEF Counting, CountsFrom, Exposing
<1>5. CASE ~ExpoLoopStart
  <2>1. /\ UNCHANGED loop_cnt /\ (ExpoNext \/ UNCHANGED expo_cnt)
        /\ pc'["main"] = "launch" <=> pc["main"] = "launch"
    BY <1>0, <1>5, RequestsKeep
  <2>2. pc'["main"] # "launch" => Counting(0, ExpoCount)'
    BY <1>1, <1>3, <2>1, CountingStep
  <2>3. pc["main"] = "launch" => frame' = 0 /\ expo_cnt' = 0
    <3>1. pc["main"] = "launch" => pc["expo"] = "unborn"
      BY DEF StopInv
    <3>2. CASE ExpoNext
      BY <3>1, <3>2, ExpoCounts DEF Exposing
    <3>3. CASE ~ExpoNext
      BY <1>1, <2>1, <3>3, OthersKeep
    <3> QED
      BY <3>2, <3>3
  <2>4. pc'["expo"] = "done" /\ th_expo_stop' \subseteq {"joined"} => Reached'
    <3> SUFFICES ASSUME pc'["expo"] = "done", th_expo_stop' \subseteq {"joined"} PROVE Reached'
      OBVIOUS
    <3>1. CASE ExpoNext
      <4>1. /\ pc["expo"] = "check"
            /\ Stopping \/ Reached
            /\ UNCHANGED <<expo_cnt, th_expo_stop>>
        BY <3>1, ExpoCounts DEF Exposing
      <4>2. "joined" \notin th_expo_stop
        BY <4>1 DEF StopInv
      <4>3. ~Stopping
        BY <4>1, <4>2 DEF Stopping
      <4> QED
        BY <2>1, <4>1, <4>3 DEF Reached
    <3>2. CASE ~ExpoNext
      <4>1. pc["expo"] = "done" /\ th_expo_stop \subseteq {"joined"}
        BY <3>2, OthersKeep
      <4> QED
        BY <1>1, <2>1, <3>2, <4>1 DEF Reached
    <3> QED
      BY <3>1, <3>2
  <2> QED
    BY <1>2, <2>1, <2>2, <2>3, <2>4
<1> QED
  BY <1>4, <1>5

(* A camera whose calls do not fail delivers every exposure.                 *)
LEMMA CameraSoundStep == TypeOK /\ StopInv /\ BatchCount /\ CameraSound /\ [Next]_vars => CameraSound'
<1> SUFFICES ASSUME TypeOK, StopInv, BatchCount, CameraSound, [Next]_vars, ncmd' = 0, CamFailures = {}
             PROVE  /\ exp_status' # "failed" /\ pc'["expo"] \notin {"lock_drop", "drop"}
                    /\ pc'["expo"] = "wait" => exp_status' # "idle"
                    /\ pc'["expo"] \in {"lock_ring", "ring", "fetch", "fetching"} => exp_status' = "success"
  BY DEF CameraSound
<1> USE PlacesTyped
<1>0. ncmd = 0 /\ ~HttpNext
  BY NoRequest
<1>1. /\ exp_status # "failed" /\ pc["expo"] \notin {"lock_drop", "drop"}
      /\ pc["expo"] = "wait" => exp_status # "idle"
      /\ pc["expo"] \in {"lock_ring", "ring", "fetch", "fetching"} => exp_status = "success"
      /\ exp_status \in {"idle", "working", "success", "failed"}
  BY <1>0 DEF CameraSound, TypeOK, CamOK
<1>2. CASE ExpoNext
  <2>1. CASE StartExposure
    BY <1>1, <2>1 DEF StartExposure, Goto
  <2>2. CASE ExposureOver
    BY <1>1, <2>2 DEF ExposureOver, Goto, camVars
  <2>3. CASE ~(StartExposure \/ ExposureOver)
    BY <1>1, <1>2, <2>3 DEF ExpoNext, ExpoWaitCooling, ExpoExit, ExpoContinue, ExpoLockRing,
      ExpoLockPush, ExpoLockDrop, ExpoLock, ClaimBuffer, RingOverflow, FetchBegin, FetchDone,
      FetchFailed, PushFrame, DropFrame, CountLoad, CountStore, Move, Goto, camVars
  <2> QED
    BY <2>1, <2>2, <2>3
<1>3. CASE ~ExpoNext
  <2>1. pc'["expo"] = pc["expo"] \/ (pc["expo"] = "unborn" /\ pc'["expo"] = "cooling")
    BY <1>3, OthersKeep
  <2>2. UNCHANGED camVars \/ CameraDone
    BY <1>0, <1>3, Framing DEF ExpoNext, HttpNext
  <2>3. exp_status' = exp_status \/ (exp_status = "working" /\ exp_status' = "success")
    BY <2>2 DEF CameraDone, camVars
  <2> QED
    BY <1>1, <2>1, <2>3
<1> QED
  BY <1>2, <1>3

(* What a written file adds to the files.                                    *)
LEMMA SavedOne ==
  ASSUME TypeOK, NEW from, NEW to, SaveData(from, to)
  PROVE  /\ Len(saved') = Len(saved) + 1
         /\ \A i \in DOMAIN saved : saved'[i] = saved[i]
         /\ DOMAIN saved = 1 .. Len(saved) /\ DOMAIN saved' = 1 .. Len(saved) + 1
         /\ saved'[Len(saved) + 1].id = cur.id
<1> DEFINE f == [id |-> cur.id, img |-> content[cur.buf]]
<1>1. f \in File /\ f.id = cur.id
  BY DEF TypeOK, SaveOK, RingOK, Entry, File
<1>2. saved \in Seq(File) /\ saved' = Append(saved, f)
  BY DEF TypeOK, SaveOK, SaveData
<1> HIDE DEF f
<1>3. /\ saved' \in Seq(File)
      /\ Len(saved') = Len(saved) + 1
      /\ \A i \in 1 .. Len(saved) : saved'[i] = saved[i]
      /\ saved'[Len(saved) + 1] = f
  BY <1>1, <1>2, AppendProperties
<1> QED
  BY <1>1, <1>2, <1>3, LenProperties

(* Every frame that was begun is accounted for: nothing is lost, and nothing *)
(* is written twice.                                                         *)
LEMMA AllAccountedStep ==
  TypeOK /\ StopInv /\ BatchCount /\ CameraSound /\ AllAccounted /\ [Next]_vars => AllAccounted'
<1> SUFFICES ASSUME TypeOK, StopInv, BatchCount, CameraSound, AllAccounted, [Next]_vars,
                    ncmd' = 0, CamFailures = {}, th_expo_stop' \subseteq {"joined"}
             PROVE  /\ \A i \in DOMAIN saved' : saved'[i].id = i
                    /\ Saving' => cur'.id = Len(saved') + 1
                    /\ \A i \in DOMAIN data_q' : data_q'[i].id = Held' + i
                    /\ Held' + Len(data_q') = Taken'
  BY DEF AllAccounted
<1> USE PlacesTyped
<1>0. ncmd = 0 /\ ~HttpNext /\ th_expo_stop \subseteq {"joined"}
  BY NoRequest, FlagOnlyRises
<1>1. /\ \A i \in DOMAIN saved : saved[i].id = i
      /\ Saving => cur.id = Len(saved) + 1
      /\ \A i \in DOMAIN data_q : data_q[i].id = Held + i
      /\ Held + Len(data_q) = Taken
  BY <1>0 DEF AllAccounted
<1>2. Len(saved) \in Nat /\ Len(data_q) \in Nat /\ frame \in Nat
  BY LenProperties DEF TypeOK, SaveOK, QueueOK, CamOK
<1>3. CASE ExpoNext
  <2>1. UNCHANGED <<saved, cur>> /\ (Saving' <=> Saving) /\ Held' = Held /\ Held \in Nat
    BY <1>2, <1>3, ExpoKeeps DEF saveVars, Saving, Held
  <2>2. CASE PushFrame
    <3>1. Taken = frame - 1 /\ Taken' = frame
      BY <2>2 DEF PushFrame, Goto, Taken, camVars
    <3>2. ASSUME NEW i \in DOMAIN data_q' PROVE data_q'[i].id = Held' + i
      <4>1. CASE i \in DOMAIN data_q
        BY <1>1, <2>1, <2>2, <4>1, Pushed
      <4>2. CASE i = Len(data_q) + 1
        <5>1. data_q'[i] = [buf |-> imgBuf, id |-> frame]
          BY <2>2, <4>2, Pushed
        <5>2. data_q'[i].id = frame
          BY <5>1
        <5>3. Held + Len(data_q) = frame - 1
          BY <1>1, <3>1
        <5> QED
          BY <1>2, <2>1, <4>2, <5>2, <5>3
      <4> QED
        BY <2>2, <3>2, <4>1, <4>2, Pushed, Queued
    <3>3. Held' + Len(data_q') = Taken'
      <4>1. Len(data_q') = Len(data_q) + 1
        BY <2>2, Pushed
      <4> QED
        BY ONLY <1>1, <1>2, <2>1, <3>1, <4>1
    <3> QED
      BY <1>1, <2>1, <3>2, <3>3
  <2>3. CASE ~PushFrame
    <3>1. UNCHANGED data_q
      BY <1>3, <2>3, Framing DEF queueVars, ExpoNext, ExpoLockRing, ExpoLockPush,
        ExpoLockDrop, ExpoLock, ClaimBuffer, RingOverflow, DropFrame,
        ExpoWaitCooling, ExpoExit, ExpoContinue, StartExposure, ExposureOver, FetchBegin,
        FetchDone, FetchFailed, CountLoad, CountStore, Move
    <3>2. Taken' = Taken
      <4>1. pc["expo"] \notin {"lock_drop", "drop"} /\ pc'["expo"] \notin {"lock_drop", "drop"}
        BY <1>0, CameraSoundStep DEF CameraSound
      <4>2. "overflow" \notin th_expo_stop'
        BY DEF StopOK
      <4> QED
        BY <1>2, <1>3, <2>3, <4>1, <4>2 DEF Taken, ExpoNext, ExpoWaitCooling, ExpoExit,
          ExpoContinue, StartExposure, ExposureOver, ExpoLockRing, ExpoLockPush, ExpoLockDrop,
          ExpoLock, ClaimBuffer, RingOverflow, FetchBegin, FetchDone, FetchFailed, DropFrame,
          CountLoad, CountStore, Move, Goto, camVars
    <3> QED
      BY <1>1, <2>1, <3>1, <3>2
  <2> QED
    BY <2>2, <2>3
<1>4. CASE DataNext
  <2>1. Taken' = Taken
    BY <1>4, DataKeeps DEF Taken
  <2>2. CASE DataPick \/ DrainPick
    <3>1. PopFrame /\ ~Saving /\ Saving' /\ saved' = saved
      BY <2>2 DEF DataPick, DrainPick, Goto, Saving, saveVars
    <3>2. Held = Len(saved) /\ Held' = Len(saved) + 1
      BY <1>2, <3>1 DEF Held
    <3>3. /\ Len(data_q) >= 1 /\ DOMAIN data_q = 1 .. Len(data_q)
          /\ cur' = data_q[1]
          /\ Len(data_q') = Len(data_q) - 1 /\ DOMAIN data_q' = 1 .. Len(data_q) - 1
          /\ \A i \in DOMAIN data_q' : data_q'[i] = data_q[i + 1]
      BY <3>1, Popped, Queued
    <3>4. cur'.id = Len(saved') + 1
      BY <1>1, <1>2, <3>1, <3>2, <3>3
    <3>5. ASSUME NEW i \in DOMAIN data_q' PROVE data_q'[i].id = Held' + i
      <4>1. i \in Nat /\ i + 1 \in DOMAIN data_q /\ data_q'[i] = data_q[i + 1]
        BY <1>2, <3>3
      <4>2. data_q[i + 1].id = Held + (i + 1)
        BY <1>1, <4>1
      <4> QED
        BY <1>2, <3>2, <4>1, <4>2
    <3>6. Held' + Len(data_q') = Taken'
      BY <1>1, <1>2, <2>1, <3>2, <3>3
    <3> QED
      BY <1>1, <3>1, <3>4, <3>5, <3>6
  <2>3. CASE DataSave \/ DrainSave
    <3>1. PICK from, to : SaveData(from, to)
      BY <2>3 DEF DataSave, DrainSave
    <3>2. Saving /\ ~Saving' /\ UNCHANGED <<cur, data_q>>
      BY <2>3 DEF DataSave, DrainSave, SaveData, Goto, Saving, queueVars
    <3>3. Held = Len(saved) + 1 /\ Held' = Len(saved')
      BY <1>2, <3>2 DEF Held
    <3>4. /\ Len(saved') = Len(saved) + 1
          /\ \A i \in DOMAIN saved : saved'[i] = saved[i]
          /\ DOMAIN saved = 1 .. Len(saved) /\ DOMAIN saved' = 1 .. Len(saved) + 1
          /\ saved'[Len(saved) + 1].id = cur.id
      BY <3>1, SavedOne
    <3>5. \A i \in DOMAIN saved' : saved'[i].id = i
      BY <1>1, <1>2, <3>2, <3>4
    <3>6. Held' = Held
      BY <3>3, <3>4
    <3>7. \A i \in DOMAIN data_q' : data_q'[i].id = Held' + i
      BY <1>1, <3>2, <3>6
    <3>8. Held' + Len(data_q') = Taken'
      BY <1>1, <2>1, <3>2, <3>6
    <3>9. ~Saving'
      BY <3>2
    <3> QED
      BY ONLY <3>5, <3>7, <3>8, <3>9
  <2>4. CASE ~(DataPick \/ DrainPick \/ DataSave \/ DrainSave)
    <3>1. UNCHANGED <<saved, cur, data_q>> /\ (Saving' <=> Saving)
      BY <1>4, <2>4 DEF DataNext, DataCheck, DataLock, DataEmpty, SaveFailed, DrainRace,
        DrainEnd, Move, Goto, Saving, saveVars, queueVars
    <3> QED
      BY <1>1, <2>1, <3>1 DEF Held
  <2> QED
    BY <2>2, <2>3, <2>4
<1>5. CASE MainNext
  <2>1. Taken' = Taken
    BY <1>5, OthersKeep, MainKeeps DEF Taken, MainNext, ExpoLoopStart, ExpoLoopWait,
      DataSavingWait, MonitorWait, Move, Goto, StopInv
  <2> QED
    BY <1>1, <1>5, <2>1, MainKeeps DEF saveVars, queueVars, Saving, Held
<1>6. CASE Other
  BY <1>1, <1>6, OtherStep DEF saveVars, queueVars, Saving, Held, Taken
<1> QED
  BY <1>3, <1>4, <1>5, <1>6, NextCases

-----------------------------------------------------------------------------
(* The inductive invariant of the counters.                                  *)
CInv == IInv /\ StopServed /\ StartServed /\ JoinInv /\ BatchCount /\ CameraSound /\ AllAccounted

LEMMA CInvInit == Init => CInv
<1> SUFFICES ASSUME Init PROVE CInv
  OBVIOUS
<1>1. /\ pc["expo"] = "unborn" /\ pc["data"] = "top" /\ pc["main"] = "launch"
      /\ pc["http"] = "idle" /\ cmd.op = "none" /\ frame = 0 /\ expo_cnt = 0
      /\ exp_status = "idle" /\ data_q = <<>> /\ saved = <<>>
  BY DEF Init, FirstPlaces, Threads
<1>2. StopServed /\ StartServed /\ JoinInv /\ BatchCount /\ CameraSound
  BY <1>1 DEF StopServed, StartServed, JoinInv, BatchCount, CameraSound, Served
<1>3. AllAccounted
  BY <1>1 DEF AllAccounted, Held, Taken, Saving
<1> QED
  BY <1>2, <1>3, IInvInit DEF CInv

LEMMA CInvStep == CInv /\ [Next]_vars => CInv'
BY IInvStep, StopServedStep, StartServedStep, JoinInvStep, BatchCountStep, CameraSoundStep,
   AllAccountedStep DEF CInv, IInv

(* The counts of exposures begun, fetched, queued and saved agree, and those *)
(* that a request still allows are bounded, in every reachable state.        *)
THEOREM CountInvariant == Spec => []CInv
BY CInvInit, CInvStep, PTL DEF Spec

(* After a stop_expo that main does not overwrite at most two more exposures *)
(* are begun, for any width of the counter and whatever the threads' order.  *)
THEOREM StopBounded == Spec => []StopBeginsAtMostTwo
<1>1. CInv => StopBeginsAtMostTwo
  <2> SUFFICES ASSUME CInv, Served("stop"), cmd.fresh PROVE frame <= cmd.mark + 2
    BY DEF StopBeginsAtMostTwo
  <2>1. frame + Passed + Zero <= cmd.mark + 2
    BY DEF CInv, StopServed
  <2>2. frame \in Nat /\ cmd.mark \in Nat /\ Passed \in {0, 1} /\ Zero \in {0, 1}
    BY DEF CInv, IInv, TypeOK, CamOK, CmdOK, Passed, Zero
  <2>3. \A f, m \in Nat : \A p, z \in {0, 1} : f + p + z <= m + 2 => f <= m + 2
    OBVIOUS
  <2> QED
    BY <2>1, <2>2, <2>3, Zenon
<1> QED
  BY <1>1, CountInvariant, PTL

(* A start_expo/N that finds expo at rest takes exactly N exposures before   *)
(* expo rests again.                                                         *)
THEOREM StartTakes == Spec => []FreshStartTakesN
<1>1. CInv => FreshStartTakesN
  <2> SUFFICES ASSUME CInv, Served("start"), cmd.fresh, Idle PROVE frame = cmd.mark + cmd.n
    BY DEF FreshStartTakesN
  <2>1. Counting(cmd.mark, cmd.n)
    BY DEF CInv, StartServed, Served
  <2>2. expo_cnt \in Nat /\ cmd.n \in Nat /\ cmd.mark \in Nat
    BY DEF CInv, IInv, TypeOK, CountOK, CmdOK, ULong
  <2> QED
    BY <2>1, <2>2 DEF Counting, CountsFrom, Idle, Reached
<1> QED
  BY <1>1, CountInvariant, PTL

(* A batch run that nothing disturbs leaves ExpoCount files, one for each    *)
(* exposure, in order.                                                       *)
THEOREM BatchLeavesAll == Spec => []BatchComplete
<1>1. CInv => BatchComplete
  <2> SUFFICES ASSUME CInv, pc["main"] = "joined_all", th_expo_stop = {"joined"}, ncmd = 0,
                      CamFailures = {}
               PROVE  /\ frame = ExpoCount /\ Len(saved) = ExpoCount
                      /\ \A i \in 1 .. ExpoCount : saved[i].id = i
    BY DEF BatchComplete
  <2>1. pc["expo"] = "done" /\ pc["data"] = "done"
    BY DEF CInv, JoinInv
  <2>2. Reached /\ Counting(0, ExpoCount)
    BY <2>1 DEF CInv, BatchCount
  <2>3. frame = ExpoCount
    <3>1. expo_cnt \in Nat /\ ExpoCount \in Nat
      BY CounterAssumption DEF CInv, IInv, TypeOK, CountOK, ULong
    <3> QED
      BY <2>1, <2>2, <3>1 DEF Reached, Counting, CountsFrom
  <2>4. data_q = <<>>
    BY <2>1 DEF CInv, IInv, DoneInv
  <2>5. Len(saved) \in Nat /\ DOMAIN saved = 1 .. Len(saved)
    BY LenProperties DEF CInv, IInv, TypeOK, SaveOK
  <2>6. Held = Len(saved) /\ Taken = frame
    BY <2>1, <2>5 DEF Held, Taken, Saving
  <2> QED
    BY <2>3, <2>4, <2>5, <2>6 DEF CInv, AllAccounted
<1> QED
  BY <1>1, CountInvariant, PTL
=============================================================================

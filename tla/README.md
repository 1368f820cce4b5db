# Verification of auto_expo

`auto_expo` drives ZWO cameras without attention: it takes exposures in a loop,
writes them to FITS files and is controlled over HTTP. Around it, Python
scripts spread the files over disks and systemd units start and stop it; below
it, the repository carries the HTTP server library it is linked with. This
directory holds TLA+ models of all of these, their TLC runs, and TLAPS proofs.
`PROJECT.json` lists components, runs, mutants, the map from definitions to
source lines, findings, hazards and theorems.

## Inventory

All of the program's own C++ is `src/auto_expo.cpp`. The library is
`src/uWebSockets`: uSockets in C (sockets on an event loop), and uWS in C++
headers (HTTP and WebSockets on them).

| Part | State | Operations | Talks to |
|---|---|---|---|
| Exposure thread (`expo_loop_start`, 788-909) | `loop_cnt`, `expo_cnt`, the ring, `buf_to_proc` | wait for cooling; expose, fetch into a ring buffer, queue | camera SDK; saving thread through `data_q` under `mtx_data` |
| Saving thread (`data_saving_start`, 699-737; `save_data`, 601-697) | `data_q`, `buf_to_proc`, `std::gmtime`'s buffer | pop and save; after the stop flag, drain | file system; saving threads of other cameras |
| Monitor thread (739-764) | `real_temp` | poll the temperature | exposure thread (`expo_wait_cooling`) |
| Settings (399-495, 541-599, 1041-1102) | `expo_ms`, `cool_temp`, the control values | read, set, check every control; image format | camera SDK; header of a file |
| Count commands (496-506, 1138-1156) | `loop_cnt`, `expo_cnt` | `start_expo/N`, `stop_expo` | exposure thread, by plain stores |
| Errors and suicide (378-397, 1113-1132) | `err_cnt`, `conn_err_count`, the alarm | raise `th_expo_stop`, `alarm(20)` | all threads of a camera, or of all of them |
| Lifecycle (`main`, 946-1211; `sig_handler`, 920-944) | thread handles, `httpstub`, lock file | init, launch, join, close | everything |
| GPS (258-337) | the last fix, libgps' handle | poll gpsd, read, reconnect | metadata of a frame |
| `scripts/file_dispatch.py` | `SELECT`, `ACTUAL_CANDIDATE` | on_created: move the file; checkCandidate: choose a disk | the files auto_expo writes |
| `scripts/mount_check.py` | chosen disk, link, flag file | start and stop the services | systemd, auto_expo |
| systemd units, `should_i_start.py` | timer, restart | start, restart, trigger, stop | auto_expo, its lock file |
| uSockets loop (`loop.c`, `context.c`, `socket.c`, `eventing/libuv.c`) | lists of sockets, iterators, closed list | timer sweep, dispatch, close, adopt, connect, free | callbacks of the application |
| uSockets `epoll_kqueue.c`, `gcd.c` | ready polls; sources | start, change, stop, resize a poll | the kernel; not compiled into auto_expo |
| `AsyncSocket`, `HttpContext`, `HttpResponse` | cork buffer, backpressure, response state | write, cork, end, timeouts | kernel, handlers |
| `HttpParser`, `HttpRouter` | fallback buffer; tree of segments | cut reads into requests; find the handlers | `HttpContext` |
| `Loop::defer` | two queues, mutex | defer, wake, drain | other threads |
| `TopicTree` | tree of topics, triggered list | subscribe, publish, drain | WebSockets |
| `WebSocketProtocol`, `WebSocketContext`, `WebSocket` | spill, mask, fragments; shutting-down flag | cut reads into messages; send, end, close event | `AsyncSocket`, application |
| `asi_demo/*` | flags, image, format | two threads show images and take keys | camera SDK |
| `health_check/*`, TLS, compression, `function2.hpp`, library examples | | | see "Not modelled" |

What is hard here, and what would be correct:

* **Pipeline.** Two threads share a ring of 20 buffers and a queue. A buffer may
  not be reused while its frame waits; a frame must be saved once, in order,
  with its own image; overflow must be reported only if real; a stop must not
  lose frames, keep the mutex or leave a thread running.
* **Commands.** Requests write two plain counters that the exposure loop reads
  and increments. `start_expo/N` should give N exposures, `stop_expo` should
  bring the camera to rest.
* **Settings.** Any of a dozen camera calls may fail or round what it is asked;
  the header of a file should say what the camera does.
* **Watchdog and lifecycle.** An alarm that is armed again and again; joins in
  `main` and again in a signal handler that interrupts it; a listen socket
  closed from another thread. A process that gives up should end and be
  restarted; one that ends cleanly should leave nothing behind, and there should
  be one at a time.
* **Two cameras.** Saving threads share `std::gmtime`'s buffer and race to
  create the same directory.
* **Files and disks.** Files are moved on creation, not when complete; the disk
  check may stop for good; services stopped for full disks must come back.
* **The library.** Callbacks close, adopt and open sockets while the loop walks
  its lists; one cork buffer serves all sockets; reads cut requests and frames
  anywhere; everything has timeouts; other threads defer callbacks; publishing
  goes on while subscribers leave.

## Modules

| Module | Content |
|---|---|
| `ASICamHandler` | one camera: all its threads, `main`'s launch and joins, the HTTP requests; properties; mutants |
| `FrameStore` | abstract specification of the pipeline: capture in order, store in order |
| `ASICamHandlerProofs` | proofs about `ASICamHandler`: types; mutex, queue and stopping; the ring; the counters; that it implements `FrameStore` |
| `Settings` | `main`'s settings of one camera, the wait for the cooler, the monitor |
| `GPSInfo` | the GPS thread and an exposure thread that reads it |
| `SaveData` | `save_data` in the saving threads of several cameras |
| `Lifecycle` | the process: `main`, handler, handles, exposures under way, hotplug thread, alarm, HTTP thread, restart |
| `Services` | systemd, `mount_check.py`, `should_i_start.py`, auto_expo's lock file |
| `FileDispatch` | `file_dispatch.py` and the program that writes the files |
| `Demos` | the three demos: main thread and display thread |
| `Process` | composes these but `Lifecycle` into one state space |
| `ProcessProofs` | proofs about `Lifecycle`, the other six and `Process` |
| `SocketLoop` | uSockets over libuv |
| `Epoll`, `Gcd` | the other two event loops of uSockets |
| `AsyncSocket` | operators: write, uncork, flush |
| `HttpServer` | HTTP connections and responses; extends `AsyncSocket` |
| `WebSockets` | the life of a WebSocket; extends `AsyncSocket` |
| `HttpParser`, `HttpRouter` | requests out of reads; handlers out of URLs |
| `Defer`, `Topics`, `Frames` | `Loop::defer`, the topic tree, WebSocket framing |
| `LoopProofs` | proofs about `SocketLoop`, `Epoll`, `Gcd` and `Defer` |
| `WebProofs` | proofs about `AsyncSocket`, `HttpServer` and `WebSockets` |
| `RecursionLemmas` | functions defined by recursion, least numbers, sequences: what the next two cite |
| `StreamProofs` | proofs about `HttpParser`, `Topics` and `HttpRouter` |
| `FramesProofs` | proofs about `Frames` |
| `Server` | composes the ten specifications of the library; the inputs of its instance |
| `ServerProofs` | that the theorems about the ten hold in the composition |

### ASICamHandler and the code

`pc[t]` is where thread t is. Each action is the code from one point at which
another thread can intervene to the next:

| Code | Actions |
|---|---|
| `main` 1187-1196 | `ExpoLoopStart`, `ExpoLoopWait` (which raises the stop flag *after* the join), `DataSavingWait`, `MonitorWait` |
| loop tests 809-817 | `ExpoExit`, `ExpoContinue`; resting with `keep_running` is stuttering |
| exposure 819-862 | `StartExposure`, `CameraDone` (the camera), `ExposureOver` |
| `gen_buff` and the check 864-877 | `ExpoLockRing`, then `ClaimBuffer` or `RingOverflow` |
| `ASIGetDataAfterExp` 878-889 | `FetchBegin`, then `FetchDone` or `FetchFailed`; in between the buffer holds no image |
| push / give back 884-886, 901-903 | `ExpoLockPush`, `PushFrame`; `ExpoLockDrop`, `DropFrame` |
| `expo_cnt++` 887, 904 | `CountLoad`, `CountStore` |
| saving loop 708-724 | `DataCheck`, `DataLock`, `DataEmpty`, `DataPick`, `DataSave`, `SaveFailed` |
| last loop 725-733 | `DrainPick`, `DrainSave`, `DrainEnd`, and `DrainRace` for the unlocked containers |
| requests 496-506 | `StartExpo`, `ResetExpoCount`; `StopExpo`, `StopExpoCnt`, `StopLoopCnt` |
| hotplug thread, alarm | `HotplugStop`, `HotplugAlarm`, `AlarmFires` |

Abstractions:

* An image is the number of its exposure, and 0 is a buffer with no complete
  image. `save_data` reads its buffer in one step; that it may be written over
  *before* that step is enough to see a torn file. Saving takes as long as it
  likes, because the other threads may run between `DataPick` and `DataSave`.
* `th_expo_stop` is the set of those who raised it; the code sees only whether
  it is empty. `cmd` remembers the latest request and is read by properties
  only (the code has no such variable), as is `saved`.
* The size of `unsigned long` is a constant; counters wrap.
* `loop_cnt` and `expo_cnt` are plain variables shared by two threads: each
  store, and each load of an increment, is one step. The tests at the loop's head
  (`Reached`, 810 and 814) read both counters in one step. If a request's stores
  fall between the separate reads, the test decides as it does in one of the
  states before, between and after them, with one exception: a `start_expo/0`
  after `loop_cnt > 0` was read can make the comparison true. With `keep_running`
  that is a second of sleep; without, the loop ends although it was told to go on.
  No exposure begins by it, so the bounds on exposures are not affected.
* The last loop's race on `std::queue` and `std::unordered_set` is undefined
  behaviour: either the pop happens as if alone (`DrainPick`) or the process goes
  down (`DrainRace`). Other outcomes are not modelled.
* `FetchDone` takes what the camera hands out for the image of the exposure,
  whatever its status was (847-862 only count the error). What the SDK hands out
  after a failed exposure is said nowhere in the repository; `QueuedSafe` and
  `InOrder` are not about that.
* How much time passes is the environment's choice: whether half an hour has
  gone by between two errors, when the camera is done or cold enough, when the
  alarm fires.
* The HTTP thread serves one request at a time, as the event loop does.

Left out here and found in other modules: the SIGINT handler and the end of the
HTTP thread (`Lifecycle`), GPS (`GPSInfo`), the temperature (`Settings`), more
than one camera (`SaveData`, `Lifecycle`).

### The modules of Process and the code

* **Settings.** `todo` is the set of controls that a phase has still to go
  through, taken in `Order`. `SaveCtrlVal`,
  `SetControl` and `SetExpoMilliSec` are the calls with their reads back, each of
  which may fail; `SetupAborts` is the `abort` of a refused setting;
  `SetROIFormat` ends the setup. A value says where it came from (command line,
  camera's default, camera's rounding). `WaitRound`, `WaitOver` and
  `StopWaiting` are `expo_wait_cooling`, with `MonitorRead` at any moment.
* **GPSInfo.** The thread's loop is `LoopTest`, `GpsOpen`, `GpsWaiting`,
  `GpsRead`, `GpsReadDone` and `GpsLost`. `gps_data` is written in two steps and
  read, group by group as in `addGPSinfo`, in `GetLatLonAlt`, `GetTime`,
  `GetConnected`.
* **SaveData.** `SaveBegin` is the call of `gmtime` and overwrites `utctm`, which
  `PutDate`, `PutDir` and `WriteFile` read later. `CreateDirectories` finds the
  directory missing in one step and makes it in another.
* **Lifecycle.** `at` is the place of `main`, `sig` that of the handler on its
  stack; both go through `AfterJoin`'s order. `handle` says which pointers are
  not null. Frames are counted (`queued`). The exposure thread tests the flag
  before an exposure (`ExpoBegins`) and not again: one that is under way
  (`exposing`) goes on when the flag goes up, and `Expose` queues its frame, also
  after the saving thread has ended. `caught` is history: the cameras whose flag
  went up in the middle of an exposure. `HandlerNullHandle` and `HandlerJoinRefused` are the two ways in
  which the handler brings the process down. A tick is five seconds:
  `HotplugCheck` is the thread's check, and counts the alarm down unless it arms
  it again. `Restart` is `Restart=always`; the lock is in `Services`.
* **Services.** `check` is the place in `mount_check.py`'s loop; `proc` are the
  two processes that can exist, started by the service and by
  `should_i_start.py`. Each opens the lock file (`OpenLock`) and tries the lock
  (`TryLock`): only a lock that is held turns it away (`Held`, `EWOULDBLOCK`).
  When the file cannot be opened or `flock` fails otherwise it runs without, and is
  in `unlocked`. `should_i_start.py` looks for the flag in another directory
  than the checker writes it to, so it never finds one.
* **FileDispatch.** `StartChecks`, `DoCheck` and `SelectTarget` are one round of
  `checkCandidate` with its timeout; with no candidate the loop is `gone`.
  `OnCreated`, `Mkdir`, `Copy` and `Unlink` are the move, which may break off
  after each (`MoveFails`).
* **Demos.** `main` and `show` are the places of the two threads, which share
  plain flags; a key is two writes. The three programs differ in keys, formats
  and in what a change of format does. The camera may be an ASI120 (`asi120`), which
  refuses what the demo's own message says it refuses (`RuleOf120`): with sizes in
  units of 160 x 120, the odd ones.

### The modules of Server and the code

* **SocketLoop.** `round` is the place in `uv_run`'s round. A socket is its slot
  with `prev`, `next`, `context`, type, events and libuv state; `Unlink`,
  `Link`, `MoveIterator` are the pointer work of `context.c`. A callback is a
  state of its own, in which the application makes up to `MaxCalls` calls
  (`CallClose`, `CallShutdown`, `CallTimeout`, `CallWriteFails`, `CallAdopt`,
  `CallConnect`) on any socket, and a `Return...` action does what the code does
  with the result. `MainClosesListener` comes from the other thread.
* **Epoll.** `ready_polls` is the array of one wait, `current` the loop's index;
  `UpdatePending` is `us_internal_loop_update_pending_ready_polls`. A poll with
  no events that is resized keeps its old address in the array, as in the code.
* **Gcd.** How often each source is suspended, by `Start`, `Change`, `Stop`,
  `ResizeGcd`, `Free`.
* **AsyncSocket.** No state of its own: operators on the record of sockets, cork
  and the kernel's buffers. `torn` remembers the connections that met one of the
  two places where the code drops or misdelivers a chunk.
* **HttpServer.** `handling` is the callback under way and what is left of its
  data. `OnOpen`, `OnData`, `OnRequest`, `OnBody`, `Uncorked`, `OnWritable`,
  `OnEnd` and the timeout are the lambdas of `HttpContext::init`; `WriteHead`,
  `WriteChunk`, `EndChunks`, `EndBody` are the calls of a handler.
* **WebSockets.** `Upgrade`, `OnFrames`, `MessageHandler`, `CloseFrame`,
  `OnWritableWs`, `OnEndWs`, `OnTimeoutWs`, and `Sent`, `End`, `CloseWs` of the
  application, from a handler or from outside (`Acts`).
* **HttpParser, Frames.** A read is any piece of the stream (`Consume`,
  `OnRead`); then one action per branch of the parsers: the head in the fallback
  buffer or the spill, the rest of a body or payload, refusal.
* **HttpRouter.** The state is only the patterns added: a node is a path, and its
  children come in the order in which patterns made them (`MakesChild`). The
  search is a recursive function by the segments of the URL that are left
  (`executeHandlers`), which for each node goes over its children (`Children`) with
  the stack of parameters in hand.
* **Defer.** `DeferCb` is the push under the mutex, `WakeupLoop` the wakeup after
  it; `WakeupCb` swaps the queues, `CallDeferred` and `QueueDrained` empty the old.
* **Topics.** A topic is its path. `Publish` begins a walk of the tree, which comes
  to every `'+'` on its way (`walkedTo`, `wildcards`), where the code calls itself
  again (151). At the start and at each of them a full array is drained
  (`PublishDrains`; a drain without subscribers only clears it), in the middle of
  the message; then the topics up to the next `'+'` are triggered
  (`PublishTriggers`). `DrainBegins` and `DrainNext` give one subscriber after the
  other, by address, its batch. The callback of a drain
  (`WebSocketContextData.h` 52-71) writes the batch and does nothing else, but the
  write may close the subscriber's socket for its backpressure (`UnsubscribeAll` of
  `min`); the walk may then stand on a freed node (`WalksOnFreed`). `split` is history: the messages whose publish a drain
  interrupted. `undefined` names five ends that the code does not exclude, and
  nothing is claimed after one of them: a node that is freed and used, by a walk or
  by a subscriber's list that holds it twice; topics freed in a drain, which shift
  the array under its iterators; an array that is filled past its end between two
  drains; a drain with a topic that has no subscriber, which never ends; and one
  with more topics than the `int` that marks them has bits (`IntBits`).

## Runs

| Run | Instance | Shows |
|---|---|---|
| `Pipeline` | 4 exposures, every camera call may fail, unplugging | type invariant; queued frames are tracked and intact; only a lapped frame can be torn; at most one frame lost, none if the camera stops of itself; overflow is said only when real; `FrameStore` is implemented |
| `Batch` | 3 exposures asked for, 4 possible, files may fail | exactly those three are taken and saved, then everything ends |
| `Commands` | 3 requests of start 0, start 2, stop; 3 exposures; fairness | at most two exposures begin after `stop_expo`, and the camera comes to rest; a `start_expo/N` that finds the camera at rest gives N |
| `Joins` | 3 exposures, failures, unplugging; fairness | a raised stop flag leads to the joins; queued frames reach files |
| `Process` | the parts around the pipeline, see below; fairness | headers, GPS handle, file names, one instance, services and disks, moved files, demos; what must end ends |
| `Lifecycle` | two cameras, unplugging, signals, hanging calls; fairness | what a process that returns leaves behind: at most the frame of the exposure that the flag interrupted; a stopped process ends |
| `Server` | the library, see below; fairness | lists, sweeps, writes, polls, streams, timeouts, deferral, topics, frames, close events, FIN, requests, routes; what is taken up gets done |
| `StartTakesN` | violation | `start_expo/N` during an exposure gives fewer than N |
| `StopExposure` | violation | `stop_expo` before the loop is launched has no effect |
| `SavedIntact` | violation | a file may hold another exposure's bytes |
| `AlarmEndsProcess` | violation | with the number of cameras wrong, the alarm is put off every five seconds; a camera call that hangs then keeps the process for ever |
| `MarksEveryTopic` | violation | a drain may have 64 topics, and marks them by shifting an `int` of 32 bits |

In `StartTakesN` and `StopExposure` the property is what the README says of the
requests; `Commands` shows what is left of it. In `SavedIntact` it is what the
log line says; `OnlyLappedFramesTorn` says exactly how far the code falls short. In
`AlarmEndsProcess` it is what the alarm is there for, by the log line and the
comment next to it; `StoppedProcessEnds` is what holds instead. In
`MarksEveryTopic` it is the comment on the size of a batch, with two topics and
one bit in place of 64 and 32.

Four more disagreements have no run of their own; the model reaches each of them, and
the property that passes names it as its exception:

* "saving cached data..." (`auto_expo.cpp` 725): the frame of the exposure that was
  under way when the flag went up can be queued when the saving thread has ended,
  and is lost (`AtMostOneLost`, `LeavesOnlyInFlight`).
* "process singleton lock" (956): if the lock file cannot be opened, or `flock` fails
  for another reason than that it is held, the error is logged (967) and the process
  drives the cameras beside the one that has the lock (`OneInstance`).
* "ASI120's data size(width*height) must be integer multiple of 1024"
  (`main_SDK2_video.cpp` 276): from 640 x 480, the key for a smaller image and bin 2
  lead to 160 x 120; the camera refuses it and the demo goes on with it
  (`DemoShowsRightly`, which is about "snap").
* "Global messageId for deduplication of overlapping topics"
  (`TopicTreeDraft.h` 72): deduplication is per drain, and a publish that comes to
  a `'+'` with 64 topics triggered drains in its middle (151, 124-126): a subscriber
  to a topic before the `'+'` and to one behind it gets the message twice
  (`MessagesOnceInOrder`).

### The instances of ASICamHandler

`NBuf` is 2 and `ErrLimit` 2 everywhere (20 and 16 in the code): with two
buffers the ring wraps within three exposures, one buffer can be saved, one
queued and a third demanded; two errors are enough to tell the first from the
last. `ULONG_MAX` is 6 or 7, above every count reached by increments
(`MaxFrames`), so that, as in the code, only `stop_expo`'s store of
`ULONG_MAX - 1` can lead to a wrap. `MaxFrames` bounds exposures and `MaxCmds`
requests. Four exposures go twice round the ring, which is what tearing,
overflow and a buffer that is not given back need. Three requests are what a
reset between two others needs, and three exposures are one more than may follow
a `stop_expo` or a start of 2. `CHECK_DEADLOCK` is on: `Ended` stutters when
the process has ended or `main` has joined everything, and resting is not the
end of the process because the hotplug thread, requests and the saving thread's
polling go on. No constant of a run is a set of interchangeable model values
(exposure numbers, cameras, disks and addresses are ordered, threads have
names), so there is no symmetry to use, and the cfgs give every constant a plain
value.

### Process and Server

Their parts share no variables. Instead of a run for each, the two roots hold
them side by side (`Lifecycle`, the largest, has a run of its own): `part` is chosen in `Init`, the part it names takes steps, and
the others stay in one initial state, so that the state space is the sum of the
parts and not their product. Deadlock is not checked in these runs: a part stops
where the process aborts or terminates, where a demo or the loop has ended, or
at a bound.

What the bounds of `Process` and `Lifecycle` allow:

* Settings: three controls of `main`'s list, among them the two that go through
  functions of their own (temperature, exposure); `WaitMax` 3 rounds for 1000.
* GPS: two fixes, so that a header can mix them. SaveData: two cameras and one
  change of the hour, so that the names can differ.
* Lifecycle: two cameras, so that the order of joins matters and a camera can be
  stopped alone; a ring of 2 (20), so that more than one frame can wait; an alarm
  of 2 ticks (4 in the code), so that it can be put off, set at the first mismatch
  (after three in the code and in `AlarmEndsProcess`); one change in the number of
  cameras (`MaxTicks`); library calls may hang.
* Services and FileDispatch: two disks and two files, so that a choice changes
  while a file is on its way; days 4 and 5, one for each disk.
* Demos: all three programs, with cameras that are and are not an ASI120, two keys
  (two changes of format, or one and the key to quit), a sensor of 8 units, which
  must not be exceeded and can be halved, by the key and by bin 2, to one.

What those of `Server` allow:

* SocketLoop: three sockets (a list with an inner element), two calls in a
  callback (close oneself and a neighbour), and applications that make three
  kinds of calls each (`SomeApplications`).
* Epoll, Gcd: two polls, one acting on the other.
* HTTP: two connections with two requests each, a kernel that takes 2 tokens and
  a cork buffer of 4, less than two answers, so that every write can be partial
  and the cork can overflow; servers of one or two kinds of handlers.
* Defer: one other thread and the loop's own, two callbacks each, more than one
  swap. Topics: two subscribers, three overlapping topics, one with a `'+'`, an
  array of two, two messages and four calls, so that it is full when a walk begins
  and when it comes to the `'+'`; two bits, so that all of the array can be
  drained (one in `MarksEveryTopic`). Frames: three frames of every kind, payload
  of up to 3 with a mask of 2. WebSockets: one socket, five frames, backpressure
  of 1. Parser: three requests, heads shorter and longer than the fallback
  buffer. Router: three of eight patterns and seven URLs, which make parameters,
  wildcards and backing out meet.

What the properties say of the code, and where the code falls short of what one
would expect:

* `HeaderSettingsTrue`: the exposure time in a header is the camera's. The
  temperature may be wrong if the camera refused both to be read and to be set.
* `MisfiledOnlyByOverlap`: a wrong date, directory or name, and the abort for a
  directory that another camera made, need two saving threads at once; both can
  happen.
* `LeavesOnlyInFlight`, `StoppedProcessEnds`: the handler may crash the process on
  a null handle or a second join. A process that returns has left no thread, camera
  or HTTP loop, and of each camera at most the frame of the exposure that was under
  way when the flag went up, which nobody saves if the saving thread has ended; a
  camera whose flag went up between two exposures leaves none. A stopped process comes to an end after a stop if the listen socket was known when
  `main` or the handler closes it (otherwise the HTTP thread never ends) and no
  library call hangs.
* `OneInstance`: whatever starts auto_expo, the lock lets one process through; two
  drive the cameras only if one of them runs without it, after an error of `open`
  or `flock`, which the code only logs.
* `ServiceFollowsSpace`: with every disk full the timer is off and only a trigger
  brings the service back; with space the timer is on, except that when space
  comes back on the disk linked before it stays off (`mount_check.py` 115).
* `FinishedFilesKept`: a file that is moved before auto_expo has finished it may
  end up cut (`"early"`); any other is whole somewhere.
* `DemoShowsRightly`: no demo shows an image that was released, and "snap", which
  reads the format back, takes pictures in the camera's. "video" and "mac" do not
  read it back, and go on in a format that was refused (a type that the camera has
  not, an odd half, or the rule of the ASI120).
* `WaitsEnd`: the wait for the cooler, the GPS thread that is told to stop, and a
  demo after its key to quit come to an end.
* `ReadyPollsLive`, `SourcesBalanced`: no callback of a wait can leave a later
  entry of `ready_polls`, or an address in the kernel, behind for a poll that was
  closed or moved; and no order of changes, resizes and the stop makes dispatch
  crash, or leaves a source running that the poll does not poll for.
* `StreamIsWhatWasWritten`, `FinComesLast`: up to two holes, in `torn`. A chunk
  that does not fit the cork buffer is dropped if flushing the buffer fails and
  the write is not optional, and what an `on_data` that closes its socket left
  in the buffer goes to the next one that corks; WebSocket frames with a big
  payload overtake those in the cork buffer.
* `IdleTimesOut`: between callbacks an open connection has its timeout armed
  unless only the application owes something, with the kinds of handlers in
  `RequestKinds`. WebSockets are not covered: the
  comparison in `WebSocketContext.h` 306-310 is the reverse of what it says, and
  without an `open` handler the timeout is never armed.
* `MessagesOnceInOrder`: as long as none of the five ends of `Topics` was met; and
  a message may come twice if a drain interrupted its publish (`split`).
* `DeliveredAsSent`: except that a compressed frame whose longer head is cut by
  a read is refused as compressed twice.
* `RequestsAsSent`: except that with `Content-Length: 0` and a cut head the last
  data never comes.
* `RoutesAsMatched`: a handler runs if and only if its pattern matches. A `*`
  is taken at the end of a pattern only; one further in, without a handler of
  its own, would end the search.

### Fairness

`ASICamHandler`: `WF` of each thread's steps: the operating system schedules
every thread. `WF(CameraDone)`: an exposure ends. `WF(HttpStores)` only: a
handler that began goes on, but no request need come. `SF` of taking the mutex:
`std::mutex` promises no fairness, but each thread leaves it alone for at least
100 us (a sleep, a file, an exposure) between two critical sections, so a waiter
that finds it free again and again gets it. Nothing is assumed about failures,
unplugging or the alarm, which may be put off for ever.

`Process`: `WF` of the GPS thread; of the rounds of the wait for the cooler; of the
demos' two threads and of an exposure's end. No key or trigger need come.

`Lifecycle`: `WF` of `main`, the handler, and of every camera's threads (the end of
an exposure, their ends once they are told to stop, and saving); of the HTTP
thread's start and end; of a client that goes, which the idle timeout of the
server sees to; of the hotplug check, which is time passing, and of a due SIGALRM.
A call that hangs is a step of its own, after which the thread has no fair step.
No exposure, signal or plug need come.

`Server`: `WF` of the handler under way, of `on_writable` while the kernel has
room, and of a client that reads what was sent (`ServerProgress` is about
clients that do, and about WebSockets whatever the client does); of the loop's
drain, and of a thread that has pushed a callback and is about to wake the loop.
`SF(Expires)`: the timeout of a socket that is shutting down. Other callbacks
come between and switch it off for a moment, but the sweep counts every four
seconds, so an expiry that is possible again and again happens.

## Proofs

All theorems hold for every value of the constants that the `ASSUME` of each
module allows: any number of cameras, threads, polls, sockets, connections and
files, any limits of buffers and counters, and any of the bounds that cap a run.
The assumptions only say what a constant is (a ring has a buffer, an `unsigned
long` is at least 2, a null pointer is not a slot). No theorem has a hypothesis
of its own.

`IInv`, `RInv` and what TLC can evaluate of `HttpInv` were checked on the bounds of
their runs before they were proved.

**The pipeline** (`ASICamHandlerProofs`).

* `TypeCorrect`: `TypeOK`, which is inductive alone. Before it come
  frame lemmas: which actions can change a variable at all.
* `Invariant`: `IInv`. `QueuedSafe` is not inductive: it needs that a thread in a
  critical section holds the mutex (`MutexInv`), that what is tracked is exactly
  the queue plus the buffer the exposure thread holds, no buffer twice
  (`TrackedInv`), and that a buffer about to be queued has its image
  (`IntactInv`). The two theorems on losses need how far the threads have come
  once the flag is up (`StopInv`, `DoneInv`): a thread that has passed its test of
  the flag can push once, and only if someone else raised it.
  From `IInv`: `QueueSafe`, `LossBounded`, `SelfStopSafe`.
* `RingInvariant`: `RInv`. That an overflow or a torn frame implies a full lap
  needs the position of the ring and every frame's buffer to follow the number
  of the exposure modulo `NBuf` (`PositionInv`, `EntryInv`), and the queue to be
  ordered and span less than a lap until an overflow (`WindowInv`). The step
  from "same buffer" to "NBuf apart" is lemma `ModApart`. From it:
  `TornOnlyIfLapped`, `OverflowJustified`.
* `Refines`: `Spec => InOrder`. Under `RInv` a push is `Capture`, the end of a
  save is `Store`, and every other step, a pick included, stutters.

**The counters** (`ASICamHandlerProofs`), from `CInv`, which is `IInv` and:

* `StopServed`, for `StopBounded`. The two exposures that `stop_expo` may still
  see are an account: what was begun, plus one if the thread has passed its tests
  (`Passed`), plus one if the count it will next compare is zero (`Zero`). The
  count that is compared next (`NextCount`) may still be in the register of the
  increment; the store of `ULONG_MAX - 1` makes it wrap to zero only when an
  increment was under way.
* `StartServed`, for `StartTakes`: until the count is reset a thread that was at
  rest stays there; from then on `Counting` says that the count, in memory or in
  the register, is that of the exposures begun since (`CountsFrom`). An exposure
  given up for want of a buffer is not counted, but then the camera is stopped.
* `BatchCount`, `CameraSound`, `AllAccounted` and `JoinInv`, for
  `BatchLeavesAll`: without requests the count runs to its target, and at every
  place each exposure is in a file, in a thread's hands or in the queue, in
  order.

**The parts of Process, and Lifecycle** (`ProcessProofs`); each has its type
invariant besides.

| Theorem | Needs |
|---|---|
| `HeaderSettings` | `KnownInv`: a control that is not what the camera has was refused, or its turn is still to come; `CopiedInv`: what is copied for the header when a control's turn has passed |
| `GpsHandle` | where in its loop the thread is connected (`GpsConnectedInv`) |
| `MisfiledOnlyByOverlapHolds` | a save that is still alone has its own hour in `gmtime`'s buffer (`AloneInv`) and in the name as far as it is made, and the directory it found missing is missing (`NamedInv`) |
| `CleanExit` | which threads are joined at every place of `main` and of the handler, whose places are ordered alike (`JoinsInv`); when a saving thread has ended the flag is up, and what is queued after that is one frame, of an exposure caught by it (`SavedInv`) |
| `OneInstanceHolds` | who runs and is not in `unlocked` holds the lock, and no one else (`LockInv`) |
| `ServiceFollowsSpaceHolds` | flag, timer and restart at every place of `mount_check`'s loop (`SpaceInv`) |
| `FinishedFilesKeptHolds` | a file is announced and moved once (`MovesInv`); its original or its copy is there at every place of the move (`KeptInv`). That taking an element out of the queue keeps this is lemma `NthInSet` |
| `DemoShows` | whoever clears the display flag is past showing, and main joins it before it releases the image (`ImageInv`); the format of "snap" is the camera's wherever it takes pictures (`SnapInv`) |

`ProcessTypes` and `ProcessSafety` carry the invariants of the six parts over to the
specification that TLC checks, whose every behaviour follows one part. The run of
`Lifecycle` checks the specification that `LifecycleTypesHold` and `CleanExit` are
about.

**The loop** (`LoopProofs`).

* `SourcesStayBalanced`: `CountsInv`, how often each source is suspended at each
  stage of a poll.
* `ReadyPollsStayLive`: pending entries, the current one included, are those of
  open polls (`PendingLive`), and no poll has more of them than `us_poll_stop` and
  `us_poll_resize` look for, two with kqueue and one with epoll (`PendingFew`);
  the kernel holds the open polls (`KernelInv`), and `num_polls` counts those not
  yet freed (`CountInv`).
* `DeferredRunInOrder`: `QueuesInv`, that the old queue is empty whenever it is not
  being drained, so that a swap puts no callback behind it.
* `LoopInvariant`: `LoopInv`. `ListsSound` is not inductive, as a list that is
  linked both ways could still run into itself: `Chain` adds an order of the list
  (a rank that grows along `next`). The closed list shares the pointers of the live ones
  and is `Freeable`: it reaches every closed socket whose memory is left.
  `CallInv` says whose callback may run and from where, `OwedInv` what a failed
  write leaves behind, and `SweepInv` what the sweep has still to visit:
  `Ahead` is the rest of its list from the iterator on, and it holds whatever a
  callback closes, adopts or opens, as `Unlink` moves the iterator.
  From it: `SocketListsSound`, `SweepVisitsEachOnce`, `FailedWriteTold`.
* `EpollTypesHold` and `SocketLoopTypes`: `num_polls` stays within the addresses, and no
  pointer leaves the memory for sockets. `MarksInv` is what the steps of the loop only
  narrow.

**HTTP and WebSockets** (`WebProofs`). The lemmas in front are about the operators
of `AsyncSocket`, and serve both: what a write, an uncork, a flush, a shutdown
and a close do to one socket, and that they leave the others alone.

* `Sane`: what has come to the client of an open connection, with what is on its
  way in the kernel, in its buffer and in the cork, is what was written to it;
  and a FIN went out only with nothing left.
* `WebSocketsInvariant` adds whose callback runs and what it may still call
  (`DoesOf`), and that exactly the closed and the shutting down have been told
  (`AllTold`). From it: `CloseIsToldOnce`, `FinIsLast`.
* `HttpInvariant` needs more of the cork: that it is flushed before the socket's own
  buffer fills (`Fine`), and that between callbacks no open connection is corked
  (`CorkOf`). `Running` is the timeouts: a connection at rest (`Resting`, `Idle`)
  has its timeout armed unless it waits for the application, and for the one
  whose callback runs `Awaits` says why what is still to be called arms it: the
  last call of every handler does. From it: `StreamIsKept`, `IdleIsTimed`.
* `WebSocketsTypes` and `HttpServerTypes`: the bounds that the types give are accounts
  over callbacks. What a socket sent and what its callback may still send, a frame for
  a call and two for a frame that is parsed, is bounded together (`SendsInv`).
  The requests that began and those of the data still to be parsed are no more than
  the client made (`Within`), as no call of a handler begins one (`Tame`).

**Streams, topics and routes** (`StreamProofs`, `FramesProofs`). What these parts
promise is said with recursive definitions: the meaning of a stream of frames,
the calls for a stream of requests, the arguments of a pattern, the search in the
tree. They are recursive functions, and `RecursionLemmas` says of such a function
that it exists, that it makes its steps, and that nothing else does (`StepsExist`,
`StepsAre`); that the code, taking one step after the other, arrives at its value
needs no induction but that of the invariant. Where a proof does go along the
numbers, it takes the least that would fail (`LeastNat`).

* `RequestsComeAsSent`: `ParserInv`. What was read is what the requests before hold,
  what was taken of the current one and what is still unread (`ReadInv`), whatever
  part of `consumePostPadded` is next (`PlacesInv`), and the handlers were called
  for what precedes that place (`GivenInv`).
* `FramesInvariant`: `FramesInv`. `FramePlaces` is the same account for frames, with the
  spill. `LegalInv` is about streams that mean something: what was given is
  what the frames before mean (`ToldInv`); between frames the stack of opcodes, the
  fragment buffer and the compression are those of the message that is open
  (`BetweenFrames`), and within one the mask is turned by what has come and the
  buffer holds that much of the payload (`InFrame`). From it: `FramesComeAsSent`,
  `FramesTypesHold`.
* `MessagesComeOnceInOrder`: `TopicsInv`, as long as nothing undefined was done. What is
  kept for a subscriber is newer than all it was sent, or is the message whose
  publish a drain interrupted (`SentInv`, `NotAfter`), which in a drain holds of
  those still to be served (`DrainInv`: they come behind the next one). A message is
  new when its walk begins, and a drain that finds it is a drain in its middle
  (`WalkInv`). What is due was sent, or is kept where the running drain or the next
  one will find it, or the walk has still to come to a topic of that subscriber
  (`DueInv`, `ToCome`). That the tree and both kinds of lists agree (`ListsInv`) is
  needed when a subscriber leaves in the middle of a drain. From it: `TopicsTypes`.
* `RoutesComeAsMatched`: the state is a sequence of patterns, and the theorem is
  about the search. By the number of segments left (`ExecuteRan`), and within that
  by the children of a node in their order (`ChildrenRan`): below a node run those
  handlers whose patterns match and go through it, each once, with the arguments of
  the way there before those of the rest; and the stack comes back as it was
  unless a handler accepted (`RanAsMatched`). That the children of a node partition
  the patterns through it (`BegunApart`, `BegunAll`) needs that exactly one pattern
  makes a child.

**The composition** (`ServerProofs`). A step of `Server` is a step of each part or
leaves the part alone (`PartsStep`). So `PartsRun`: a behaviour of `Server` is one of
every part whose specification states no fairness; the other three keep their
invariants without it (`FairPartsKeep`). `ServerSafe` is all of the run's safety
invariants, and `ServerTypes` the types of all its parts.

**Only model-checked.**

* Liveness (`StopJoinsAll`, `QueuedFramesSaved`, `StopIdles`, `WaitsEnd`,
  `StoppedProcessEnds`, `ServerProgress`): fairness is out of the prover's reach.

Every invariant and every action property that a passing run checks is a theorem.

## Not modelled

* TLS (`ssl.c`): the library is compiled with `WITH_SSL=0`, and the file is empty
  after the preprocessor.
* Compression and the negotiation of extensions (`PerMessageDeflate.h`,
  `WebSocketExtensions.h`, `WebSocketHandshake.h`), the UTF-8 check and the
  formatter of frames: functions on bytes with straight-line control. A
  compressed message is a flag in `Frames`.
* `function2.hpp`: templates that stand in for `std::function`.
* Header fields and their syntax in `HttpParser`; a head is a length.
* Timers and asyncs of `epoll_kqueue.c` and `gcd.c`. `SocketLoop` and `Defer` have
  their counterparts in libuv.
* When systemd's timers fire (they may at any time), the nightly reboot and the
  deletion of old files.
* `err_cnt` and `last_err`, statics that the exposure threads of all cameras
  share: any camera may reach the limit at any time (`TooManyErrors`).
* Calls that an application's close handler makes on the tree of topics when its
  socket is closed in the middle of a drain (subscribe, publish); in `Topics` such a
  socket only leaves its topics.
* An `idleTimeout` of 0 (`App.h` 91), which switches the timeouts of WebSockets off:
  `WebSockets` has one that is armed.
* `std::from_chars` on a malformed number; requests carry a small set of numbers.
* `health_check/*`: sequential scripts around `fsck` and `mount`. The library's
  examples, fuzzing and benchmarks.

## Plan

A composition of `ASICamHandler`, `SaveData` and `FileDispatch` that follows a frame
from the camera to a disk, with an abstract specification of it. The statics
`err_cnt` and `last_err` shared by two cameras. More topics in one publish than the
array has places left, to say what the overflow overwrites.

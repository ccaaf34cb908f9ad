# A TLA+ model of the PTF online converter

This directory models the part of the repository that turns the data of the
Photosensor Test Facility into ROOT files, the rootana library it stands on, and
the serial server the facility's instruments are reached through: the scan
converter `midas2root_ptf` with its driver script, the event loop in its offline
and online form, the live display, the lock that lets network threads use ROOT,
the histogram servers, the MIDAS file reader, events with their banks and decoded
data, and `ser2net` with its timers, telnet sessions, ports and configuration.

All paths below are relative to the repository. `PROJECT.json` has, for each
definition, the lines it models ("map"), the runs, the hazards with their
lines, and one mutation per checked property that the property must detect.

To repeat a result, in this directory:

    tlc -config ConvertRun.cfg MCConvertRun          # one run
    tlapm OnlineLoopProofs.tla                       # one proof module

## 1. The system

A PTF scan moves a gantry from point to point. The data acquisition writes a
run as a stream of MIDAS events, split over several subfiles. A bank `EOM`
marks the end of a move, a bank `BONM` the beginning of the next one; the
digitizer (`V730`), Phidget and slow control events in between belong to the
point.

| Component | State | Operations | Interacts with |
|---|---|---|---|
| Scan converter `midas2root/midas2root_ptf.cxx` | `gbl_accept_banks`, the tree and its file, member arrays of 12000 digitizer events and 10000 Phidget readings, their counters, slow control values | `main`, `initialize_tree`, `ProcessMidasEvent` | driven by the offline loop; its exit code is the flag for the next process |
| Driver script `midas2root/run_convert_to_root.sh` | `RETVAL`, the renamed files | loop over the subfiles, `mv`, `hadd` | starts a converter per subfile |
| Offline loop `rootana/libAnalyzer/TRootanaEventLoop.cxx` (`ProcessMidasFile`) | output file, current run | begin of run, event, end of file | reads with `TMidasFile`, calls the converter |
| Online loop (same file, `ProcessMidasOnline`) | `onlineEventLock`, output file, current run | transition handlers, event handler, leaving `app->Run` | called back by `TMidasOnline` from timers, also nested |
| `TMidasOnline` | connection, queued transitions | `connect`, `poll`, `checkTransitions`, `disconnect` | the MIDAS library |
| Display `rootana/libAnalyzerDisplay` | pause, quit and skip settings, cached event, plots | buttons, tabs, event processing | overrides the handlers of the loop; runs the GUI loop inside an event |
| ROOT lock `rootana/libNetDirectory/RootLock.cxx` | three semaphores, `fLocked` of each guard | `LockRoot`, `UnlockRoot`, guard, `ServerTimer::Notify` | main thread and all server threads |
| TNetDirectory server, old MIDAS server, XML server | one thread per connection, exported objects, pointer maps | the requests | look histograms up that the main thread creates and deletes |
| `TMidasFile` | descriptor, pipe or zlib handle, last error | `Open`, `Read`, `Close` | a file, a pipe from a decompressor or a remote command |
| `TMidasEvent` | header, data pointer and who owns it, bank list | copy, `SetData`, bank look-up and iteration | both loops, the decoders |
| `TDataContainer` and decoders | cache of decoded banks | one decoder per bank type | user code of an event |
| mPMT converter, older analyzers, histogram classes, `XmlOdb` | | | |
| `ser2net/selector.c` | a linked heap of timers, handlers and enable bits of descriptors | start, stop and call timers, one round of `select` | calls all handlers of the server |
| `ser2net/telnet.c` | the command being received, the commands to be sent, offered options | `process_telnet_data`, `telnet_send_option`, negotiation | between a session and its client |
| `ser2net/dataxfer.c`, sessions | a buffer and a state per direction, modem state, banner | the four handlers, `got_timeout`, `shutdown_port` | client, device, telnet layer |
| `ser2net/dataxfer.c`, `readconfig.c`, `ser2net.c`, ports | the list of ports, `new_config`, accept sockets, lock files, `config_num` | accept, `portconfig`, `clear_old_port_config`, `shutdown_port`, `setportenable` | the file is read again on SIGHUP, during sessions |
| `ser2net/controller.c`, `devcfg.c` | controllers, the port each monitors | `monitor`, `setportenable`, `disconnect` | the list of ports |
| `phidget/`, `roody/`, `caen_usb_dt5730/`, `vme/`, `mxml/` | | | other projects' or vendors' sources |

### What is hard about it

* **State across processes.** The flag is the only thing that survives from
  one subfile to the next, as an exit code that a dying process and a read
  error can also produce. Arrays and counters do not survive, and nothing
  clears the arrays between points.
* **Re-entrance.** A paused display runs the GUI loop inside the handler of an
  event. That loop runs the timer that polls MIDAS, which calls the event
  handler again. `onlineEventLock` is there for this; its comment asks whether
  it is safe. The data of the event being shown lie in a buffer that MIDAS
  reuses.
* **Threads.** Server threads use ROOT only while the main thread sleeps in its
  timer; three semaphores pass the right to and fro. Clients may stall.
* **Order.** Transitions and events come through different channels; the output
  file, and the histograms in it, live from run to run.
* **Bytes.** A pipe returns what it has; a file may end or be damaged anywhere.
  Banks are found by sizes, padding and types in the data, in two formats and two
  byte orders, and the same memory is swapped, decoded, cached and copied.
* **Handlers of one round.** `ser2net` runs in one thread, but `select` returns a
  set of ready descriptors and the handlers of a round switch each other's
  readers and writers on and off. Reads and writes are cut anywhere, also inside
  a telnet command.
* **Reconfiguration.** Ports are replaced while they are in use; their sockets,
  device locks and monitors must go to the right successor. A port's memory is
  reachable from the accept handler, from a controller and from the list.

### What makes it correct

* Converter: rows hold the measurements taken while the gantry was still, all
  of them, once, waveforms beside their own time stamps; files are invisible in
  the result.
* Online loop: one event at a time, whatever is nested; the plots show the event
  in the title; histograms are filled in the file of their run; quit and the end
  of the experiment end the program.
* Lock: one user of ROOT, no lost wake-up, the main thread gets ROOT back.
* Servers: a thread uses objects that exist; a slow client does not stop data
  taking.
* File reader: whole events, in order, and an honest end.
* Events: the bank list names the banks that were written, and what is decoded is
  what was written, for the loop's event and for the display's copy.
* Timers: a complete heap of exactly the running timers; none is called early,
  late in the order, or slept past.
* Sessions: each side gets the other's data, all of them and in order; commands
  and data stay apart; what waits is sent.
* Ports: one session per device, under its lock; the file as read last is what
  ports come to; a session keeps its port until it ends.

## 2. Modules

| Module | Models |
|---|---|
| `ScanToTree` | one `midas2root_ptf` process under the offline loop |
| `ConvertRun` | extends it with the driver script, dying processes and unreadable files; states the converter's properties and the refinement |
| `ScanStream` | abstract: what converting a run promises, on the stream as a whole |
| `MCConvertRun` | the sets of banks used by the TLC runs |
| `ConvertRunProofs` | proofs about `ConvertRun` |
| `RootLock`, `RootMutex` | the semaphores, the abstract mutex; the proofs are in `HistServersProofs` |
| `OnlineLoop`, `OnlineLoopProofs` | the online loop with `TMidasOnline` and the display, the proofs |
| `HistServers`, `HistServersProofs` | the requests of the TNetDirectory and MIDAS servers; extends `RootLock` and takes its lock steps from there; the proofs, about the lock too |
| `MidasFile`, `MidasFileProofs` | `TMidasFile` reading a file or a pipe, the proofs |
| `MidasEvent` | pure: the banks of an event in memory, `FindBank`, the two iterators, `SwapBytes` |
| `EventData`, `MCEventData`, `EventDataProofs` | an event's way from the file or the receive buffer through `TMidasEvent` and `TDataContainer` to a display's copy; the events the runs use; the proofs, about `MidasEvent` too |
| `TimerHeap`, `MCTimerHeap`, `TimerHeapProofs` | `selector.c`: the heap of timers and the loop that calls them; the proofs |
| `Telnet` | pure: `telnet.c`, and the answers to RFC 2217 commands |
| `TelnetSession`, `MCTelnetSession`, `TelnetSessionProofs` | one port's connection, on top of `Telnet`; the streams the runs use; the proofs, about `Telnet` too |
| `Ser2netPorts`, `MCSer2netPorts`, `Ser2netPortsProofs` | the list of ports over sessions, readings of the file, restarts and monitors; the proofs |

### 2.1 ScanToTree and ConvertRun

Data are *stamps*: an event's stamp is its position in the stream, and a slot of
an array holds the stamp of the event stored in it, 0 if none. So a row says
exactly which events went into it, which is all the properties ask. `accept` is
`gbl_accept_banks`; `num_points`, `evt_timestamp`, `wave` are the digitizer
arrays; `phidg` holds each Phidget's readings below its counter; `slow` holds
the slow control values, which keep their last value from point to point as in
the code.

`ProcessMidasEvent` is one action with a disjunct per branch of the code, in its
order: `EndOfMove`, `BeginningOfNextMove` (fills the row, resets the counters,
leaves the arrays), `Digitizer` (drops what does not fit), `Phidget` (only the
first Phidget bank found), `SlowControl`, and `Rejected`. Each branch carries
`RowsSoFar`, because the first event creates the tree and recreates the output
file. `BeginOfRun`, `EndOfFile` and `CloseRootFile` are the loop's.

The variables `serial`, `still`, `quiet`, `measured`, `lastMove` are what the
data acquisition knows. The converter never reads them.

`ConvertRun` adds `StartConverter` (fresh members, flag from `RETVAL`),
`ConverterExits` (exit code = flag, output renamed), `ConverterDies` (exit code
139; the output holds the rows up to some autosave and is renamed all the same),
`FileUnreadable` (a read error is the end of the file for the loop) and `Merge`.
After a file that was not read to its end, `still` takes any value: the rest may
hold markers. A process that dies after it read its file leaves `still` alone.

Points worth knowing:

* Members that the constructor leaves uninitialised are modelled as zeros. The
  object is about 43 MB, so the allocator takes fresh pages from the kernel.
* `single_point` is a constant `false` in the source; its branch is dead and not
  modelled.
* The Phidget counters are not compared with the length of their arrays; in the
  model the readings are sequences without a limit. A point with more than 10000
  readings of one Phidget is outside the model.
* Pulse statistics and the contents of the payloads are left out.

### 2.2 RootLock and RootMutex

The three semaphores are counts. `AskRoot` and `LockRoot` are the two halves of
the code's `LockRoot` (post, wait); `Unlock` and `DestroyGuard` the guard's two
ways out; `NotifyTry`, `NotifyYield`, `NotifyDone` the three calls of
`ServerTimer::Notify`, with server threads running in between; `NotifyIdle` is a
tick that finds nobody waiting. `RootMutex` says: threads ask, one asking thread
at a time borrows ROOT, and gives it back.

### 2.3 OnlineLoop

The program's one thread is a call stack of frames, `"yield"` for `cm_yield` and
`"event"` for the handler of an event. `Poll` pushes a frame, or
`CheckTransitions` handles one transition; `OnlineEventHandler` drops the event
(busy, no output file) or processes it; a paused display leaves a frame
`"event"` on the stack and `WaitEnds` pops it when the user resumes or quits.
While such a frame is on top, the timer can poll again, as in the code.

MIDAS hands out a pointer: an event that does not own its data has whatever the
receive buffer (`received`) holds *now*. `Copy` is what gives the display's
cached event data of its own.

`Display` and `Prompt` are chosen at the start and stay. `Display` is whether the
program is a `TRootanaDisplay` (no output file) or another event loop (one file
per run, never pauses). With `Prompt` a run starts when the last one's events have
been received, and sends events when its start has been handled.

Three things of the code are joined with their surroundings: the delays inside
`cm_yield`; the GUI's redrawing; and, in `Connect`, reading the run number
(`odbReadInt`) and `registerTransitions`. A run that ends or begins between these two
calls is missed by the program; the model leaves this moment out.

### 2.4 HistServers

`objects` maps each name to the run (incarnation) that created it, 0 if it does
not exist; `CloseRootFile` deletes them all, as ROOT does with the objects of a
file. A thread's `held` is what its look-up returned. Requests differ in whether
they take the lock, whether they receive from the client under it (`RecvLocked`),
and whether they unlock before they send. The lock steps are the actions of `RootLock`,
which the module extends: each action of a server is one of them, or none, together
with what it does to the objects. A receive under the lock returns when the client
sends; one that fails, after which a MIDAS server's thread reads from a message that
is not there (`midasServer.cxx:59-61`), is not modelled.

### 2.5 MidasFile

A file is a sequence of cells, each a byte of a header or of the data of an
event. The logger is external: `WriteEvent` appends an event, whose header may hold
a wrong size, and notes where it begins (`starts`); `CutOff` ends the file anywhere.
Then the reader opens it and keeps its offset `pos`. `ReadSome` is one `read`
that returns any positive number of bytes up to what is missing (`gzread`
returns all there is), `ReadEnd` one that returns 0, `ReadError` one that fails.
What follows the loop around `read` in the code (`HeaderRead`, `DataRead`,
`Fail`) is part of the same action.

### 2.6 MidasEvent and EventData

An event's data are a memory, a function from addresses to bytes; `MidasEvent` reads
names, types and sizes from it as the structs of `TMidasStructs.h` do, and `Iterate`
walks from bank to bank with the code's alignment, its tests of the type (`Realigned`
is the rescue of ND280 files, whose banks are displaced by four bytes) and of the end.
`SwapBytes` swaps the headers and the elements of each bank by its type. A loop over
the banks is a function of the number of its steps; it takes `MostBanks` of them,
since every bank has a header, and stays where it is once the code's condition ends
it, so the bound cuts nothing off (the proofs show it). The front-end (`Encode`) is
external: it writes banks of either format, with padding, in either byte order; the
payload bytes count up, so that a byte in a wrong place shows. A name has up to four
printable characters and is filled up with NULs, as that of the bank `EOM` the
converter asks for (`midas2root_ptf.cxx:310`).

`EventData` keeps the loop's `TMidasEvent` and `TDataContainer`, the display's
copy of both, and the receive buffer the former may point into. A request is a
`GetEventData`: it returns the cached bank of that name, after a `dynamic_cast`
(`IsA`: to its class or to the base class `TGenericData`) that throws when it fails, or
finds and decodes the bank. `Copy` copies the memory, and the bank list as a string
(`Strdup`): up to the first name with a NUL. A decoded bank is its name,
class, type, length and where its words are; what a decoder computes from the
words is not modelled.

### 2.7 TimerHeap

The links `left`, `right`, `up` and the pointers to the top and to the last
element are modelled as they are, with the code's walks (`FindNextPos`,
`FindPrevElem`), the exchange of neighbours with all its links, and the removal
that fills the hole with the last element. The loop calls what is due, computes
how long to sleep, and lets descriptors be handled; handlers start and stop any
timer. A loop of the code is a function of the number of its steps; it takes
`Deepest` of them, as many as there are timers, and stays where it is once the
code's condition ends it, so the bound cuts nothing off (the proofs show it).

`HeapIntact` says what the source's own debug code checks: `LinksAgree` is
`check_tree_item`, `LastIsLast` is `check_tree`, and `NoTimerLost` adds that the
places `1 .. n`, counted row by row, hold exactly the n running timers.

### 2.8 Telnet and TelnetSession

`ProcessTelnetData` applies `ParseByte` to one byte of what a read returned after
the other; its state `td` is `telnet_data_t`, so a command may be cut anywhere.
Suboptions beyond the array overwrite its last place, as in the code. Answers go
through `CmdSend` into a bounded buffer, whose overflow sets `error`.

A session has one action per handler, each with every partial write (0 stands for
EAGAIN). `Select` chooses any set of watched handlers that can be ready; the rest of
the round (`pass`) is called in the descriptors' order (`Order`) although earlier
handlers may have switched later ones off. A suboption without a handler calls a
null pointer: then the port is `"crashed"` and nothing follows. Only a reader takes
its descriptor's data, so it finds what `select` promised. `Fail` ends the session
from anywhere. The client is external: it sends any bytes, well-formed or not.

What bytes mean is stated once for both sides, as the telnet protocol (RFC 854) has
it and apart from the code: `ReadByte` is a reader's step over one byte, `Meant(s)`
where it is after s and the data it has found. `DeviceGetsClientData` compares what
the device got with the data meant by the client's bytes, and `ClientDecodes` what
the client finds with the data of the device.

`torn`, `spurious` and `astray` record three cases the code does not handle: a command
sent between the halves of a doubled IAC; a write that fails although `select`
promised room; and a rest that is sent from a wrong place. The last one comes from the
loop that doubles the IACs: it moves the byte behind the data, too, and when the data
are half a buffer of IACs that byte is put into the first byte of
`dev_to_tcp_buf_start`, which follows the buffer in the struct. `Strays` says how far
the start moves by this (the host is taken to be little-endian), `StrayBytes` what
memory may hold there; a rest is as long as it should be, but taken from the place the
start then says. The properties that need it except the three.

`RawCommands` is what `tn_data` may hold when a session of a port without telnet begins:
nothing sets it there (`telnet_init` is for telnet ports), so it is what memory held,
or what a telnet session left before `setportenable` made the port raw. A size beyond
the array, which unset memory may hold as well, is outside the model. `See` is what
the client makes of the bytes; a raw client takes all for data.

### 2.9 Ser2netPorts

Ports are known by name and by the number of the configuration that made them, so that
a pointer to a freed port shows. `Reload` reads a whole file, all its lines and then
the removal of ports that are in none; `accepting` is the port in the accept handler's
data; `lock` is whose lock file a device has, where `"dead"` is one left by a process
that is gone. `odd` records the situations in which the code does not keep its own
bookkeeping (a port that was off or could not be bound, that was configured twice
during a session, that went while monitored); when the program uses a descriptor that
is not its own or freed memory, `undefined` says so and the model stops.
`init_port_data` leaves `dev_monitor` as malloc's memory had it: a reading of the file
makes any of the ports in `DirtyNames` with a `"wild"` monitor, which the device's
data are then sent to (`undefined = "wild"`) and which `monitor` takes for a
controller. The removal of a stale lock and the attempt that follows it
(`dataxfer.c:318-333`) are one step of `MkLock`, so two programs that remove one stale
lock at a time are not covered. Locking of devices is compiled in, and a file has one
line per name.

## 3. What TLC checks

| Run | Checks | Instance, distinct states | Shows |
|---|---|---|---|
| `convert` | `TypeOK`, `AcceptFollowsGantry`, `NoMovingDataIfRead`, `RecordedOnce`, `WavesMatchTimestamps`, `ImplementsStream` | 5 events, 3 files, borders anywhere, one crash, one unreadable file, arrays of 2; 1.07 million | while no border cuts a point and nothing fails, the chain of processes is one pass over the stream and finished points are whole up to the arrays' limit; the flag is right whenever files were read to their end; a crash only makes it reject; no digitizer event and no reading of a Phidget is recorded twice; slots agree |
| `split` | `FinishedPointsWhole` **violated** | as `convert` | finding 1 |
| `rootlock` | `RootExclusive`, `NoLostWakeup`, `ImplementsMutex`, `MainRegainsRoot`, `SomebodyIsServed` | 3 threads; 119 | the semaphores are a mutex, with progress |
| `online` | `OneEventAtATime`, `LockFollowsStack`, `PlotsMatchTitle`, `FilledInOwnRun`, `QuitEnds`, `ShutdownEnds` | display or not, 2 runs, 3 events, plot every 1st or 2nd; 510 thousand | the re-entrant loop is safe, the plots are those of the event in the title, an analyzer that keeps up fills each event into its run's file, and the program can always be ended, also when paused |
| `hist` | `LockedUseLive`, `StalledClientsHarmless` | 2 threads, 2 names, 2 runs; 3 thousand | objects found under the lock live until the thread is through; only requests that receive under the lock let a client hold up the main thread |
| `pointer` | `UsesLiveObjects` **violated** | as `hist` | finding 2 |
| `midasfile` | `EventsWhole`, `EofMeansAllRead`, `OnlyDamageEnds`, `ReadingEnds` | 3 events, headers of 2 cells, at most 3 data cells, sizes 0, 1, 3, 4, one failing read | framing survives split reads and damage |
| `eventdata` | `BankListMatches`, `DecodedMatches`, `NoInventedBanks` | 2 events, 2 requests each, both formats, both byte orders, 2 classes, names of 3 and 4 characters; 126 thousand | bank lists and decoded banks are those of the event they belong to, in the loop and in the display's copy, whose list ends with the first short name |
| `timers` | `HeapIntact`, `SleepsUntilFirst`, `CalledInOrder` | 7 timers with symmetry, times 0 to 3; 5.5 thousand | the linked heap stays a complete heap of the running timers |
| `session` | `TypeOK`, `DeviceGetsClientData`, `DataKeepsOrder`, `ClientDecodes`, `PendingOutputWatched`, `OutputDrains` | telnet, raw and rawlp ports, 2 sessions, buffers of 4, commands of 5, 10 bytes of answers, any commands left in a raw port of those in `RawCommands`; 475 thousand | data pass both ways whole, in order and apart from commands; nothing waits unwatched, and what waits for a client that reads is sent |
| `ports` | `DevicesExclusive`, `ConfigFollowed`, `PointersFollowPorts`, `SafeIfPlain`, `SessionKeepsPort` | 2 ports, 2 devices (one USB), 3 readings of the file, 1 restart, 1 setportenable, one port in dirty memory; 651 thousand | one session per device and its lock, ports come to what the file said last, sessions keep their port |
| `reload` | `ReloadWaits` **violated** | as `ports` | finding 3 |

### Findings

1. **A point cut by a file border loses its first part** (`split`). The flag is
   handed on but the arrays are not, and a row is filled only at `BONM`.
   `midas2root/README.md` lines 5 and 30-32 present the hand-over as the fix for
   interrupted scan points.
2. **`GetPointer` of the old MIDAS server takes no lock** (`pointer`,
   `midasServer.cxx:182`) and may call a method of a deleted object.
3. **A second reading of the file switches a port in use off** (`reload`,
   `ser2net/dataxfer.c:2101`): `portconfig` disables the running port where it
   frees the configuration that was waiting. `ser2net.8:397-398` says that
   changes wait until the port is disconnected.

The models show more that a maintainer should know of, without a run of its own.
Where a property would be broken by it, the property says so and excepts it:

* a read error hands a stale flag on (`TRootanaEventLoop.cxx:310`;
  `NoMovingDataIfRead`);
* events of the last run that are still in the buffer when the next one starts
  are filled into the next run's file (`FilledInOwnRun` holds under `Prompt`);
* the folder requests and SetCut of the MIDAS server receive from the client under
  the lock (`StalledClientsHarmless`);
* `FindBank` looks at the first 16-bit bank of an event that has none
  (`NoInventedBanks`), and copying an event with id 0, for which no bank list is
  made, ends the program (phase `"crashed"` of `EventData`);
* a raw port's banner is never sent: nothing enables its writer, and the device's
  first bytes overwrite it (`dataxfer.c:1679`, against `ser2net.8:246`;
  `DataKeepsOrder`, `OutputDrains`);
* a telnet command may be sent between the halves of a doubled IAC
  (`ClientDecodes`), and after EAGAIN for a command its writer may be disabled
  (`PendingOutputWatched`);
* half a buffer of bytes 255 from a telnet port's device changes the start that a rest
  is sent from (`dataxfer.c:635-643`), so that after a partial write bytes are left out
  and bytes behind the data are sent, although the comment above the loop says "This
  will fit because we only use half the buffer for telnet connections"
  (`DataKeepsOrder` excepts it as `astray`, `TypeOK` bounds the data only);
* a raw client may be sent telnet commands that memory or an earlier session left in
  the port, since the client's write handler does not look at the mode
  (`dataxfer.c:853-888`), although the state raw "transfers all data as-is"
  (`ser2net.8:202-203`); `DataKeepsOrder` is about the data alone;
* a port's `dev_monitor` is never set when the port is made (`dataxfer.c:364-402`):
  the device's data may be sent to any address (line 602), and a controller that
  wants to monitor the port is refused (line 2571); `SafeIfPlain` and
  `PointersFollowPorts` except `"wild"`;
* the bank list of the display's copy ends with the first name of less than four
  characters, while `fBanksN` counts all banks (`TMidasEvent.cxx:40`, against
  `TMidasEvent.h:72`; `BankListMatches` says so with `Strdup`);
* a failed look-up of a USB device leaves the device locked (`DevicesExclusive`);
* a port that is off, could not be bound or is monitored when it is replaced, or is
  configured twice during a session, leads to the use of a descriptor or a port
  that is no longer its own (`SafeIfPlain`, `PointersFollowPorts`).

Others were met while reading and are not modelled: the Phidget counters are not
compared with their arrays' length (`midas2root_ptf.cxx:409`); `TMidasFile::Close`
closes its descriptor twice (`TMidasFile.cxx:384`); `GetListOfKeys` leaves made-up
keys in a directory's list (`netDirectoryServer.cxx:337`); `TID_MAX` lets type 17
pass (`TMidasEvent.cxx:158`); `TV1730RawData` divides by the number of channels
(line 36); the control port's `exit` frees the controller its caller goes on with
(`controller.c:518`).

### Bounds

Every bound is a constant used in a guard: `MaxEvents`, `MaxFiles`,
`MaxCrashes`, `MaxUnread`, `MaxRuns`, `MaxErrors`, `MaxRequests`, `MaxTime`,
`MaxSessions`, `MaxNotify`, `MaxSpurious`, `MaxConfigs`, `MaxRestarts`,
`MaxEnables`, `DirtyNames`, and the lengths `nPoints_max`, `HeaderSize`, `MaxSize`,
`PORT_BUFSIZE`, `MAX_TELNET_CMD_SIZE`, `MAX_TELNET_CMD_XMIT_BUF`.

* `convert`: five events are a whole point that overflows arrays of two slots
  (EOM, three digitizer events, BONM), two short points, or one point on both
  sides of a border; a crash, an unreadable file and a healthy file after both
  need three files.
* `rootlock`: three threads are one that holds, one that is being yielded to and
  one that asks. The proofs remove this bound.
* `online`: nesting needs two events while a third is shown; the proofs remove
  the bound. A second run is needed for events that are filled into the wrong one.
* `midasfile`: sizes 0 and 4 are the two kinds of bad size, 1 and 3 the smallest
  and largest good ones; headers of two cells can be cut.
* `eventdata`: two events are one whose remains the next may show; the sequences
  of events have empty, odd, padded and displaced banks, and two of one name.
* `timers`: seven timers are three full rows of the heap, so that the last
  element changes rows both ways and the hole's filler may have to go up.
* `session`: the buffer holds two doubled IACs, which fill it and let the loop write
  behind it (one stray byte, 2, is enough to tell a moved start); the commands' array is
  shorter than the longest suboption, the buffer of answers overflows at the fourth
  command. Two sessions let flags of the first meet the second.
* `ports`: three readings are a configuration that waits, one that replaces it and
  one that removes the port. One of the two ports may be made in dirty memory, the other
  shows what does not depend on it. The case of `PointersFollowPorts` that is excepted as
  `"twice"` needs a fourth. Two names and devices are enough for two ports that
  want one device and a port that changes device while in use; what happens to
  one name depends on another only through the device.
* All digitizer events of the TLC runs bring all channels (`MCMasks`). With a
  channel missing from the readout a slot keeps the waveform of an earlier point
  by design of the arrays, and `WavesMatchTimestamps` is only claimed without.

The deadlock check is off in `ports` and `reload` only: there the server waits for
clients, signals and commands, and all of these are bounded. The other programs
that may stop do so in a final state with an explicit stuttering step (`Done`,
`NotifyIdle`).

### Fairness

* `rootlock`: weak fairness of the timer, which ROOT restarts in each `Notify`,
  and of each thread's steps within a request. No request need arrive. Only weak
  fairness is used, so the claim is that *somebody* is served: with semaphores
  that do not queue, one unlucky thread may wait for ever.
* `online`: weak fairness of the main thread as a whole. User and
  experiment need not do anything. `ShutdownEnds` excepts a paused display, for
  which the user's next click is needed.
* `hist`: as `rootlock`, but nothing is assumed of any step that waits for a
  client.
* `midasfile`: reads return; that one fails is possible and never required.
* `session`: a handler that the loop is about to call is called (weak fairness of
  `Handle`), and a round that finds the client writable comes again and again while
  its writer is watched (strong fairness of `Select` with `tcpWrite`): that is a
  client that keeps reading. Nothing is assumed of the device, nor that anything
  is sent.

## 4. What is proved

For every value of the constants, from the assumptions named in the modules, which
TLC evaluates in the runs:

* `ServersAssumption`: finitely many threads. `HistAssumption`: requests are known
  ones, and no histogram has the names that stand for none.
* `EventAssumption`: events are what front-ends write: banks of known types with up to
  four printable characters for a name, filled up with NULs, and whole elements, of
  sizes that fit their format, gaps only in ND280's own format and byte order;
  memories have addresses for an event with the header of one more bank, and sizes are
  ints.
* `ScanAssumption`, `ConvertAssumption`, `OnlineAssumption`, `FileAssumption`,
  `PortsAssumption`, `TelnetAssumption`: ranges of the constants.
* `SessionAssumption`: ranges; clients, devices, banners and memory are made of bytes;
  a buffer holds two bytes; commands left in a raw port fit into the buffer of answers,
  whose size the code keeps to; and the opening commands `telnet_init_seq` fit into the
  buffer of answers, as those of `dataxfer.c` do (`telnet_init` does not compare).
  `InitSeqAssumption`: those commands are whole commands, without data.
* `TimerAssumption`: finitely many timers, none of them the null pointer.
* `WavesCorrect` has the hypothesis that every digitizer event brings all channels
  (`ReadoutMasks \subseteq {Channels}`), without which the property is not claimed.

**RootLock.** `LockCorrect`, `MutualExclusion`, `WakeupsKept`, `MutexRefined`, stated
in `HistServersProofs` of the lock the servers use (`LockSpec`), whose threads are
any finite set. `RootExclusive` is not
inductive: a stray post on `gRootSema` would break it in two steps. `OneToken`
says where the single right to use ROOT is in every state, and is inductive
together with `GuardsAgree`, since a guard that unlocks twice would make a
second token. `NoLostWakeup` is a count: each step changes the number of waiting
threads and the number of posts on their way alike, which uses the cardinality
theorems for finite sets. Token and count together give the refinement of
`RootMutex`: a thread that gets through `gRootSema` was asking, and nobody else
holds ROOT.

**OnlineLoop.** `NestingBounded`, `OneEvent`, `LockAgrees`, `CachedCorrect`,
`PlotsCorrect`. The inductive invariant `LockInv` is that the stack has one of
four shapes (empty, yield, yield-event, yield-event-yield) and the lock is set
from the second frame on. A handler entered in the fourth shape finds the lock
set and drops its event, so no fifth shape arises. The
plots follow from `CachedOwnsData`: only copies are cached, and every plot is
made from the cache or from the event while the buffer still holds it.

**ConvertRun.** `FlagCorrect`: the flag follows the
gantry, for any stream, borders anywhere, any number of crashes. `FlagInv` says
the same at both places the flag can be in, the running process and the exit
code; the step that matters is that 139 is not 1.
`TypeCorrect` includes that no digitizer event is stored beyond the arrays (it
needs rows to be typed, and a running process to have no renamed file yet), and
`StillDataOnly` proves `NoMovingDataIfRead`: it strengthens the property to the
members the next row will be made of and takes from `FlagInv` that events are
accepted only while the gantry is still.

`OnceCorrect` proves `RecordedOnce`, of the digitizer events and of the readings of
each of the five Phidgets. `OnceInv` says it of the six series alike: the stamps grow
within each row (`RowRising`) and from row to row of all files (`Rising`), the running
process's members are one more row behind them (`Row`, `Before`), and none is beyond
the last event read (`Below`, `RowBelow`), so the next event's stamp is new. A counter
that survived its row would break `Before`; that a killed process's rows are a prefix
keeps the order. `WavesCorrect` proves `WavesMatchTimestamps` from the same statement about
the slots that are counted. `StreamImplemented` is the refinement of `ScanStream`:
while nothing has failed and no border cut a point, the rows of the merged files,
those of the running process and its members are together the state of the one
pass, and each action is a step of it or a stutter (a process that starts with
empty arrays, the renaming).

**OnlineLoop, own run.** `FilledCorrect` proves `FilledInOwnRun`. It has to follow
a run through its transitions: which starts and ends are queued, which events are
still in the buffer, and that under `Prompt` the buffer holds events only of the
run whose file is open.

**HistServers.** `LockRefined` shows that the servers implement `RootLock`, step by
step: whatever a thread does with objects, it takes and gives back the lock as that
module says. So `LockKept` carries the token over, and `LockedUseSafe` follows: the
main thread deletes objects only outside its timer, and a thread with the token keeps
it inside. It needs that a thread which waits for the lock holds no object yet.

**MidasFile.** `FileInv` has three parts. `Layout`: the file is the frames of the
events one after the other, as far as it goes, each at its `starts`. `Reading`: with k
events returned the reader is inside event k + 1, and header and buffer hold the
cells of the file from that start up to `pos`. So what is taken for a header is one,
its size is that of the event's data, and the next event begins after that many
cells. `EventsAreWhole`, `EofCorrect` and `DamageOnly` follow for any sizes, any
split of the reads and any cut.

**Ser2netPorts.** The invariant `PortInv` is one statement per name (`NameInv`), since
what happens to a name's port does not depend on other names: where the accept handler
points (`Settled`), what the port will be when its session is over (`Follows`), what
monitors it (`Monitored`), and that nothing is used that is not the program's own as
long as nothing odd has happened, but for a `dev_monitor` that was never set
(`Plain`). Each operator of the model (`PortConfig`, `ClearOld`, `ShutdownPort`, ...)
has a lemma that says what it does to the objects of a name; a reading of the file is
the composition of two of them for each. `PointersCorrect`, `ConfigCorrect` and
`SafeCorrect` are read off, for any set of names whose ports may be made in dirty
memory; `SafeCorrect` leaves the use of a monitor that was never set, and nothing
else; `DevicesCorrect` adds the locks, the one thing names share; `SessionsKept` is an
action property, proved from the same lemmas.

**TelnetSession.** `SessionInv` adds to the two properties what makes them
inductive. A device that is about to be read has an empty buffer
(`ReadsIntoEmpty`), although `HandleDevFdRead` overwrites the buffer without a look:
this holds because only the handler that empties it watches the reader again, also in
the middle of a round. A port without telnet does not write before
the device's first bytes (`RawQuiet`). `BuffersBounded` says that the data fit their
buffers and commands their arrays, not that nothing else is written behind them: the
loop that doubles IACs does write there, see `Strays`. It needs the whole telnet layer:
every answer, negotiation and suboption leaves the command's array and the buffer of
answers within their sizes (lemmas `...Fits`), for each byte and so for a read of any
length. `OrderKept` needs that doubling IACs distributes over concatenation, and that a
rest begins at its place unless the start was moved (`LeftFits`, under `~astray`).

`PeersInv` is about what both sides find. `LayerReads`: between two bytes the telnet
layer is where a reader of the protocol is (`PlaceOf`), what it has passed on is what
that reader found, and the end of a read changes nothing; this is `ParseByteReads`,
case by case, and an induction over the bytes of a read. `ClientFollows`: whatever
the layer queues (a negotiation, the answer to a suboption with its IACs doubled)
brings a reader from data back to data without finding any (`Harmless`), so it can
stand between any two data bytes. After a partial write what is left of it completes
the command the client is in, and since `MayWriteData` holds the data back until then,
no data byte is taken for a part of a command. A command that begins between the
halves of a doubled IAC would be taken for data; `torn` records that case and the
property excepts it. `DeviceGetsData` and `ClientFindsData` are read off.

These last facts are inductions over sequences. The library's induction theorems
cannot be instantiated by the provers here, but its least element of a well-founded
order can: the lemma `Induction` takes a *set* of numbers instead of a predicate, and
the functions that `FlattenSeq` and `ProcessTelnetData` choose are shown to exist
(`JoinsExist`, `ParsesExist`, `ReadsExist`) before their values are used.

**TimerHeap.** The links form a graph, and nothing local says that it is a heap. The
invariant `TimersInv` names the layout: `Lays(h, f, n)` is that f[i] is the timer at
place i for i in 1 .. n, with its children at 2i and 2i + 1, the up links inverse, and
the last pointer at f[n]; `Holds` adds that these are the running timers in order.
`ExchangeLays`: the exchange of neighbours, with up to ten links set, is two places of
f exchanged. `NextPosIs` and `PrevElemIs`: the climbs and descents find the place n +
1 and the place n - 1, since at each step of the climb as many steps down from the
neighbouring place lead there, and in no more steps than there are timers.
`SendUpOrders`, `SendDownOrders`: in a heap that is in order except around one place,
each step moves the disorder up or down by one place, and it ends. In `RemoveFromHeap`
the hole's filler can be out of order in one direction only, which is why `Settle` may
choose one of the two (`SettleHolds`). `TopIsFirst`: the order along the links makes
the top the earliest of all, hence `SleepCorrect` and `OrderCorrect`; `HeapCorrect`
follows since the places `Placed` finds are those of f.

**EventData.** The invariant `EventInv` says whose event is where: while an event is
processed, and as long as anything decoded from it is cached, the loop's `TMidasEvent`
*keeps* the event that was sent; the display's copy keeps the one that was copied, in
memory of its own, whatever comes into the receive buffer. What keeping means is
`Holds(m, e)`: in the memory m the end and the format are those of e, and at the place
`HeadAt(e, i)`, counted from the lengths of the banks before it, stands the i-th bank
with its name, type, size and bytes in native order.

The work is in two lemmas about `MidasEvent`. `SwapBytesIs`: whatever the memory held,
after an event's bytes were put into it and `SwapBytes` was called, it holds the
event. For a native event this is what `Encode` writes (`NativeHolds`); a foreign one
is recognised by its flags, read in the wrong order (`ForeignFlags`), and then the
loop makes one bank after the other native (`SwapLoop`, with `Half`: the first j banks
are native, the others still foreign). A step has to find the bank's type and size only
after it has swapped them, and must touch nothing outside (`SwapBankIs`, `TurnedTo`).
`WalkIs`: in a memory that holds e, either iterator goes through the places
`HeadAt(e, 1)`, `HeadAt(e, 2)`, ... and then ends. For a displaced bank it needs
that the four bytes of a name, up to three NULs behind the first character, are
never a type (`RealignedIs`). The copy's list is `Strdup` of the event's. `BankListIs`,
`FindBankShows` and `FindBankOwn` are read off; only for an event of the 16-bit format
without banks `FindBank` looks where nothing was written, which is the case
`NoInventedBanks` excepts.

**Only model-checked:**

* all liveness (`MainRegainsRoot`, `SomebodyIsServed`, `QuitEnds`, `ShutdownEnds`,
  `StalledClientsHarmless`, `ReadingEnds`, `OutputDrains`), for which the proof system
  has no rules here.

Every other property that a passing run checks is the statement of a theorem.

## 5. What is not modelled

* Arithmetic on samples, pulse fits, histogram booking, canvas layout, logging,
  command line parsing, the `-e` and `-s` limits of the offline loop.
* ODB access and event requests of `TMidasOnline`: calls into MIDAS.
* `TMidasFile::Write`, which nothing calls; byte swapping on big-endian hosts.
* The decoders (`TV*Data`, `TBRBRawData`): functions of a bank's words.
* The mPMT converter: one row per event from arrays that are filled and reset in
  the same call, no state between events.
* `XmlOdb`: look-ups without state.
* The XML histogram server: its `TThread::Lock` is not taken by the main thread,
  so what remains is the unlocked look-up that `pointer` shows.
* The older analyzers, which the converter in `midas2root/` replaced.
* `ser2net`: what serial settings do to a device, trace files, escapes in
  banners, the stdin/stdout port, line editing and output of the control port, the
  parsing of the file's lines, the look-up of USB devices.
* `phidget/` is the vendor's library for every platform with its Python binding,
  `roody/` a histogram browser, `vme/` and `caen_usb_dt5730/` drivers and test
  programs for hardware, `mxml/` an XML library. They are kept in the repository
  as released by others; the converter and the server do not depend on changes to
  them.

MIDAS (`cm_yield`, `cm_query_transition`), ROOT (files own their objects, timers
fire in the GUI loop), zlib, the kernel's sockets and terminals are modelled by
how the code here uses them.

## 6. Plan

1. Servers: the pointer maps of the MIDAS server, the key lists that
   `GetListOfKeys` extends.
2. Loop and servers composed: the output file's life as the servers see it, and
   the descriptor that `TMidasFile::Close` closes twice.
3. The control port's line buffer and output buffer.
4. Offline stepping of the display (Next button), the Phidget arrays' limit.

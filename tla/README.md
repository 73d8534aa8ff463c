# A verification development for DM Bridge

DM Bridge lets UWP applications on Windows IoT manage their device. A Windows
service, `DMBridge.exe`, offers RPC procedures (computer name, services,
telemetry, TPM, shutdown, app startup); `DMBridgeComponent`, a WinRT component
in the application, calls them. Both link jsoncpp, with which the service reads
its configuration and the output of a command. This directory holds TLA+ modules
translated from the sources under `src/`, the TLC configurations that check them
on small instances, and theorems checked by TLAPS for every instance.

## 1. Inventory

| Part | Source | State it keeps | Operations | Talks to |
|---|---|---|---|---|
| Service hosting | `DMBridgeService.cpp` | `_status`, `_workerThread`, what the SCM shows | ServiceMain/Start, Stop, control handler, worker thread, destructor | SCM, RPC server |
| RPC server | `DMBridgeServer.cpp` | `_config`, registered interfaces, the machine-wide endpoint | Setup, RegisterInterfaces, Listen, StopListening | RPC runtime |
| Deployment | `DMBridgeService.cpp` (Install, Uninstall) | the SCM's entry | `-install`, `-uninstall` | SCM, the hosting through it |
| Command line | `DMBridge.cpp` | none | dispatch, LoadConfiguration, `-logging` | all of the above |
| Configuration | `ConfigUtils.cpp`, `DMBridgeConfig.cpp`, `NTServiceConfig.cpp` | registry value `ConfigFile`, a JSON file, enabled APIs, whitelist | load, `-config set/default` | registry, files, JSON |
| ComputerName API | `ComputerName.cpp` | three registry values, `_setNameMutex` | Set, Get, IsRenamePending | registry, boot |
| ServiceManager API | `NTService.cpp`, `ServiceManager.cpp` | none (the SCM's) | Start, Stop, Query, SetStartMode | SCM, configuration |
| Telemetry API | `TelemetryLevel.cpp` | one DWORD of the registry, `_setLevelMutex` | Set, Get | registry, which policies write too |
| Process launcher | `DMProcess.cpp` | a pipe, a child, inheritable handles | Launch | child processes |
| UwpAppMgmt, ShutdownMgmt, Tpm APIs | `UwpAppMgmt.cpp`, `ShutdownMgmt.cpp`, `Tpm.cpp` | none | SetAppStartup, Shutdown, GetEndorsementKey, GetRegistrationId, GetConnectionString | process launcher, JSON |
| Client component | `DMBridgeComponent/` | an RPC binding per object | one method per procedure, constructor, Close | RPC |
| RPC interfaces | `DMBridgeInterface/` | none | the procedures of each API | both sides |
| Registry utilities | `RegistryUtils.cpp` | none | write a string or a DWORD; read one, in two calls | registry |
| Logger and ETW | `Logger.cpp`, `ETWLogger.cpp` | `_logFileName`, `_mutex`, the log files, registry value `DebugLogFile` | Log, `-logging enable/disable` | files, registry, ETW |
| JSON reader | `jsoncpp.cpp` (OurReader, CharReaderBuilder) | `nodes_`, `lastValue_`, `errors_`, the tree it builds | parse | Value |
| JSON values | `jsoncpp.cpp` (Value) | type, payload, comments; heap memory they own | construction, copy, move, swap, members, arrays, accessors, order | |
| Exceptions, strings, threads, tests, samples | | | | |

What makes each part correct, beyond what its tests look at:

- hosting: what the SCM shows is what the threads do; one process serves at a time;
- deployment: nothing is deleted under a running server;
- configuration, logging: what a process has read was set, at one instant;
- ComputerName, Telemetry: an answer of success is an effect, also for the
  next boot; an answer of failure is none;
- ServiceManager: each call takes effect at one instant, on whitelisted services;
- launcher and its APIs: a result is the output of the command that was run, and
  its exit code;
- client: what the app is told is what the service did; no binding is used after
  it was freed;
- JSON: JSON is read for what it means, what is accepted besides is known, and no
  pointer dangles on the way; a buffer has one owner.

What is hard here, and hardly reached by the repository's tests:

- three threads of the service process (ServiceMain, control handler, worker)
  and the SCM act in orders nobody chose: RUNNING before anything listens, STOP
  before RpcServerListen, STOPPED before the worker has ended;
- two processes can compete for the one endpoint and for the log files, and
  every mutex is local to a process;
- a rename is three registry writes, each of which may fail or be the last one
  before the process dies, and the machine boots with what is there;
- ServiceManager decides on a state it queried earlier;
- Launch waits for a child that may be blocked on the pipe Launch must drain,
  and the children of concurrent calls inherit each other's pipes;
- configuration and settings are read in several steps while files and registry
  change;
- the service dies under a call, before or after the call had its effect;
- integers are cast between signed and unsigned and accumulated digit by digit;
- the reader recovers from errors in the middle of a tree and frees values that
  it may still point to; a Value copies, moves and swaps raw pointers.

`PROJECT.json` lists every hazard with its line and the properties about it, and
maps every definition to the lines it models. `DMBridge.cpp` is a UTF-16 file of
190 lines; its lines are counted as an editor shows them.

## 2. Modules

| Module | Models | Proof module |
|---|---|---|
| `DMBridgeService` | the hosting and the RPC server | `BridgeProofs` |
| `DMBridgeDeployment` | extends it with `-install` and `-uninstall` | `BridgeProofs` |
| `Rename` | abstract: what a rename promises across boots | |
| `ComputerName` | the ComputerName API | `ComputerNameProofs` |
| `ServiceControl` | abstract: every ServiceManager call takes effect at one instant | |
| `NTService` | the ServiceManager API over the SCM | `NTServiceProofs` |
| `ProcessLaunch` | `Process::Launch` | `CommandApiProofs` |
| `CommandApi` | extends it with the three APIs that run commands | `CommandApiProofs` |
| `Config` | path, file and the two lists of the configuration | `ConfigProofs` |
| `Interfaces` | the procedures of each RPC interface and the bridge classes | |
| `TelemetryLevel` | the threads of the service that execute the Telemetry API | |
| `BridgeClient` | extends both with apps, their objects, bindings and calls | `BridgeProofs` |
| `Logging` | Logger, its setting and its files, over several processes | `LoggingProofs` |
| `JsonGrammar` | reference: the JSON documents of bounded length and their meaning | |
| `JsonReader` | `OurReader::parse`, extends it | `JsonProofs` |
| `JsonNumber` | decodeNumber, decodeDouble, the accessors of numbers | `JsonProofs` |
| `JsonString` | readString and decodeString | `JsonProofs` |
| `ArraySemantics` | abstract: an array is a sequence | |
| `JsonArray` | Value as an array, and the order of values | `JsonProofs` |
| `ValueSemantics` | abstract: every variable holds a value of its own | |
| `JsonValue` | who owns the memory of a Value | `JsonValueProofs` |

`MC...` modules give constants their values. The parts meet in these places.
RPC gives the endpoint to one process at a time (external), and `DMBridgeService`
shows that a process goes on past Setup only as its owner, as an exception of
Setup ends it (`ListenerOwnsEndpoint`). So one process at a time executes calls,
which is why `ComputerName`, `NTService` and `TelemetryLevel` have the threads of
one process and why a process-local mutex is enough. The constant `Interface` of
`DMBridgeService` stands for what `Config` calls enabled APIs, and the constant `Whitelist` of
`NTService` for what `Config` computes from the file. The service that
`DMBridgeService` hosts is stopped and started through the same SCM that
`NTService` uses for other services. `BridgeClient` composes the client with the
server side of one API in full (`TelemetryLevel`); what the procedures of the
other classes do is in the modules of their APIs, and here they answer as they
will. `Config` takes a document as the value it means, which is what
`JsonReader` and the modules of its data establish.

### Service hosting (`DMBridgeService`)

`main[p]`, `handler[p]` and `worker[p]` are the program counters of the three
threads of process `p`; `status` and `original` are `_status.dwCurrentState` and
the local of `Stop()`; `scm` and `owner` are what the SCM shows. One action is
one step between two points where another thread can see a difference: each
SetServiceStatus, the creation of the thread, the protocol sequence, each
interface, the listening. An exception in the worker thread is not caught by
the code, so `SetupFails`, `RegisterInterfaceFails` and `ListenFails` end the
process.

External behaviour: the SCM delivers one control at a time, and STOP only to a
service it shows as RUNNING (it answers ControlService with an error in the
pending states). The endpoint has one owner. Whether RPC_IF_AUTOLISTEN
interfaces are served before RpcServerListen and after its end is left to the
runtime by the documentation. `autoListen` is the reading, chosen once in `Init`:
without it the end of RpcServerListen waits for the calls that are running, and
so does the join of the worker; every run and proof of the hosting is about both.
SERVICE_CONTROL_SHUTDOWN reaches a handler that does nothing.

### Deployment (`DMBridgeDeployment`)

The entry of the SCM exists or not and may be marked for deletion; `-install`
on an entry that exists changes nothing. Uninstall is the loop of the code:
ControlService, query while STOP_PENDING, delete, whatever state the loop ended
in. `ssSvcStatus` is the local that ControlService and each query that succeeds
fill, `told` what the administrator reads of it at the end of the loop.
ControlService may fail on any service, and a query that fails ends the loop with
what was copied before. Between two queries other administrators start and stop
the service.

### Computer name (`ComputerName`)

The three registry values, the names in use, the mutex, and per call a program
counter and the name in its local variable. Each RegSetKeyValue is a step, and
may fail. `Crash` ends the process between any two steps; `Reboot` takes the
names over. A name is reduced to its length, the classes of its characters and
what `_wcsicmp` sees.

### Service manager (`NTService`)

A call is validated, opens the service, queries it, decides on what it has
*seen*, and acts; the SCM refuses what the state of the service does not allow
at that moment. The services move by themselves. Names are reduced to length,
character classes and the service they mean. That the SCM's entry is deleted
while a handle is open shows as a failing call (`Throws`).

### Process launcher and its APIs (`ProcessLaunch`, `CommandApi`)

The chunks of a child's output are numbered; the pipe of a launch holds `Capacity`
of them. A chunk is a text or a NUL (`Nul`). What Launch reads at once it appends
as a C string, so that a NUL hides what was read behind it (`Peek`); what comes
with a later read is appended again. `output` holds the numbers that were kept.
`writers[c]` is the set of processes that hold its write end: the server until
it closes it, and every child created while the server held it, because
CreateProcess is told to inherit handles. A child need not exit. `faulty` marks
a launch in which a Windows call failed; the properties say what is
guaranteed with and without that.

`CommandApi` gives every call its launches. What the JSON reader or the patterns of
Tpm.cpp find in an output is left open, for a part of an output may satisfy them as
well; only an empty one does not.

### Configuration (`Config`)

The path is read by two registry calls, each of which may fail, the file in one
step (an editor leaves it unparsable for a while). `seen` is a history of the
values that were set while a process read, `failed` of failing calls: the default
file is used only for a reason (`HasReason`). The default is the code's, a file of
the directory the process was started in. What was parsed stays in the local
`loaded`, and the two lists are read from it item by item, as the loops of the
code do (`ReadApi` up to `EnableApis`, `ReadService` up to `AllowServices`). They
are compared with the sets that docs/dm-configuration.md describes.

### Client and Telemetry API (`BridgeClient`, `TelemetryLevel`, `Interfaces`)

An app has one bridge object at a time and uses it from one thread, as its
`call`, `value` and `outcome` show; `rpcBinding` is the member of the object,
`handles` what the RPC runtime has allocated. A call is entered (`Call`, or
`CallIsRefused` when there is no binding, no server or no permission), executed
by a thread of the service that is named after its caller (`at`, `level`,
`answer`), and ends with `Reply` or, when the service died under it, with
`ConnectionBreaks`. `Crashes` takes threads and mutex away and leaves the
registry. `RpcNormalize` turns an exception of the runtime into an HRESULT.
`Close` frees the binding and may be called again; `Release` frees nothing, as
no class has a destructor, so its binding is `leaked`.

A DWORD has `Dwords` = 2^w values and its cast to INT32 wraps. Get reads the
registry by two calls without the mutex, and reports 0 when either fails. `during`
and `wrote` are histories for the properties: what the value was while a call read
it, `Missing` standing also for a read that failed, and what the call wrote.
`OutcomeTellsTheEffect` says where the answer of GetLevel came from; it promises
neither that the read succeeded nor one of the documented levels. `Interfaces`
writes both sides' tables down; that they match is an assumption which TLC
evaluates.

### Logging (`Logging`)

Threads of several processes log lines, a line being the thread that wrote it.
Log takes the guard of its process twice, for the console and for the file, and
sends the event without it. The file is opened in append mode and written
when it is closed: a seek to the end and a write, two steps, since the C runtime
does them as two calls and another process may write in between (external
behaviour). The name of the file is read by two RegGetValue calls when the
process starts, and set by `-logging enable/disable` of any process; those that
run keep theirs. Lines on the console and events are not kept, nothing reads
them.

### JSON reader (`JsonReader` against `JsonGrammar`)

The recursion of readValue, readObject and readArray is the stack `frames`,
with the local `name` of readObject; `pc` is what the innermost call reads next.
Values are nodes in `heap`, with parent and key; `nodes_` and `lastValue_` hold
addresses as in the code. A new payload frees what hangs below the value
(`Below`, the values that some path leads to from it). Tokens are chosen as they
are read, so one behaviour is one document. A comment stands wherever the code
skips one, and behind a member the code reads the token after it without looking
(`ReadComma`). `doc` is the history of the document as the code took it: there
that token is a comma (`TakenFor`), whatever it was. `AcceptsJsonOnly` compares
every document that is accepted with JSON, those with comments, with empty names
and with NULs too, and names what each of these lets through; `RejectsNoJson` is
about documents without comments, which JSON does not have. An error makes
readObject or readArray skip to its closing token and fail, and the caller
recovers in turn. Default and strict settings are both initial states.

`JsonGrammar` enumerates the documents of at most `MaxLength` tokens, shortest
first, each with its meaning; it knows nothing of the parser.

### JSON data (`JsonNumber`, `JsonString`, `JsonArray`, `JsonValue`)

`JsonNumber`: digits arrive one by one; `value` is the local of decodeNumber,
`exact` a history of what was really read. The widths `MaxInt` and
`MaxLargestInt` and the rounding `Nearest` are constants; unsigned arithmetic
wraps. Values are counted in halves, so that a double can have a fraction. A cast
of a double out of the range of its type may give anything of that type.

`JsonString`: readString finds the end of a string and decodeString decodes what
lies between, each with its own idea of an escape. An escaped quote must not end
a string, and the quote behind an escaped backslash must; the other escapes of one
character are left out. Surrogate pairs are two escapes that make one character.
The reference says of a whole text that it can
be cut into units, each a character or an escape, and that its value has the
values of the units in their order (`Means`); it reads nothing from left to
right.

`JsonArray`: an array is a map from indexes, with holes; it implements
`ArraySemantics`, a sequence that null elements fill, as long as it is not
sparse. On a sparse array a size may shrink too far and the assertion of resize
fails, which the abstract specification allows there and only there.

`JsonValue`: a slot is a variable or an entry of a map, and holds three pointers:
payload, comments and, in a map, the key. The kind of a pointer says whether it
owns what it points to, as `type_`, `allocated_` and the policy of a CZString do.
`cells` are the buffers in use, with the entries of those that are maps. What a
destructor frees and a copy constructor duplicates is the least set of buffers
that a slot's pointers lead to (`Tree`), which is what the recursion of the code
over members visits; `bad` is set by a free of what is not in use or of what
another owner frees as well. An operation is the sequence of parts that the code
makes of it: operator= constructs its parameter, swaps it with the slot and
destroys it (`Exchange`); copy() frees the payload before it duplicates the other;
operator[] copies a pair of a key and null into the map and destroys the pair
(`Inserted`). Temporary values are the variable `Other`.

`ValueSemantics` knows of no memory: a value is the set of its nodes, each a path
of names with what is at its end, and an operation puts a value to a place. The
nodes of a slot of `JsonValue` are the ways that lead from it through maps
(`Nodes`); with them it implements `ValueSemantics`.

## 3. Runs

| Run | Instance | What it shows |
|---|---|---|
| `deploy` | 2 processes (service or console), 1 client, 2 interfaces, both readings of RPC_IF_AUTOLISTEN | the hosting: no status race, a listener owns the endpoint, complete listening, protocol of the SCM; a RUNNING service comes to listen; a stopped process drains its calls and exits; what `-uninstall` tells of the stop is true, and it ends |
| `uninstall_stops_first` | the same, 1 interface | finding |
| `computername` | 2 clients, 6 names: one in two spellings, one with a hyphen, and three that Set refuses | renames are atomic or visibly cut short, reads are current, the mutex is given back |
| `failed_read_is_not_success` | the same | finding |
| `ntservice` | 2 clients, 2 services of which 1 is whitelisted, 6 names | every call takes effect at one instant; only whitelisted services are driven |
| `launch` | 2 launches, up to 3 chunks, pipes of 2, a NUL between two texts and one behind two | the result is what the child printed up to a NUL; no deadlock on a full pipe; no waiting for strangers |
| `command_api` | 2 calls, 2 launches, up to 2 chunks without a NUL, pipes of 1, 3 exit codes | what success replies mean |
| `config` | 1 process that starts again and again, paths of 2 lengths, 2 directories, 4 documents | the file is one that was set while the registry was read, or the default one for a reason; the loaded configuration is the documented one of one instant of that file |
| `client` | 2 apps, 2 bindings, two classes, DWORDs of 4 bits, one foreign level, arguments -1 and 2 | bindings are owned, answers tell effects, calls return |
| `logging` | a service with 2 threads and a second process, files of name lengths 1 and 2, 1 line per file | lines of a process survive, Log returns |
| `json` | documents of up to 8 tokens, names "a" and "", stack limit 3, default and strict settings | pointers are alive, JSON is read for what it means and what is accepted besides is named, the parser ends |
| `json_data` | integers of 4 and 7 bits and doubles of 5, numbers up to 300; strings of up to 6 characters; 2 arrays of up to 3 elements; 2 values with a member each and 12 buffers | numbers and strings are decoded, accessors agree, the order is total, arrays and values refine their semantics, buffers have one owner |

The type invariants are proved instead of checked. Those of the modules about
JSON (`NumberTyping`, `StringTyping`, `ReaderTyping`, `ArrayTyping`) are stated
in `JsonProofs`; that of `JsonValue` is `StateType`, a part of `Sound` in
`JsonValueProofs`.

Why these bounds are enough for what the runs ask.

- Two processes make every overlap of an old and a new server, or of two writers
  of a log file; a third would only queue. The second of two interfaces can fail
  when the first is registered. One client has a call that a stop must drain.
- Two clients make every race for a mutex, a service or a registry value, two
  bindings an object that holds another's.
- Two launches make a child inherit a foreign pipe; outputs longer than the pipe
  make it full, and a text on either side of a NUL is read with it or after it.
- Two lengths of a path make the value that no longer fits.
- Of two services one is whitelisted, so that a call can reach for the wrong one.
- With 4 bits a DWORD has levels above 3 and an upper half that is read as
  negative. With `Dwords` = 16, the foreign level 15 is -1.
- The first line of a log file is the one that two threads contend for; the
  theorems are about files of any length.
- Eight tokens hold an array in an object in an array, two members with one
  name, an error with the recovery of two levels, and, with a stack limit of 3,
  a document too deep. `MaxLength` is larger than `MaxTokens`, for beginnings
  of documents.
- 300 is more than twice 127, the largest unsigned integer of 7 bits, and doubles
  of 5 bits round integers that 7 bits hold, and the limits of 7 bits up to powers
  of two. Six characters hold a surrogate
  pair with what may break it. An operation that allocates begins with at most
  `MaxLive` buffers in use; copy() may double them twice, and an insertion adds a
  key and its copy, so that with `4 * MaxLive + 3 < Cardinality(Buffer)` there is
  always one more. Two buffers are an object with a member that owns something.
  Index 2 makes a hole between two elements. The
  kinds of data of `json_data` are independent of each other and explored side
  by side.

Symmetry is used in `ntservice` and `command_api` only, which state no liveness,
over clients, calls and launches, which no constant distinguishes there (the launches
of `launch` differ in their NULs).
CHECK_DEADLOCK FALSE appears only in the runs of `ProcessLaunch` and
`CommandApi`: launches and calls are used once, so a behaviour ends. A parser
that has returned stutters by an action of its own (`Done`, `StringEnds`).

### Fairness

- Hosting: weak fairness of each thread of a live process, of its exit and of
  the return of a client's call. Threads are scheduled, and an API call ends
  (`ReturnsAfterOwnChild` shows on what that depends where it runs a command).
  Nothing obliges an administrator to start or stop, a client to call, or a
  Windows function to succeed.
- Deployment: weak fairness of the uninstaller's calls, a running program. Its
  query that ends the loop is fair only as long as what it would show stays, for the
  loop sleeps between queries: if others bring the service to STOP_PENDING and out
  of it for ever, the loop may see STOP_PENDING each time (`UninstallEnds`).
- Computer name: only the thread that holds the mutex; std::mutex is not fair
  to those who wait.
- Launcher: the calling thread and a child that can print; a child need not exit.
- Client: weak fairness of a dispatched thread, of the delivery of an answer and
  of noticing that none will come; strong fairness of taking the mutex, which
  assumes that a thread is not passed over for ever by others that wait. std::mutex
  does not promise it: what is shown is that no path keeps the mutex, which is
  what `CallsReturn` and `LogReturns` are about.
- Logging: strong fairness of a thread in Log, under the same assumption.
- JSON reader: it is one thread (weak fairness), and its document has an end.
- The other runs state no liveness.

### Findings

| Run | Disagreement |
|---|---|
| `uninstall_stops_first` | docs/dm-deployment.md:52 says `-uninstall` stops the service before removing it; a STOP that arrives before the worker listens fails, RUNNING is restored, and the entry is deleted all the same |
| `failed_read_is_not_success` | IsRenamePending answers S_OK when the registry read fails and GetLastError() is 0, which comments in the same function guard against elsewhere |

Others are plain in the code once seen, and have no run:

- Stop of a starting service succeeds and does nothing (`ServiceManager.cpp`,
  modelled in `NTService`); an integration test expects a stopped service.
- docs/dm-extending.md:86 asks every method to turn its exceptions into an
  HRESULT; those that launch commands do not (modelled in `CommandApi`).
- docs/dm-configuration.md:46-47 places the default file in the directory of the
  executable; the code opens a relative path, in the directory the process was
  started in (`ConfigUtils.cpp:45`, modelled in `Config` as `cwd`).
- TelemetryLevel.cpp:107 and 118 say that a 0'd error must not return S_OK, but
  line 101 ignores what TryReadRegistryValue returns: a level that cannot be read is
  answered 0, Security, with S_OK. It casts whatever the registry holds, where
  TelemetryLevelBridge.cpp:43-48 and docs/dm-uwp-api/dm-uwp-api-telemetrylevel.md:32-34
  know the levels 0 to 3 only. `TelemetryLevel` does both, and
  `OutcomeTellsTheEffect` leaves room for them.
- GetExitCodeProcess may fail in Launch, whose caller then finds its own 0 and takes
  the command for a success (`DMProcess.cpp:130`, modelled in `ProcessLaunch`); and
  a NUL in an output hides what was read with it (`DMProcess.cpp:118-119`).
- json.h:1715-1717 says that failIfExtra refuses what trails the value, but a NUL
  reads like the end of the document, and what stands behind it is not looked at.
  json.h:1699-1700 says that allowComments decides on comments, which objects and
  arrays skip all the same (`jsoncpp.cpp:1695`, 1740, 1772). Behind a comment that
  follows a member any token is taken for a comma (`jsoncpp.cpp:1740-1744`), and a
  name that is empty lets a comma end an object (`jsoncpp.cpp:1699`). All are
  in `JsonReader`, and the exceptions that `AcceptsJsonOnly` makes.
- jsoncpp.cpp:3845-3847 explains why isInt64 is strict at 2^63, which the limit of
  its type is rounded up to; asInt64 and asUInt64 test with InRange, which is not
  (`jsoncpp.cpp:3209`, 3230), and cast 2^63 and 2^64 out of range. `JsonNumber` has
  both, and `AccessorsAgree` excepts that double (`AtRoundedLimit`).
- docs/dm-deployment.md:35 says to run `-install` again after moving the binary,
  where CreateService fails on a service that exists (`DMBridgeService.cpp:259`).
- docs/dm-uwp-api/dm-uwp-api-computername.md:20 allows alphanumeric names only,
  where IsValidName accepts hyphens and periods (`ComputerName.cpp:265`).
- `Value::resize` asserts that its size is what was asked for
  (`jsoncpp.cpp:3420`), which is false after shrinking a sparse array (modelled
  in `JsonArray`; nothing in DMBridge makes one).

## 4. Proofs

Every theorem is about any sets of processes, clients, names and so on, and is
proved from the named assumptions of its module only. Most are `Spec => []P` by
an inductive invariant that is stronger than P. The runs that check liveness use
`FairSpec`, which implies `Spec`.

**`BridgeProofs`**, about the hosting first, for both readings of RPC_IF_AUTOLISTEN,
from `NoProcessAssumption`:

- `Typing`: TypeOK.
- `LifecycleInvariant`: Lifecycle, the inductive invariant. It ties the
  program counters of Start() and Stop() to the reported state and to whether
  listening was stopped. None of the properties below is inductive alone: that a
  failed stop restores RUNNING, for instance, needs that `original` was saved in
  RUNNING, which needs that STOP is delivered only then and that Start() had
  ended by then.
- `RunningIsNotStoppingAlways`, `StoppedHasStoppedAlways`, `NoStatusRaceAlways`,
  `StatusProtocolAlways`, `ListeningIsCompleteAlways`: from it.
- `ListenerOwnsEndpointAlways`: from it too: the worker of a process goes past
  Setup only where the endpoint was its own.
- `DeploymentIsHosting`: to the processes, a deployment is a hosting like any
  other, so that all of the above holds of `DeploySpec`, which `deploy` checks.
- `DeployTyping`: DeployTypeOK.
- `ToldStoppedIsStoppedAlways`: a status that was copied as STOPPED was copied when
  the process that got the STOP was gone or draining (`CopiedStatus`); a process
  that drains goes on to its end and does not come back (`DrainingStays`), so this
  is true still when "Stopped." is told, be the status old or the service started
  anew by then.

and about the client, for any apps and bindings and for DWORDs of any even
number of values above 7 (`DwordsAssumption`):

- `ClientInvariant`, `ClientTypeCorrect`: what a thread of the service is about to
  answer, and what the app was told, are both true of what was done (`Told`,
  `CallInv`); the step between them is the answer on the wire, which a crash may
  take.
- `HandlesAreOwnedAlways`, `OutcomeTellsTheEffectAlways`: from it.

**`ComputerNameProofs`**, from the assumptions on `NoClient`, `NoName` and `Name`:

- `Invariant`: IInv, that is mutual exclusion (`Mutex`), what a call's locals
  hold at each of its steps (`Locals`), and that the names agree unless a rename
  is in progress or was cut short (`Whole`).
- `NamesAgreeAlways`, `ReadIsCurrentAlways`, `SuccessIsCompleteAlways`: from it.
- `Refinement`: the API implements `Rename`. While a rename has written only a
  part, the abstract name pending is the one from before (`before`), so that a
  crash there is the abstract step "cut short".

**`NTServiceProofs`**, for any whitelist, names and start types:

- `Invariant`, `TypeCorrect`: a call that acts was validated for what it was
  asked to do (`CallInv`); validation and action are far apart in the code.
- `OnlyWhitelistedAreDrivenAlways`: from it.
- `Linearizable`: the API implements `ServiceControl`. A call takes effect
  when it sees that there is nothing to do, although it answers later, or when
  the SCM acts (`Outcome`).

**`CommandApiProofs`**, about `ProcessLaunch` first, for any number of launches,
capacity and output:

- `LaunchInvariant`: every chunk that was printed is in the pipe, in `output`, or
  behind a NUL (`NoChunkLost`), the write end is held exactly between creating the pipe
  and the exit of the child (`Held`), and the child's life follows Launch
  (`Followed`).
- `ResultIsFaithfulAlways`, `NoChunkLostAlways`, `WriteEndIsClosedAlways`: from it,
  for any NULs.

and about `CommandApi` on top of it, for any calls:

- `ApiInvariant`: what a call has answered it has from launches that returned
  and, by the lemma `LaunchesSettle`, stay as they are.
- `SuccessMeansCommandSucceededAlways`: from it.

**`ConfigProofs`**, for paths of any lengths, lists of any lengths and any
documents, from `PathAssumption`, `DirectoryAssumption`, `ContentAssumption`,
`WhitelistAssumption` and `DocumentAssumption` (the items of a list are strings,
one of which stands for whatever is none):

- `Invariant`, `TypeCorrect`: between its two reads a process has seen a value of
  the size it was given and the present one, and afterwards it goes for one it has
  seen, or for the default with a reason (`ReadInv`); a list holds what has been
  read of it, and a finished one is the documented list of what was parsed
  (`ListInv`).
- `FileIsConfiguredAlways`, `ConfigurationIsDocumentedAlways`: from it. The second
  needs the first list to stay what it is while the second one is read, and both
  to be read from the same `loaded`, whatever the file holds by then.

**`LoggingProofs`**, for any processes, threads and lengths of files and names:

- `Invariant`, `TypeCorrect`: a thread that has the file open holds the mutex of
  its process, and whatever lies at or behind its position was written by other
  processes (`LineInv`).
- `LinesOfAProcessSurviveAlways`: from it.

**`JsonProofs`** has one section for each of the four modules it is about.

Numbers, for integers of every width and every rounding, from `NumberAssumption`:

- `NothingWraps`: while digits are read, the local is the number read so far. The
  test against maxIntegerValue / 10, with the last digit, is exact although
  -minLargestInt overflows on the way to it (`Magnitude`).
- `NumberIsReadAlways`: what fits is decoded as it is, and what does not becomes
  its nearest double; besides, once decodeNumber has given up the number is too
  large (`GivenUp`).
- `AccessorsAgreeAlways`, with the exception of `AtRoundedLimit`: from it, and
  from `RoundingAssumption`: rounding is monotone and leaves a double as it is,
  and doubles hold every number of 32 bits, its halves, and the powers of two that
  bound the wider integers. IEEE doubles have 53 bits, so that they do.

Strings, for texts of every length, from `TextAssumption`:

- `ReadsStringAlways`: decodeString stands only where readString once began to
  read (`StringReads`). So it neither meets the quote that ends the string, nor
  is left with half an escape. The places where it stood are a way to cut the text
  into units (`DecodedAt`). No unit begins with another one, so that there is no
  second way: a text that decodeString gives up on cannot be cut at all.

The reader, for documents of every length and nesting and for every stack limit,
from `ReaderAssumption`:

- `PointersAreAliveAlways`: the values in `nodes_` are a path from the root, each
  the parent of the next, without repetition (`Path`), and what is below its last
  one is never on it. A value that gets a new payload is the last of the path, and
  `lastValue_` is a value of the path or a member of one (`LastValue`), so neither
  is lost with the old payload. `Room` bounds the values by the tokens read, which
  makes the identities of `heap` suffice.
- `ErrorsAreReportedAlways`: parsing fails exactly if its caller gets a message,
  although recovery leaves some behind on the way and takes others back.

Arrays, for any elements, arrays and indexes, from `ArrayAssumption`:

- `ArraysAreSequences`: a map with holes implements `ArraySemantics`, call by
  call. Its size is its greatest index plus one, so that removing or shrinking has
  to find the greatest of those that are left.
- `OrderIsTotalAlways`: operator< is decided by the smallest index where two maps
  differ, or where one of them ends. Of the values it compares, one precedes the
  other or they are equal, and what precedes is transitive.

That a set of indexes has a smallest and a greatest element (`Smallest`, `Largest`)
follows from < being well-founded, which the library's theorems state.

**`JsonValueProofs`**, for any variables, any names, maps of every size and depth
and any bound, from `MemoryAssumption`:

- `SteadyAlways`: the inductive invariant `Steady`. A pointer that owns has a
  buffer in use that no other owner points to, the only set of buffers which holds
  what the variables own and what its own entries own is that of all (`Grounded`),
  nothing was freed twice, and temporary values are left null. `Ownership` is not
  inductive by itself in a form that the provers can use: to free the tree of a
  slot keeps buffers exclusive only if no owner outside leads into the tree, for
  which one needs that everything in it hangs on this slot and on no other
  (`TreeIs`). Each part of an operation is described by a predicate of the states
  before and after it (`Traded`, `FreedFrom`, `MadeIn`, `DuplicatedTo`, `AddedTo`,
  `DroppedFrom`), and each operation is proved from those of its parts.
- `OwnershipAlways`: from it. Nothing leaks, nothing is freed twice or used after
  it was freed, and no key points to a string of the caller.
- `MemoryImplementsValues`: the memory implements `ValueSemantics`, with the nodes
  of a variable as its value. In a steady state no way comes back to a buffer
  (`WaysAreInjective`), since the buffers between would hang on themselves; so ways
  are finite, and a node is either the root or one of a member (`NodeCases`). Two
  slots, of the same state or of two, that agree on what they are, on their names
  and again on their members have the same nodes (`AlikeNodes`); with that, what an
  operation does not touch keeps its nodes (`KeptIs`), a copy has those of its
  original (`CopiedNodes`), and a slot that changes changes the value of its
  variable at one place (`PutIs`). `StepMeans` has one case for each operation.

`AlikeNodes` and `WaysAreInjective` are about paths of every length, and need no
induction over data: the shortest path on which two slots differ would leave a
shorter one after its first name.

Checked by TLC only:

- all liveness (`RunningLeadsToListening`, `StoppedProcessExits`, `UninstallEnds`,
  `LockIsReleased`, `FullPipeIsDrained`, `ReturnsAfterOwnChild`, `CallsReturn`,
  `LogReturns`, `ParseEnds`), out of the prover's reach;
- `ReadsJson`: what a document means is defined in `JsonGrammar` by recursion
  over its length, about which nothing can be proved without induction over data;
- the two properties of the findings, which the code violates.

## 5. Plan

In this order:

1. The composition of `Config` with `NTService`: the whitelist of a server that
   runs is that of its last start.
2. The remaining parts of jsoncpp that have state of their own (the writers and
   the iterators), should the program come to use them.
3. A client that calls and closes its object from two threads, should the
   component come to allow it.

## 6. Not modelled

- Event log entries, and the formatting of log lines and of the text of events.
- The security descriptor and the capability check (an access decision of
  Windows; its failure is a failure of Setup, and a refused caller is
  `CallIsRefused`).
- The generated RPC stubs; conversions of strings; memory exhaustion in
  midl_user_allocate, which is an error reply like any other; the copying of
  strings in and out of a call.
- The binding that RpcBind leaves allocated when it fails half-way.
- C++ exceptions other than DMBridgeExceptionWithErrorCode in Start() and Stop()
  are not distinguished from the death of the process.
- What a TPM slot holds: that a connection string could join two provisionings
  is out of reach of the modules here.
- ServiceManager::WaitStatus and GetStartType, which nothing calls; WaitStatus
  decrements its unsigned counter twice a turn and would pass 0 with an odd
  bound.
- The order of construction and destruction of the global Logger against other
  globals and against calls that are still served while the process exits.
- Of jsoncpp: the deprecated Reader, the writers, Path, the iterators, the text
  of comments, the decimal digits of doubles, and settings that neither
  CharReaderBuilder::setDefaults nor strictMode makes. Copying into a value the
  payload of a member of its own, which frees the member it reads
  (`jsoncpp.cpp:2948`), is not among the operations of `JsonValue`.
- Tests and samples, read for what they expect.

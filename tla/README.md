# A TLA+ model of gostly

gostly is one Rust process that sits between a client and an upstream API. In
LEARN mode it forwards requests and records them; in MOCK mode it answers from
what it recorded; PASSTHROUGH only forwards and TRANSITIONING answers 503. The
modules here model what this process keeps in memory and on disk, and every
interleaving of its requests, spawned tasks, file watcher and admin calls,
with crashes, failing writes and clients that hang up.

Source positions are given as `file:line` of `src/src/`.

## 1. The system

| Component | State | Operations | Talks to |
|---|---|---|---|
| Mock library (`io.rs`, `main.rs`) | `AppState.mocks`, an ArcSwap of an immutable library | insert by LEARN and `POST /ghost/mocks`, exact look-up, smart swap | every request; append log; loaders |
| Append log and loaders (`io.rs`) | `data/mocks/mock_<svc>.jsonl`, its `.tmp` | append, load + compact, full reload, one-file reload | library |
| Watcher (`io.rs:455-582`) | event queue, debounce batch | fs_watch, SIGHUP, poll, `POST /ghost/admin/reload` | loaders |
| Resource store (`resource_store.rs`) | map of captured resources, one JSONL log per service | capture, lookup, transition, persist, load + compact | statecharts; LEARN and MOCK requests |
| Statecharts (`statechart.rs`, `statecharts/*.json`) | five constant machines | initial state, apply an action | resource store |
| Mode control (`main.rs:745-755, 934-948`) | the global mode, `data/mode.txt`; the routes' overrides | set mode, set upstreams, resume at boot | every request |
| Sequences (`main.rs:1054-1097`, `matcher.rs:149-173`) | list and cursors, two RwLocks; `sequences.jsonl` | create, delete, reset, serve, save | MOCK requests |
| Proxy handler (`main.rs:1355-2055`) | locals of a request across its awaits | bind, chaos, match phases, forward, record, capture | all of the above |
| Routing, tenants, keys (`main.rs:1117-1343`, `matcher.rs:177-240`) | the upstream table | first matching route; header or query gives the tenant; normalised URI is the key | proxy handler |
| Smart swap, id extraction (`matcher.rs:54-355`, `resource_store.rs:455-521`) | none | diff two requests, substitute what the response shows; find an id in JSON | proxy handler; resource store |
| Chaos (`chaos.rs`, `markov_chaos.rs`) | Markov state per service | first rule, flip, latency, error draw | proxy handler |
| Telemetry, onboarding (`telemetry.rs`, `main.rs:1231-1270`) | two sets of services, counters | count a milestone once per service | proxy handler |
| Wide events, traffic log (`wide_events.rs`, `main.rs:1860-1916`) | two counters, append-only files | make an id, spawn an append | LEARN requests |
| Workload classification (`workload_class.rs`) | none | headers and User-Agent give a class | wide events |
| Command line and host (`main.rs:370-582, 664-912`) | pidfile and mode file of each data dir, ports, pids | start, mode, stop; boot | every proxy of the host |

What is hard here: copy-on-write of the library without compare-and-swap;
loaders that share a tmp path and rename files that others have open; a watcher
that reacts to its own renames; appends that are spawned and so unordered; a
handler that awaits between reading mode, library and routes; two locks taken
together; files that are truncated, written and renamed while the process can
die; a URI that is normalised in one place and looked up in another; counters
that begin anew with the process; pids that are used again. `PROJECT.json` lists these hazards at their lines, with the property that
covers each.

Correctness, per component:

* library: a request sees one library; entries stay with their service and tenant; a new entry is visible.
* log: what reached the file whole survives compaction, faults and crashes; a write that is cut short costs one further line at most; memory converges to the files.
* watcher: every change is taken up, and the watcher comes to rest.
* resource store: a step succeeds once; body, state and log agree; a restart rebuilds the map.
* mode: a request is served in a mode that was in effect; a restart resumes in the mode.
* sequences: responses come in order from the first on; no left-over cursor; calls take effect at one moment; no deadlock; the file holds a current list.
* handler: what was recorded last is what is replayed, for the same service, before any other phase; milestones count once.
* routing, keys, swap: equivalent requests replay and others do not; a swapped answer holds nothing but the recording and the request's own values; a created resource is found by its id.
* chaos: a request stays under the first rule that covers its path, and its error is that rule's; outages end and come back.
* logs: ids are unique across restarts; every recorded request has its lines; more markers never make a class more human.
* host: the pidfile of a data dir names the proxy that serves it, and a stop ends that one.

## 2. The modules

| Module | Models | Extends |
|---|---|---|
| `MockLibrary` | keys, segments, insert, exact look-up, swap candidates | - |
| `SnapshotServing` | abstract: a request is answered from the library published when it started | `MockLibrary` |
| `MockStore` | library, log, loaders, watcher, requests, crash | `MockLibrary`, instantiates `SnapshotServing` |
| `MockStoreProofs` | TLAPS proofs about `MockStore` | `MockStore` |
| `Statechart` | the bundled machines and `apply` | - |
| `ResourceStore` | captures, transitions, log, boot | `Statechart` |
| `ResourceStoreProofs` | TLAPS proofs about `ResourceStore` | `ResourceStore` |
| `ModeControl` | mode, mode file, overrides, restart | - |
| `SequenceObject` | abstract: sequence calls that take effect at one moment | - |
| `MockSequences` | list, cursors, locks, saves, restart | instantiates `SequenceObject` |
| `MockSequencesProofs` | TLAPS proofs about `MockSequences` | `MockSequences` |
| `ProxyHandler` | a whole request, several at once, with admin changes | `MockLibrary`, `Statechart` |
| `ProxyHandlerProofs` | TLAPS proofs about `ProxyHandler` | `ProxyHandler` |
| `UriPath` | tenant, route, key, path shape, collection and id, read off a URI | - |
| `SmartSwap` | the substitutions of a swap; the id in a JSON body | `UriPath` |
| `RequestReplay` | a session on the wire: what is recorded and what answers later | `SmartSwap` |
| `RequestReplayProofs` | TLAPS proofs about `RequestReplay` | `RequestReplay` |
| `ChaosRules` | globs, rules, latency and error draws, the scrubbed path | - |
| `ChaosInjection` | concurrent requests under chaos, route changes, restart | `ChaosRules` |
| `RouteProofs` | TLAPS proofs about `ModeControl` and `ChaosInjection` | both |
| `WorkloadClass` | the classification of a request | - |
| `RequestLogs` | wide events and traffic log of recorded requests, crash | `WorkloadClass` |
| `RequestLogsProofs` | TLAPS proofs about `RequestLogs` | `RequestLogs` |
| `Lifecycle` | the proxies, starts and stops of one host | - |
| `LifecycleProofs` | TLAPS proofs about `Lifecycle` | `Lifecycle` |
| `MC*` | small instances of the module they name | |

The state of a module carries the names of the code where it has one (`live` is
`AppState.mocks`; `by_service`, `sequences`, `counters`, `upstreams`,
`markov`). A `pc` (`wpc`, `lpc`, `rpc`, `spc`) per task says between which two awaits,
system calls or atomic operations it stands: one action is the code from one of
these points to the next. Histories (`landed`, `raced`, `turns`, `disturbed`,
`inEffect`, `stored`, `known`, `listed`, ...) are read by properties only.
The names of `ChaosInjection` that `ModeControl` also has begin with `Chaos`, since
`RouteProofs` takes in both. Definitions headed "Variant for checking" are plausible bugs; no specification
uses them.

**Data.** A key stands for the triple (method, uri, tenant). `Similar` is the
relation `paths_match` over keys; smart swap may pick any candidate, as it takes
the last in HashMap order, or refuse. A mock file is a record: the function its
lines parse to, what follows the last newline (nothing, a part of a line, or an
entry whose newline alone is missing), and whether its bytes are UTF-8. In
`ResourceStore` the lines matter: record and newline are two
writes, so a line is a sequence of records and parses only if it holds one. In
`ModeControl` the length of the file matters, since a write that follows another
handle's leaves its tail.

**Failing writes and reads.** With `DiskFaults`, a write may fail before it has
written anything or after a part of it, as on a full disk. In `MockStore` the part
may end within a character, within the line or just before its newline; the next
append lands on it (`Appended`), together they do not parse, and the next compaction
drops them; a compaction's own write may be cut short at any line or within one
(`CutShort`). A file that is no UTF-8, or whose read fails, reads as nothing and is
left as it is (`ReadSegmentFail`, `LoadReadFail`). `ResourceStore` and `RequestLogs`
have the same parts in their lines. In `MockSequences` a save that is cut short leaves
its first whole lines, since `load_sequences` skips a part of a line; a boot whose read
fails starts with no list. The mode and the pidfile are words of a dozen bytes, written whole
or not at all. A process that is killed within a write is one
whose write is cut short before the crash. Since tokio's `File::write_all` returns before the
write is done, a failed append may go unreported; nothing in the models depends on
the report.

**Files.** `tokio::fs::write` is open-with-truncate, then write. A handle
follows its inode through a rename: `lfd` and `sfd` name the inode by the path it
has now, and `wpc = "orphaned"` is an append handle whose inode no path names.
A write through a handle another loader has meanwhile truncated may leave
lines of the older content at the end (`Overwrites`), any subset of them, after a
broken one that need not be UTF-8.

**`ProxyHandler` composes** the parts at the level their own modules justify: a
publish replaces the library as a whole, a transition is one step
(`NoDoubleTransition`), taking a response from a sequence is one step
(`AtomicSequences`). It neither crashes nor reloads: `MockStore`, `ResourceStore`, `ModeControl`
and `MockSequences` do that for the parts.

**`RequestReplay` composes** the pure parts: a request on the wire has a host, a
path, parameters in an order, a tenant header and a body, and the model follows
it through tenant, key, route, recording, resource and swap. Requests come one
after the other, since their overlaps are in `ProxyHandler`. A text is a string
of the program, never taken apart: what a helper asks of its characters (the
classes of characters it has, its rank, what it starts with or contains, its
length) is a constant. A body is the sequence of its JSON scalars, each with its
path (no two share one), of its words, or bytes that are no UTF-8. The text the code
makes of bytes (`Lossy`) and the placeholder it keeps of a body that is too long
(`Kept`) are bodies of their own; bytes whose text is JSON are left out. `ReplaysEquivalent` states what an
equivalent request is without the code's normalisation: the same service
(`ServiceOf`), method and tenant, the same path, and parameters that are a
rearrangement of the other's; the answer is exact just when the body the last of
them was recorded with was kept and reads the same as text.

**Time** is counted in ticks in `ChaosInjection`, which suffices to tell an
expired dwell or sleep from one that is not, and in milliseconds in `RequestLogs`,
where several requests of one millisecond are the case of interest.

**`Lifecycle`** has the pids of the host. A pid that is free may be taken by a
proxy, a stop or another program. The steps of a boot are those between which
another process can see a difference: mode read, logs loaded, port bound, pidfile
truncated, written.

## 3. The runs

All bounds are constants of the cfg. Deadlock is not checked anywhere: every
task of an instance is finite, so every instance comes to an end.

| Run | Shows | Instance | Distinct states |
|---|---|---|---|
| `StoreServing` | `TenantIsolation`, refinement of `SnapshotServing`, types | one service, two tenants, 1 writer, 1 editor, 1 request, 2 overlapping full reloads (symmetric), 1 crash, no fs_watch: the watcher is idle | 1.9 M |
| `StoreDurability` | `DurableOnceWhole`, `CutSpoilsOneLine` | 2 writers (symmetric), 1 editor, 1 full reload, faults, 2 crashes | 2.7 M |
| `StoreConverges` | `Converges` under fairness | 2 services, fs_watch, 2 writers, 1 editor | 67 k |
| `ResourceConcurrent` | `NoDoubleTransition`, `BodyNotOlder` | 1 charge, 1 capture, 3 transitions, faults, hang-ups, 1 crash | 0.97 M |
| `ResourceRestart` | `BodyTracksState`, `BootRebuildsMap`, types | a resource with and one without a machine, 2 captures, 1 transition, faults, 2 crashes | 0.45 M |
| `ModeServing` | `ServedInModeOfRoute`, `RestartKeepsModeUndisturbed`, `NeverStuckTransitioning`, types | 2 setters, 1 router, 1 request, faults, hang-ups, 1 crash | 0.3 M |
| `SequenceServing` | `InOrder`, `NoOrphanCounters`, `SavesCurrentList`, refinement of `SequenceObject`, `Answered` under fairness, types | 1 id, a looping and a clamping definition, 3 requests, 2 admins, faults, hang-ups, 1 crash | 0.53 M |
| `ProxyServing` | `ReplaysLastRecording`, `CapturedIsFound`, `ReplaysOwnService`, `MilestoneOncePerService`, types | 2 services, 3 requests (symmetric), 1 admin, 3 route tables | 1.9 M |
| `ReplaySession` | `ReplaysEquivalent`, `SwapTraceable`, `CreatedIsReadable`, types | 2 routes, up to 3 recordings or posted mocks, requests with tenants, parameters in two orders, similar ids, nested ids, numbers, bodies that are no UTF-8 or too long | 33 k |
| `ChaosServing` | `FirstRuleApplies`, `OutagesComeAndGo` under fairness, types | 1 service, 2 clients, tables with globs, jitter and Markov, dwells of 2 ticks, 1 restart | 47 k |
| `LogsRecording` | `IdsUnique`, `ClassMonotone`, `EveryRequestLogged` under fairness, types | 2 requests, 2 services or none, 3 mixes of markers, 2 ms, faults, 1 crash | 0.66 M |
| `LifecycleHost` | `PidfileNamesServing`, `StopWorks`, types | 3 pids, 2 ports, 2 data dirs, pidfiles that cannot be written | 1.6 M |

Why these bounds. The races of the code involve two tasks and at most one
observer: two writers, or a writer and a loader, or two loaders on one tmp path.
Three requests let one record, one record again or create a resource, and one
replay. A crash can come between any two steps, and a second one during the
recovery from the first. Two services are there where the property is about
keeping them apart or about a one-file reload; elsewhere they share nothing.
Two tenants and two similar keys are enough for a swap to have a wrong choice.
`Requests` in `ProxyHandler` are a symmetry set: no definition distinguishes
them, and the run checks invariants only. So are the writers of `StoreDurability` and the
full reloads of `StoreServing` (`RecordingsAlike`, `ReloadsAlike`), whose properties
do not tell them apart either.

Three recordings let a session record a request, record it again and record one
that a swap may prefer; the texts include a prefix pair, an id as a number, an id
nested before the resource's own, and a tenant that is blank. Two clients let one
step the Markov state while the other sleeps. Two requests and two milliseconds
let a crash come between two requests that draw the same number, and let both
draw in one millisecond. Three pids are a proxy, a stop, and a third that fails on
the port or takes over a pid; `OnePortPerDir` says that no data dir is used under
two ports, without which two proxies share a pidfile.

`StoreServing` runs with loaders that may overlap, on purpose: isolation and
snapshots must not depend on files being intact. `StoreDurability` has one full
loader beside boot, under a strategy that leaves the watcher idle, since
overlapping loaders do lose lines (`StoreRecording` below); `ReloadsApart` is the
exact condition, and is proved sufficient in section 4.

Conditions a property has by itself. `NoDoubleTransition` speaks of a resource that
is captured once, whose machine has no way back to a state that was left, and of
one life of the process: a subscription may be paused twice, and a new capture or
a lost line starts the machine again. `InOrder` speaks of the turns before the
cursor wraps, and lets a loop that takes over the cursor of a longer definition
give its last response twice (`LoopAdvances` below). `DurableOnceWhole` and
`SavesCurrentList` leave out the lines and lists that a race of section 3's
disagreements costs; `RestartKeepsModeUndisturbed` likewise. `DurableOnceWhole` also
leaves out a line that runs on with one that was cut short, of which `CutSpoilsOneLine`
says how many there can be, and it says that a line is in the file, not that the file
can be read: what a cut costs a restart is `SurvivesRestart` below.
`EveryRequestLogged` likewise says that a line is in the log, whatever part stands before it.

Fairness. `MockStore!Fairness` and `MockSequences!FairSpec` are weak fairness of
the steps a task takes by itself: the tokio runtime polls every ready task, and
system calls return. A handler waiting for an RwLock is woken in turn (tokio's
lock is FIFO), and the steps that free a lock are themselves fair. Nothing is
assumed of clients, editors, faults, hang-ups or crashes. `RequestLogs!FairSpec` is
weak fairness of a handler, which has no await there, and of the two spawned
appends. `ChaosInjection!ChaosFairSpec` is weak fairness of time and of a request whose
sleep is over; that requests keep coming is a premise of `OutagesComeAndGo`, not
an assumption.

### Disagreements between code and documents

`findings` in `PROJECT.json` describes what the code does differently from its
documents. Each is a counterexample to run by hand, with the module `MC<module>`
of the configuration and `-continue`, which reports each property that fails:

    tlc -workers 1 -continue -config ReplayDivergences.cfg MCRequestReplay.tla

| Configuration | Property | What the text says, and what happens |
|---|---|---|
| `StoreRecording` | `NewRequestsSeeEntry` | "new requests see the new entry" (`main.rs:982-984`): a second publish overwrites the first |
| | `SurvivesRestart` | "so it survives a restart" (`main.rs:984-985`): a line appended while a reload compacts the file goes to the replaced inode |
| | `SurvivesRestart` | the same with `DiskFaults = TRUE` and `Loaders = {boot, watcher}`: another write is cut short within a character, and the whole file is no longer read (`io.rs:150`) |
| | `DurableOnceWhole` | crash-safe compaction (`io.rs:168-176`): two overlapping reloads rename a half-written tmp file. Needs `a2` in `Loaders` |
| `StoreReloadLoop` | `WatcherSettles` | an edit costs one reload (`README.md:85`): the watcher reacts to its own rename for ever |
| `StoreSegments` | `SegmentsIndependent` | "other segments untouched" (`io.rs:23-26`): a one-file reload stores a library cloned before it awaited |
| `ResourceDivergences` | `AppendedIsReplayed` | the log rebuilds the map (`resource_store.rs:20-22`): two records on one line are skipped |
| | `ReplayRebuildsMap` | replay rebuilds the map (`resource_store.rs:20-24`): two appends land in the other order |
| | `CapturedWhenAnswered` | the resource is in memory before the answer (`main.rs:1976-1977`): the capture is spawned |
| | `HeaderMatchesBody` | the updated body (`main.rs:1658-1659`): another transition comes between step and look-up |
| `ModeDivergences` | `RestartKeepsMode` | "Mode is persisted" (`ARCHITECTURE.md:23`): two mode changes write and store in different orders |
| | `ServedInMode` | a service in MOCK never reaches the upstream (`ARCHITECTURE.md:16-19`): mode and routes are read apart |
| | `TransitioningResumesLearn` | a restart resumes in LEARN (`main.rs:939-940`): it resumes in the mode before |
| `ModeFault` | `RevertsToPrevious` | a failed write reverts to the previous mode (`io.rs:343`): the file is already truncated |
| `SequenceDivergences` | `FileMatchesMemory` | the file is the sequence state (`ARCHITECTURE.md:84`): spawned saves land in the other order |
| | `ClampsAtLast` | a call beyond the end gets the last response: the u32 cursor wraps (2 bits in the instance) |
| | `LoopAdvances` | "The cursor advances on each call" (`README.md:129`): a loop that replaces a longer definition takes its cursor and gives its last response twice |
| `ProxyDivergences` | `WorkersDontPollute` | workers do not pollute each other (`README.md:115`): resources are not scoped by tenant |
| | `RecordedOncePerService` | milestones once per service (`main.rs:1231-1237`): the recorded counter counts recordings |
| | `SequenceBeforeExact` | sequences are consulted first (`main.rs:877-878`): exact match is |
| `ReplayDivergences` | `CreatedMockIsFound` | new requests see a posted mock (`main.rs:982-984`): its URI is not normalised |
| | `SwapLeavesNoStaleId` | a swap that is not safe is refused (`matcher.rs:53`): an id shown as a number passes and stays |
| | `TextTraceable` | no incorrect replacements (`matcher.rs:46-47`): in a text, one substitution replaces the other's value |
| | `ReplayedVerbatim` | "verbatim" (`ARCHITECTURE.md:60`): bodies become text and are truncated |
| | `LengthAgrees` | the recorded Content-Length is sent with a body of another length (`main.rs:1832, 2078-2093`) |
| | `PassthroughPure` | "pure pass-through" (`README.md:77`): the normalised URI is forwarded |
| `ChaosDivergences` | `DoubleStarAnyDepth` | `**` matches zero segments (`chaos.rs:150`): not as the last of two |
| | `StartsHealthy` | a restart resets to healthy (`markov_chaos.rs:13`): the first step flips |
| | `NoErrorsWhileHealthy` | a healthy state fires no errors (`chaos.rs:76`): the rate is kept over the sleep |
| | `LoggedIsScrubbed` | only the scrubbed path leaves (`main.rs:1429-1431`): the line prints the query |
| `LogsDivergences` | `OneLinePerEvent` | one object per line (`wide_events.rs:18`): text and newline are two writes |
| | `EventsInOrder` | monotonic ids (`wide_events.rs:25`): lines are spawned, the clock is read later |
| | `EntryIdsDistinct` | ids do not collide (`main.rs:213-214`): the entry's is the bare clock |
| | `OverrideWins` | the override wins (`workload_class.rs:37`): CI markers are looked for first |
| | `RecordsEverything` | everything is recorded (`README.md:67`): unrouted traffic is not. Needs `Profiles <- MCProfiles` |
| `LifecycleDivergences` | `EnvHonoured` | `PROXY_PORT`, `INITIAL_MODE` (`main.rs:381`, `Dockerfile:63-64`): the flags' defaults overwrite them |
| | `OneDataDir` | `--data-dir` is honoured (`main.rs:471-473`): not for wide events |
| | `StopsOnlyProxies` | a pid that has exited is harmless (`main.rs:561-562`): it may be another program's by now |
| | `NeverStopsItself` | stop succeeds when nothing runs (`main.rs:352`): pgrep lists the stop command |
| | `StopFindsProxy` | pgrep finds a proxy without pidfile (`main.rs:904-905`): not under its installed name. Needs `IsAgent = FALSE` |
| | `GracefulStop` | "Gracefully stop" (`main.rs:351`): what is acknowledged but not appended is lost |
| | `ServesLastMode` | a proxy serves in the mode of its mode file (`main.rs:745-755`): two proxies of one dir do not agree |

`TextTraceable`, `RecordsEverything` and those of `LifecycleDivergences` are best
run one at a time: TLC may stop at an earlier one.

## 4. The proofs

`MockStoreProofs` proves of `MockStore`, for any sets of services, keys, tenants,
writers, editors, requests and loaders, with and without faults, and for any
number of crashes:

* `TypeCorrect`: `Spec => []TypeOK`. `TypeOK` is not inductive: an append or a
  write of a loader updates the file its handle is open on, and only if that file
  exists is the result a segment. `HandlesOpen` adds that every open handle is on
  a file that exists; `TypeInv == TypeOK /\ HandlesOpen` is inductive
  (`TypeInit`, `TypeStep`).
* `Isolation`: `Spec => []TenantIsolation`. The strengthening `Fidelity` says that
  an entry never leaves the place it was recorded for: in every library, published,
  cloned or under construction (`LibrariesFaithful`), and every file, tmp file and
  parsed content (`FilesFaithful`), what stands under a service and a key was
  recorded for them. It survives the torn files of overlapping loaders, because
  `Overwrites` mixes contents of one file only. An answer is taken from a faithful
  library, so it has the request's service and tenant.
* `StoreServesSnapshots`: `Spec => ServesSnapshot`. Initial states map to initial
  states (`ServingInit`), and under `TypeInv` each step maps to a step of
  `SnapshotServing` or to a stutter (`ServingStep`): the two publishes map to its
  publish, and a crash, which empties the library and closes the requests under
  way, to its crash.

* `Durable`: `Spec /\ []ReloadsApart => []DurableOnceWhole`: while no two loaders
  overlap, a line that reached a file outside a compaction of it, and does not run on
  with one that was cut short, is not lost, with writes cut short, failed reads and
  crashes at any point. `DurableInv` says that every mock file, and what a
  loader has parsed of one, holds for each such line the line or a later one of its
  key (`FileKeeps`, where an entry whose newline is missing counts as the last); that
  the loader's handle is on an empty tmp file before its write, so
  nothing of an older content remains, and that the tmp file holds what was parsed
  before the rename. The condition is necessary: see `StoreRecording` above.
* `DurableAlone`: `Spec => []DurableOnceWhole` if, besides the boot, there is one way
  to reload, the watcher or one route (`OneLoader`), as in `StoreDurability`. The boot
  is over before anything else may load (`AloneInv`).
* `OneLineSpoiled`: `Spec /\ []ReloadsApart => []CutSpoilsOneLine`, for finitely many
  recorders and services. `SpoilInv` counts: the lines spoiled so far and the files
  that now end within a line are together no more than the failed writers. A landing
  on such an end takes one from the second set to the first; a compaction, which
  by `DurableInv` writes whole files, can only shrink the second.

They rest on `KeyPartsAssumption`, `NoEntryAssumption` and `ProcessAssumption`,
which TLC evaluates on every run of the store.

`ProxyHandlerProofs` proves of `ProxyHandler`, for any services, keys, route tables
and machines, and any finite set of requests, from `HandlerAssumption`, the types
(`Types`) and an inductive invariant `HandlerInv` whose parts are:

* `ReplaysLast`: `Spec => []ReplaysLastRecording`. `ReplayInv` says that, as long as no
  two recordings overlap, the published library holds exactly the last recording
  of each service and key in the history (`HoldsLast`), the library a request took
  holds that of the history then, and a request past the exact match was
  answered by it if its body agreed. The last recording of a key must be the
  last in the history, not just one of it, or a second recording would break it.
* `ReplaysOwn`: `Spec => []ReplaysOwnService`. `OwnInv`: every entry of every library in
  use, and every resource, stands under the service its recorder was bound to.
* `CapturesFound`: `Spec => []CapturedIsFound`. `CaptureInv`: what was captured stays in the
  map, and a request that has looked in vain arrived before every capture of it.
* `MilestonesOnce`: `Spec => []MilestoneOncePerService`. `MilestoneInv`: the set a milestone
  is counted in and its counter agree after every step, because insert and test are one
  step; the counter is then a cardinality. `CountInv` does the same for the cursor and
  the recorded counter, whose bounds are part of `TypeCorrect`: `Spec => []TypeOK`.

`ResourceStoreProofs` proves of `ResourceStore`, for any finite set of resources
and any captures, transitions, faults, hang-ups and crashes, from `OpsAssumption`
and `NoResourceAssumption`, with the inductive `StoreInv`:

* `TypeCorrect`, and `BodiesTrack`: `Spec => []BodyTracksState`. `RecordInv` says that every
  record, in the map, in a loader's bucket, in a parsed or merged line or on its
  way to one, is of a capture of that resource that has begun, with a status that
  agrees with its state.
* `BootRebuilds`: `Spec => BootRebuildsMap`. `BootInv` says that nobody touches map or log
  during a boot and that the bucket is what the log replays to, before the
  compaction and after it (`CompactedReplay`), which need not happen; a boot that
  cannot read the log has an empty bucket and leaves the log alone.
* `NoDouble`: `Spec => []NoDoubleTransition`, and `BodiesNotOlder`: `Spec => []BodyNotOlder`.
  `ReachInv` follows the states a machine can reach: the state of a resource is
  reachable from every state a transition of it has reported in this life of the
  process. A second success of the same step would then need a way back.

`MockSequencesProofs` proves of `MockSequences`, for any requests, admins, ids,
definitions and lengths, from `SequencesAssumption`, with the inductive `SequencesInv`:

* `TypeCorrect`, with `HandleInv`: a save's handle is on a file that is there.
* `NoOrphans`: `Spec => []NoOrphanCounters`, inductive by itself, since list and cursors are
  locked in one order and a boot starts without cursors.
* `TurnsInOrder`: `Spec => []InOrder`. `TurnsInv` says that the cursor of an id is the one its
  last response advanced to, and that the cursor of a loop is within its length
  except for one response after it replaced another definition. `InOrder` did not
  hold without that exception; the attempt to prove it found the disagreement
  `LoopAdvances`.
* `SavesCurrent`: `Spec => SavesCurrentList`. `SaveInv` says that, while no list is changed
  before it has been saved, one save at a time is under way and writes the
  current list to an empty tmp file; a save that is cut short leaves its part there.
* `HandlersAreAtomic`: `Spec => AtomicSequences`, the refinement of `SequenceObject`. A
  request takes effect when it has the cursors, a delete when it drops its cursor; until
  then the object's list is the one from before the delete, which the history
  variable `listed` remembers (`Seen`). `LockInv` says that a delete that waits for the
  cursors is alone with the list and has taken only its id from it (`LockStep`), so
  nobody can have seen the list between. The object lets a client that hangs up
  leave half a delete, and nothing else. After a restart it takes any list: which one that
  is, `SavesCurrentList` says.

`RequestReplayProofs` proves of `RequestReplay`, for any texts, routes, requests,
replies and posted mocks, and sessions of any length `MaxLearned`, from
`TextsAssumption`, `SwapAssumption` and `ReplayAssumption`:

* `TypeCorrect`: `Spec => []TypeOK`.
* `ReplaysLastEquivalent`: `Spec => []ReplaysEquivalent`. `LibraryFollows` says that the library
  holds the last recording of each key and nothing else, with the body as it was
  kept. The rest is that two
  requests have the same key if and only if they are equivalent (`KeySame`), for
  queries of any length: a query is sorted along a linear order, since no two
  texts have one rank and positions break ties; what enumerates a finite set along
  such an order is unique (`ArrangedEnumerates`, `EnumerationUnique`); so sorted
  queries are equal exactly if one is a rearrangement of the other (`CanonicalSame`).
  `TenantIsNamed` says that the key's tenant is the one that is named, by the
  header or else by the first parameter.
* `CreatedIsRead`: `Spec => []CreatedIsReadable`. `ResourcesFollow` says that whatever an
  exchange created is among the resources, because the id the code extracts is the
  one at the root, whatever is nested before it (`ExtractIdIs`, `RootIdFound`).
* `SwapsAreTraced`: `Spec => []SwapTraceable`, for JSON answers of any length: what the
  substitutions put in place of another text stood in its place in the request
  (`SubstitutionsHeld`, `SwappedTraced`).

All rest on the inductive `SessionInv`, which joins these. `ReplaysEquivalent` used to say "the same host"; with a
path route the host does not matter, so the proof needed "the same service".
A function defined by recursion over the length of a body (`ByteLength`) is shown to exist and
to be a natural by taking a least counterexample (`LeastNat`, from the library's
`WFMin`), which is a theorem without an operator parameter.

`RouteProofs` proves of `ModeControl`, for any sets of mode changes, route
changes and requests and any number of crashes, from `ModeAssumption`:

* `ModeTypeCorrect`: `Spec => []TypeOK`. Inductive with the fact that whoever is
  between the file and the mode asks for a mode that is written to the file
  (`TypeInv`), or the file could hold TRANSITIONING.
* `NeverStuck`: `Spec => NeverStuckTransitioning`, since by `TypeInv` no file
  resumes in TRANSITIONING (`ResumeType`).
* `ServedInEffect`: `Spec => []ServedInModeOfRoute`. `RouteInv` says of a request
  that has read the global mode, and that no route change has overtaken, that the
  mode it would be served in now is one that was in effect.
* `RestartKeeps`: `Spec => []RestartKeepsModeUndisturbed`. `PersistInv` says that
  while nothing is disturbed only one mode change is between the file and the mode,
  that the file is empty before its write and parses to its mode after it
  (`WrittenIsParsed`), and that otherwise the file resumes in the mode.

`RouteProofs` also proves of `ChaosInjection`, for any services, configurations, rules,
clients and tables, from `RulesAssumption` and `InjectionAssumption`:

* `GlobDecides`: `glob_match` accepts a path if and only if it can be split over the
  pattern (`Splits`), for patterns and paths of any length; a pattern that ends in two
  `**` needs a segment there, which is the disagreement `DoubleStarAnyDepth`. `GlobMatch`
  is a recursion from the end of the pattern. The set of places from which the rest can
  be split (`Reach`) solves it (`ReachStep`, `ReachSolves`), and no other function does, by the
  least place where one would differ (`ReachOnly`, `LeastNat`). `GlobCovers` compares it
  with `Covers`, which does not know of the exception.
* `FirstRule`: `ChaosSpec => []FirstRuleApplies`, and `ChaosTypeCorrect`: `ChaosSpec => []ChaosTypeOK`,
  from the inductive `ChaosInv`, which adds that the routes in force are those of a table.
  The first match is the least of the rules that match (`FirstMatch`); a request carries
  its configuration with it, so route changes do not reach it or its draw (`ChaosStep`); whatever
  number is configured, what is drawn is a status code (`ErrorType`).

`LifecycleProofs` proves of `Lifecycle`, for any processes, ports, data dirs,
flags, environment and mode files, from `LifecycleAssumption`:

* `TypeCorrect`: `Spec => []TypeOK`.
* `PidfileCorrect`: `Spec => []PidfileNamesServing`, and `StopCorrect`:
  `Spec => []StopWorks`. Both come from the inductive `HostInv`. `PortInv` says that
  a proxy holds its port from the bind to its end and that a port has one holder,
  `SettingsInv` that a proxy runs under the settings of some start. So, if no data
  dir is used under two ports, two holders of one dir are one process
  (`OneHolderPerDir`), and only that process writes the pidfile between its bind
  and its end: starts that lose the port write nothing. `AimInv` follows a stop:
  from the read to the kill, the proxy it is to end either has ended or is still
  listed and is the pid the stop holds, so the kill leaves none.

`RequestLogsProofs` proves of `RequestLogs`, for any requests, profiles, services,
numbers of crashes and bounds of the clock, from `LogsAssumption`:

* `TypeCorrect`: `Spec => []TypeOK`.
* `IdsCorrect`: `Spec => []IdsUnique`, from the inductive `LogsInv`. `NumberInv` is its
  heart: an id of the present millisecond is of this process, since a restart
  takes at least one, so its number is below the counter and differs from every
  number drawn and not yet used; ids of earlier milliseconds differ by the
  clock. It needs `StageInv` (nothing is drawn or spawned before its turn), and
  `TrafficInv` and `EventInv` tie a line to its request, which has no other.
* `ClassCorrect`: `Spec => []ClassMonotone`. A recorded class is the one of the
  request's own headers and User-Agent (`ClassInv`), and the inference is monotone
  (`InferMonotone`).

Model-checked only:

* liveness: `Converges`, `Answered`, `EveryRequestLogged`, `OutagesComeAndGo`, since the
  prover handles neither fairness nor ENABLED here;
* what a swap does to answers that are not JSON (`InText` folds over words and
  substitutions): `SwapTraceable` says nothing of them, and `TextTraceable` fails.

## 5. What is not modelled

* The characters of texts: what the helpers ask of them is given by constants, for
  texts that have them. `is_dynamic_segment` on hex groups is
  therefore what `HexGroups` says, and `parse_collection_and_id` on versions what `Versions` says.
* Durations: latency and dwell are ticks, debounce may end at any moment after it
  is set. Probabilities of chaos: a draw may go either way. Validation of chaos
  rules, and a rule's own `enabled`, which the handler does not look at.
* Timeouts of the upstream client: a forward fails or does not (`ForwardFail`).
* Health, metrics, configuration and list handlers: they read state and format it.
  `export`, `logs` and `status` of the command line: they only print.
* A crash of `ProxyHandler` as a whole; crashes are in the modules of the parts.
* A mock file deleted by hand, and a loader that fails to list the directory.
* Functions without a caller: `find_structural`, `ResourceStore::delete`,
  `set_counter`, `counters`, `drain_observations`, `from_str_or_unknown`.
* Installers and container image: copying and permissions.

Read while modelling, and left as it is: `ActionVerbs` has no "uncollectible", an
action of the invoice machine, so in LEARN mode `POST /invoices/x/uncollectible`
is captured as a resource of a collection of that name; `PUT /users/42` is
captured under the collection "42", where nobody looks for it, as only segments with
a digit and an underscore count as ids there; `is_dynamic_segment` takes "----"
for a UUID.

## 6. Plan

Done: every part of section 1 that is not left out in section 5, with proofs of
every safety property of the runs.

Next, in this order:

1. `AppendLog`: the two-write append of `wide_events.rs` and the resource store as
   one abstract log, with `ResourceStore` and `RequestLogs` shown to implement it.
2. Reloads and crashes in the composed handler: recording, restart, replay.

# CefHost: a verification project in TLA+

CefHost runs a Chromium page off screen and hands its frames to another process,
usually Unreal, through shared GPU textures and shared memory; input and commands
come back through two shared rings. The program's own code is about 3,000 lines of
C++ (`src/`, `include/`); `cef/` is the vendored browser. What makes it hard is not its
size but that every part of it is shared: four host threads, the GPU and a second
process read and write the same counters, headers, rings and textures, almost
always without a lock.

This directory holds TLA+ modules of those parts, TLC configurations that check them on
small instances, and proofs, checked by TLAPS, of what holds for every value of
the constants. `PROJECT.json` lists the runs, the code each definition models, the
mutants that show each property can fail, the disagreements found between the code
and what is said about it, the hazards and the theorems.

In this file source lines without a path are lines of `src/osr_handler.cpp`.

## 1. The system

### Processes and threads

| Actor | Runs | In the modules |
| --- | --- | --- |
| Main thread | `main`, `OnContextInitialized`, `OsrHandler::Init`, then CEF's message loop | HostStart |
| UI thread (CEF's) | `OnAcceleratedPaint`, `OnAfterCreated`, `OnBeforeClose`, load, cursor, popup and console callbacks | ConsoleRing, BeginFrames, FrameTransport, ViewPaint, PageState, HostThreads, HostStart |
| Render thread | `RenderThreadMain`: at each cadence tick `TrySendBeginFrame` | BeginFrames, NudgeGate, RenderLoop, HostThreads |
| Input thread | `InputThreadMain`, `PumpInput`, `DispatchInputEvent`, `TryInputNudgeFrame` | SpscRing, BeginFrames, NudgeGate, HostThreads, InputDispatch |
| Control thread | `ControlThreadMain`, `PumpControl`, `HandleControlEvent`, `Resize` | SpscRing, BeginFrames, RenderLoop, ViewPaint, HostThreads, HostStart |
| GPU | executes the context's queue in order, advances the shared fence | FrameTransport |
| Consumer process | fills the input and control rings, reads frames and logs | SpscRing, ConsoleRing, FrameTransport, ViewPaint, PageState, HostStart (external) |
| CEF | answers begin frames with paints, reads the view rectangle, creates and closes the browser | BeginFrames, ViewPaint, PageState, HostThreads (external) |

### Components

| Component | State | Operations | What makes it hard | Correct when |
| --- | --- | --- | --- | --- |
| Input and control rings (`SharedInputBuffer.h`, `SharedControlBuffer.h`) | two atomic 32-bit indices and an array in shared memory | `ReadEvent`, `HasPendingEvents`; the producer is the other process | lock-free, two processes, wrap of the indices | a bounded FIFO queue, no slot touched by both sides |
| Console ring (`SharedConsoleBuffer.h`) | the same, the other way round | `WriteEvent`, which drops the oldest log when full | both sides store the read index | no phantom logs, lossless until full, the newest log arrives |
| Begin-frame scheduling | `m_beginFramesSent`, `m_paintsCompleted`, `m_maxInFlightBeginFrames`, `m_paused` | `TrySendBeginFrame`, `TryInputNudgeFrame`, the end of a paint, `SetMaxInFlightBeginFrames`, `SetPaused`, `SetFrameRate`, the pass of `RenderThreadMain` | four threads, relaxed atomics, one counter stored into another | debt bounded, cadence never stops, what is made up after a stall is bounded, pause and rate take effect |
| Nudge gate | `m_lastBeginFrameUs`, `m_beginFrameIntervalNs` | `TryInputNudgeFrame`, the store in `TrySendBeginFrame` | compare-exchange against a plain store of an older reading; unsigned difference | nudges a gate apart |
| Frame transport | texture ring, fence, GPU queue, `FrameHeader`, frame event | the publishes of view, popup and load state | the GPU runs later, the header has no lock, the event auto-resets | the consumer shows whole frames, the newest in the end |
| View painting | shared textures and their recorded size, cached CEF texture, `m_forceFullFrame`, `m_warmupFullFrames`, `m_width`, `m_height` | `OnAcceleratedPaint`, `EnsureSharedTextures`, `Resize` | resize on another thread, creation and open failures, damage relative to the last frame seen | the consumer's image is the page, at the size last asked for |
| Browser life and threads | `m_browser`, `m_running`, three `std::thread` | `OnAfterCreated`, `OnBeforeClose`, `StartRenderLoop`, `StopRenderLoop`, the thread bodies | joins on the UI thread against pumps that read shared rings | no worker without a browser, closing completes |
| Input dispatch | `m_inputEnabled`, `m_mouseModifiers` | `DispatchInputEvent` | a switch set by another thread between down and up | modifiers are the buttons held |
| Control events | the members above | `HandleControlEvent`, 24 kinds | most change state another thread reads | each takes effect in order |
| Load, cursor, popup state | header fields, `m_popupVisible`, `m_popupRect` | `OnLoadStart/End/Error`, `OnCursorChange`, `OnPopupShow`, `OnPopupSize` | order of CEF's callbacks, some changes without an event | the consumer sees the final state |
| Bootstrap (`main.cpp`, `cef_browser_app.cpp`) | the mapped channels, the browser | start, `OnContextInitialized`, `Init` of each channel | any step may fail; a restart finds what the other process still holds | no browser without its channels, no input from before the restart |
| Runtime configuration (`host_runtime_config.cpp`) | one record | `FromArgs` | options that take the next argument, wrapping numbers | the command line means what the usage text says |
| Session names (`SharedMemoryLayout.h` 51-103) | none | name formatting | sanitising is not injective | distinct suffixes have distinct names |
| D3D device (`D3d11device.h`) | device, context | `Init` | external failures | - |
| CPU frame path (`SharedFrameBuffer.h`) | - | `WriteFrame` | dead code | - |
| File-URL encoding (107-177) | none | string conversion | reserved characters, four kinds of path | the URL names the file |
| Telemetry, thread tuning | log-only counters | - | - | - |

Interactions: the control thread changes the cap, the pause flag, the flush interval, the view size
and the input switch, which the render, UI and input threads read; the UI thread's completed paints
pay the debt the render thread counts; the input thread's nudges write the time stamp the
render thread writes; the frame event is set by every callback that publishes. `OsrHandler::Shutdown`,
`ShutdownSharedChannels` and the buffers' `Shutdown` are not reached from anywhere, and
`UpdateBeginFrameIntervalFromConsumerCadenceUs` and `TryIdleRepairInvalidate` do nothing for the host.

The hazards, each at its line and with the properties for it, are in
`PROJECT.json`; those without a property carry a note.

## 2. Modules

| Module | Models | Abstraction |
| --- | --- | --- |
| `BoundedQueue` | what the rings promise | `queue`, `taken`; `Put`, `Take` |
| `SpscRing` | `ReadEvent` as two loads, the copy and the index store; the producer's reserve, store and publish | events are model values; the indices count modulo `Capacity * Laps` |
| `ConsoleRing` | `WriteEvent` as check, drop, first and second half of the copy, publish, signal; the consumer that waits on the event | log *n* is the number *n*, a half-written slot is `Torn` |
| `BeginFrames` | each relaxed load and store of the two counters, the cap and the pause flag, on four threads | CEF answers a begin frame with a paint that is published, fails, or has no damage |
| `RenderLoop` | `RenderThreadMain` over NudgeGate: the schedule, the wait, the pause test, the resynchronisation; `SetFrameRate` | waits are free to end late by any time; a nanosecond second of a few ticks |
| `NudgeGate` | clock reading, load, test, compare-exchange; the render thread's store | a clock of ticks, `uint64_t` differences modulo `Word` |
| `FrameTransport` | a publish as slot copy, dirty rectangles, fence signal and flush, slot fields, fence fields, sequence, event; the GPU queue; the consumer's snapshot, fence wait and two-step read | the *n*-th view paint has content *n*; one size, no failures |
| `ViewPaint` | `OnAcceleratedPaint` from the cached handle to the publish, `EnsureSharedTextures` with failures, the resize header, `Resize` as five steps; the consumer that copies only damage | a page is a function from tiles to the paint that changed them last; a publish is one step |
| `HostThreads` | creation and close on the UI thread, the loops of the three workers, the input batch with its nudges | a ring is its number of unread events; a wait may end at any time, as its 100 ms timeout lets it |
| `InputDispatch` | `DispatchInputEvent` and `m_mouseModifiers` over HostThreads | an event is its type and button, chosen when it is read; a mouse's downs and ups alternate |
| `PageState` | the load callbacks, the cursor, the popup and its plane, the publishes that carry them | one dimension; a column of a texture holds a column of some popup paint; a callback is one step |
| `HostConfig` | `FromArgs`, the object names, file URLs, as operators, and what each is meant to be | an argument is a record of text, key and value; names and paths are sequences of characters |
| `HostStart` | `main`, `OnContextInitialized`, `OsrHandler::Init`, the end and restart of the process; the producer that keeps the ring | an event is the life of the ring it was sent in; the other channels are mapped without their content |

The modules cut the system by shared state. Three are composed by extension, so that the steps of the one are
conjuncts of the other's: RenderLoop says when NudgeGate's render thread sends, InputDispatch what HostThreads'
input thread reads, HostStart what HostConfig's operators are applied to. Where a step of one is
detail in another it is named there: HostThreads' render tick is BeginFrames'
`TrySendBeginFrame`, its ring is SpscRing's, ViewPaint's one-step publish is FrameTransport's, and so is PageState's.
The consumer is modelled from the contract in `SharedMemoryLayout.h`, `README.md`, `SKILLS.md`
and `PROJECT_LOG.md`: it waits for the event, copies the header, waits for the fence value, and
falls back to a full copy when `frame_id` shows a gap.

Variables carry the member's name without `m_`; a thread's program counter ends in `Pc` and
stops only where another actor could see the difference; variables marked `history`
exist for the properties. Definitions called *Mutant*, or said to be a mutated form, are plausible bugs of the definition that follows them:
each property has one that breaks it.

`MC...` modules instantiate them, each with its configurations.

## 3. What the runs check

Runs that pass:

| Run | Shows |
| --- | --- |
| `MCSpscRing` | the ring refines the queue across the wrap (`ImplementsQueue`), no slot is written while it is copied (`NoDataRace`), every published event is reached (`PublishedIsRead`) |
| `MCConsoleRing` | the read index stays behind the write index although both sides store it; nothing is lost or torn before the first drop; the newest log is delivered |
| `MCBeginFrames` | the counted debt is within the cap outside a reset that races with a send (`CountedDebtWithinCap`); a pause lets at most one begin frame of each thread through (`PauseSettles`); the cadence never blocks when all begin frames are published; a reset frees a blocked cadence |
| `MCRenderLoop` | however stalls and waits follow each other, over any stretch of time the frames ticked exceed the time gone by by at most `ResyncFrames + 1` frames of the slowest rate they were ticked at (`BurstBounded`); over its life the thread never ticks more often than the fastest rate allows (`NeverAheadOfTime`); a rate is in force from the next pass on (`RateTakesEffect`); two nudges with no store of the render thread between them are a gate apart (`QuietGate`) |
| `MCFrameTransport` | a snapshot not taken in mid-publish is of one frame; its slot is intact until `SlotCount` newer copies |
| `MCFrameTransportLive` | with the default flush interval of one and no popups, whichever publish is the last is shown |
| `MCViewPaint` | the consumer's image is the page through resizes, popup frames, overflows and failed creations; each frame's slot has the size and page it declares, unless its textures are all of a size that was never recorded (`PublishesPainted`); a torn `Resize`, read by a torn `GetViewRect`, converges to the last size |
| `MCInputDispatch` | no worker is alive without a browser; `TryInputNudgeFrame` is called after each dispatched event (`NudgeTriedForEveryInput`); the mouse modifiers are right about every button but those whose last event was dropped (`ModifiersAreHeld`); close completes under endless input; a full input ring gets room |
| `MCPageState` | a consumer with nothing left to take shows the popup whole, at the rectangle the header names, whatever became of plane and view (`PopupWhole`); it knows the main frame's load state, and cursor and popup as of the last signal (`NothingKeptBack`) |
| `MCHostStart` | no event of an earlier host reaches the page of a restarted one, unless its publish straddled the clearing of the indices (`NoStaleReplay`); a browser is only asked for with all channels mapped (`BrowserIsReachable`); command lines mean what the usage text says (`OptionsObeyed`); sessions that differ after sanitising share no name (`SessionsApart`); a file URL names the file (`UrlFindsFile`) |

Runs that find a violation. Each checks one sentence of the documentation or of a comment against the
code (quoted in `PROJECT.json` under `findings`):

| Run | The sentence | What happens |
| --- | --- | --- |
| `MCBeginFramesStall` | the render thread "keeps cadence" | begin frames without a published paint use up the cap for good |
| `MCHostThreadsPopup` | "Starts render/input/control loops when browser host is created" | the page opens a window: the second `OnAfterCreated` assigns to joinable threads, `std::terminate` |

The modules state nine more sentences that the code does not keep and that have no configuration of their own; each is
found in seconds by naming it in a configuration with the bounds given here:

| Property | The sentence | What happens |
| --- | --- | --- |
| `ConsoleRing!DropNeverRestores` (the bounds of `MCConsoleRing`) | "Drop oldest to keep newest logs" (SharedConsoleBuffer.h:55) | the drop stores an older index plus one: logs already read come back |
| `BeginFrames!OutstandingWithinCap` (caps {2}, one nudge, no reset) | "enforced bounded begin-frame backpressure" (PROJECT_LOG.md:392) | nudges are outside the bound |
| `BeginFrames!OutstandingWithinCapAcrossResets` (caps {2}, five sends, one reset) | "and reset stale in-flight debt when cap changes" | frames in flight are forgotten with the stale debt |
| `BeginFrames!CadenceKeptAcrossResets` (caps {1}, one reset) | "resets stale debt" (osr_handler.h:126) | the reset overwrites newer completions and creates debt |
| `NudgeGate!NudgesSpaced` (`Spec`, a gate of 2, a word of 64, a clock to 8) | "<= 1 nudge / min(cadence, 2ms)" (PROJECT_LOG.md:251) | `now - prev` wraps when the render thread stored a later reading, and the second nudge passes |
| `ViewPaint!TargetSizeEnsured` (the bounds of `MCViewPaint`) | "Ensures shared texture resources exist for target size" (osr_handler.h:175) | the recorded size is still A's: the half-made textures of size B are taken for A's |
| `FrameTransport!RaceEliminated` (`Intervals` {1}, four views) | "eliminates the race entirely" (709) | a consumer three frames behind reads the slot being copied into |
| `ViewPaint!TextureIsThePaint` (`HandlesReused`) | "The handle's resource cannot be cached" (cef_render_handler.h:163) | a reused handle value hits the cached texture |
| `ViewPaint!DroppedFramesRecovered` (one failed open, two pool textures, three paints) | "Fix dirty-rect ghosting ... when frames are dropped" (PROJECT_LOG.md:55) | a paint the host drops takes no `frame_id`, its damage is lost |

Smaller things the modelling showed, which no property is about:

- `OnLoadError` followed by `OnLoadEnd` with a status below 400 ends in `Ready` (1231), although the load failed.
- A popup that is shown and sized before it is painted is drawn from the last popup's texture (753-766), and a view
  paint copies it without clamping its rectangle to the view, which the popup's own paint does (627-632). A popup paint
  with a negative x copies the texture's first columns rather than the visible ones.
- `--key=` with nothing behind the `=` takes the next argument, as `--key` does (host_runtime_config.cpp:62-72).
- `--fps` sets the interval in the constructor and the browser's rate, and `OnAfterCreated` sets both to 60 (1311-1312).
- `--width=-1` wraps to 2^32 - 1, which `GetViewRect` casts to -1 (1302).
- `--enable-cadence-feedback` and `SetKeyframeIntervalUs` store values that nothing reads; `EVT_SHUTDOWN` names an event
  that is never created.
- The call after an event asks for no begin frame when the host is paused (1334) or the last one is less than a gate old (1348):
  the last events of a quick batch get none of their own, and the next tick of the cadence serves them.
- What the resynchronisation bounds is what is made up. Passes of the render loop that each take a whole frame follow each other
  without a wait for as long as they do: 1110 is then never true.
- A raised frame rate during a catch-up adds ticks: what is owed is time, and it is made up in shorter frames.
- After a restart `frame_id` and `sequence` start over (319), and a consumer that kept the mapping cannot tell.
- Sanitising a session id is not injective, and a session called `legacy` shares the profile directory of hosts without a
  session (main.cpp:54). README.md:5-8 still says that names are fixed and one host per machine is the limit.
- A relative path and the absolute path of the same spelling have the same URL (170-176).

### Bounds

- Rings: three slots and two laps give every slot on both sides of the wrap; two console slots and six logs
  fill, drop and refill the ring three times.
- Begin frames: four sends are twice the default cap of two; cap 0, which stands for the default, and the lower cap 1 are
  requested. One nudge, one reset and one extra paint, since each is an independent disturbance and their pairs occur.
- Render loop: a second of 12 ns and 6 clock ticks, a default rate of 2 and a fastest of 3 per second, so frames are two or
  three ticks; resynchronisation after two frames and nine ticks of clock leave room for stalls beyond it. Requests are 0 (the default) and
  9 (clamped). The gate is one tick: it is shorter than a frame, as 2 ms is shorter than 1/240 s.
- Frame transport: the real `SlotCount` of three and four views with a popup anywhere among them, so the ring wraps onto a slot
  in use; `Intervals = {}` leaves the flush interval at one. The liveness run has three views and a load state, in any
  order, and may raise the interval to 2 (the property then claims nothing).
- View paint: two tiles (damaged or not), two sizes of two dimensions so a half-done `Resize` or `GetViewRect` is a size
  of its own, two resizes, so that the page can come back to the size its textures were recorded at after a creation that failed, one
  unasked paint, a popup frame, one failure of each kind; one warm-up frame stands for three. A call of `GetViewRect` that finds the size
  CEF already has is left out.
- Threads: a batch of three, a nudge every two and a ring of four, so a batch ends inside a full ring and
  off the nudge rhythm. Input is unbounded; two control events; the two buttons 1 and 2, of which a wrong flag for one is
  the other's. `MCHostThreadsPopup` has a second browser and a ring of two.
- Page state: views of one and two columns, a popup that fills both and one that lies in the second only, so
  each popup fits one size of view and not the other; two popup paints, any number of view paints and callbacks.
  Cursors are only compared with each other, so `Cursors` is a symmetry set; the run has no liveness property, which
  symmetry could spoil.
- Host start: two launches (one restart), a ring of two slots and three laps, three events sent, so the ring of the first host can be
  full, or have wrapped, when the second clears it. Every command line of up to three of ten arguments, which puts every argument in the place of
  another's value; numbers wrap at 4096 in place of 2^32. Five sessions, among them two that sanitise to one, and `0` and `a_0`, which look like slot
  numbers; 35 paths, each kind of beginning with each reserved character.

All these bounds are constants; the proofs do not depend on them.

### Fairness

Weak fairness of threads that the operating system schedules, of a GPU that executes flushed
commands, and of CEF answering a begin frame. Nothing is assumed of the page, of the user, of the producer,
or of a command being sent: they may stop at any point. A consumer is assumed to keep reading where the
property is about what it gets. The input and control waits have a timeout in the code, so a fair thread leaves
them without an event. `DispatchFairness` says the same of HostThreads' threads with
the mouse state beside them: one weak fairness condition per thread, none on the producer or the browser's creation or close. An unflushed GPU command is not fair.

## 4. What is proved

TLAPS checks that every invariant and every action property of the runs is a theorem, for all constants that satisfy the
modules' named assumptions: positive capacity, batch, gate and number of slots; index widths of a multiple of the capacity, at least two
laps; a `Word` that holds the clock and the gate; rectangles and sizes that are numbers; argument lists that are lists, tables that give
a text its number or its characters, and a `UIntMod` above the default width. `PROJECT.json` lists the theorems with the
properties of the runs they state.

Eight modules hold them: `SpscRing_proofs`, `ConsoleRing_proofs`, `BeginFrames_proofs`, `FrameTransport_proofs` and `ViewPaint_proofs` for the module of
that name; `RenderLoop_proofs` for NudgeGate and RenderLoop; `InputDispatch_proofs` for HostThreads and InputDispatch; `HostPage_proofs` for PageState,
HostConfig and HostStart.

### The channels

- `SpscRing`: `RingInvariant`. The inductive invariant says what each side has secured at its program
  counter: a producer past its reservation has room, a consumer past its test has an event, the
  stored slot holds the event, and at most `Capacity` events are pending. `NoRace` needs that slots of
  indices less than a capacity apart differ (`SlotsDiffer`, modular arithmetic across the wrap).
  `RingImplementsQueue` maps the pending slots to the queue: the publish is `Put`, the index
  store is `Take`, everything else is a stutter (`StoreLeavesWaiting`, `PublishPuts`, `AdvanceTakes`).
- `ConsoleRing`: `ReadStaysBehindWrite`. Both stores of the read index are of a loaded value plus one; the
  invariant keeps each loaded value below the write index, which only grows. `LosslessRing`: until the first drop only the consumer
  stores the read index, the logs between the indices fit the ring, and each lies in its slot; the slot being written is none of theirs.

### Scheduling and threads

- `BeginFrames`: `DebtBounded`. Only the render thread increments the sent count, so its copy is exact and the
  completed count it loaded can only be behind; while no reset is under way the real debt is at most
  the debt it decided on. `PauseBounded` counts the frames each thread has been admitted for.
- `NudgeGate`: `GateHoldsUndisturbed`. While the render thread has not stored, the atomic holds the last
  nudge's reading, and an exchange is tried only on a value that passed the test, so it succeeds only a gate later.
- `RenderLoop`: `LoopInvariant` holds the gate's invariant (every step of the loop is a step of the gate or leaves it alone),
  and bounds the schedule from both sides: the next tick is at least the ticks so far times the shortest frame (`NeverAhead`), and
  what has been made up and what the schedule still lags behind the clock are together within the allowance of `BurstsBounded`, except for a lag that the pass is about to give up (`Owed`): a tick
  moves one frame from the lag to what is made up, a stall adds to the lag until the resynchronisation drops it.
  It needs that a frame of any requested rate is no shorter than the fastest one's, which is monotonicity of two integer divisions.
- `HostThreads`: `QuietWithoutBrowser` and `NudgeIsTried`. The joins go in order, so at the join of each
  thread the earlier ones are gone and the browser is held; what is owed to the dispatched events is in the
  flag that the end of the pump reads.
- `InputDispatch`: `ModifiersRight`. Each dispatched down or up makes the flag what the button is, each dropped one puts the button into
  `missed`; distinct buttons have distinct flags. `DispatchKeepsThreads` carries HostThreads' invariant over.

### Frames

- `FrameTransport`: `TransportInvariant`. `SlotIntact` speaks of a slot that the consumer is reading; what makes it inductive is about
  commands that the GPU has not executed. `QueueInv` says that the queued copies are the last ones made, each to the slot of its own view, that neither
  the fence nor a queued signal has reached the next value, and that a copy that was made stays until its slot's turn comes again; `FenceBehindCopy` that the copy of a frame stands before the signal of that frame, so a fence value that has
  been reached means a copy that has been made, and `ReadingNamed` that the consumer reads the slot its snapshot names.
  From these follow `SlotStaysIntact`, `SnapshotsAreOfOneFrame` and the types, for every number of slots and paints, every set of flush intervals,
  and with or without a fence.
- `ViewPaint`: `FramesInvariant` is what holds whatever CEF and the device do. `ImageIsPage` is a fact about the frame shown last, and what
  makes it inductive is what the next frame will say (`ContentInv`): the slot that the header names holds that frame's page; a frame with rectangles differs from
  the one before it in them alone; a page that was dropped because textures could not be made is made up for by the full frame that the new textures
  force. `PublishesWhatWasPainted` and `ImageIsAlwaysPage`
  assume, as they state, that the texture opened is the one CEF painted (`TextureIsThePaint`); `CachedTextureIsThePaint` shows it if CEF gives no handle value to two textures.
  Failed creations are allowed. Textures that are there at one time were made together (`OneSize`), so after a failure they are either all of the recorded size, or not all there, which
  makes the next paint create them, or all there and of a size that was not recorded (`Unrecorded`). Only the last lets `EnsureSharedTextures` go on with the wrong textures, when the page is back at the recorded
  size; `PublishesPainted` leaves it out, `TargetSizeEnsured` is about it, and `EnsuresTargetSize` shows that without a failed creation it does not come up. `PaintIsRight` puts them together.
  `ImageIsAlwaysPage` also needs two slots, so that the
  copy does not go to the slot the header names, and at most one failed creation: then the wrong frame's header disagrees with its texture, and the consumer does not take it up. This is no weakness of the
  proof: with sizes A, B, A and failures at both B and the return to A, the header still names a frame of size A, the second failure has left a blank texture of size A in its slot, and a consumer that comes late reads it.
- `PageState`: `ConsumerIsTold`. All fields but the cursor are written together with the event, so a consumer that waits
  with the event down has them; what the callbacks changed without it is in `untold`. `PopupIsWhole` needs the plane as well (`PlaneInvariant`):
  wherever the header shows the popup, and its rectangle lies in the plane, the plane holds every column of the last popup paint, and the consumer has
  that plane unless the event will wake it. The view paint's refresh is what keeps it when the plane is made anew.

### Start, configuration and names

- `HostStart`: `BrowserHasChannels`. The channels held are a function of the place in the start (`HeldInv`). `NothingIsReplayed`: once a host has cleared both
  indices, every event between them was stamped in its own life, a producer with an older reservation finds the ring empty, so that publishing would straddle the clearing, and
  one with a reservation of this life still has the write index (`RingInv`). The other channels' failures and any number of kills and launches do not disturb it.
- Command lines: `PromiseKept` is about every sequence of arguments. The scan of `FromArgs` is a fold; what the usage text promises is stated with sets of positions: an
  argument is an option's head unless it is the value of the head before it, and for each option the last head with a value that can be understood counts. There is
  only one such set of heads, and the scan and the promise agree on every prefix. `OptionsAreObeyed` follows for every launch.
- Names: `NamesApart` is about every pair of sanitised ids. Equal names of one kind have equal suffixes; a scoped name is never a texture slot's, by its base. `HostsAreApart`
  follows, since `SanitizeSessionId`, a fold over the characters, leaves only legal ones.
- File URLs: `UrlNames` is about every path that is not a file URL already. The encoded text is made of one block for each character, the character or its three-character code
  (`Spells`); a browser that decodes it takes one block at a time, at positions that add up, and so gets the path back. `FilesAreFound` adds the
  paths that are file URLs, which the host passes on.

These need induction over data, and the library's induction theorems take a predicate as a parameter, which the provers cannot instantiate. The proofs go around it:
`Climb` is induction for a set in place of a predicate, from the library's theorem that < is well-founded on the natural numbers (`NatLessThanWellFounded`,
`WFMin`), and the folds of the community modules are met by lemmas that such a function exists and is what the fold evaluates to
(`FoldExists`, `Flattened`).

### Only model-checked

The eight liveness properties (`PublishedIsRead`, `NewestIsDelivered`, `CadenceKeptIfAllPublished`, `ResetUnblocks`, `EveryPublishShown`, `SizeConverges`,
`StopCompletes`, `InputIsServed`): liveness under fairness is outside the prover's reach, as is `ENABLED`. Refinement under fairness is not claimed: `BoundedQueue`
states safety.

## 5. Not modelled

Telemetry and thread tuning only log or tune; the CPU frame path is dead code; CEF and Chromium are vendored: about 143,000
of the repository's 146,000 lines of C and C++, so the modules can cover no more than a few per cent of the repository,
while they cover most of the host's own. Inside modelled components: the lateness statistics of the render loop;
the popup's legacy composition into the frame (its switch is never cleared) and the failed creation of its texture; the profile directories; the single calls that
`Init` of a channel or of the D3D interfaces makes, each of which fails as the whole does; the other channels' content across a
restart; control events that only forward to CEF; memory orders weaker than the interleaving the
modules use (the rings use acquire and release, the header a release fence; the relaxed counters are each
modelled as separate loads and stores of one location, which is all coherence of one atomic gives, but
the order between different relaxed atomics is taken as program order). A named shared texture or fence that an earlier host's consumer
still holds makes a restarted host's creation fail; that is one of the failures HostStart and ViewPaint choose freely.

## 6. Plan

Done, in this order: SpscRing with BoundedQueue, ConsoleRing, BeginFrames, FrameTransport, NudgeGate, ViewPaint,
HostThreads, RenderLoop, InputDispatch, PageState, HostConfig, HostStart.

Proved: every invariant and action property of the runs.

Next, prove: that ConsoleRing refines a queue that may drop its oldest log, as long as the
consumer stores no index between the drop's load and store; that FrameTransport's snapshots come in the order of their frames.

Next, model: a composition of ViewPaint's publish with FrameTransport's header steps; the console ring across a restart,
where the host is the writer that clears the indices under a reader.

# FluidApp in TLA+

FluidApp is a real-time fluid simulation written in C: a frame is a list of
stencil passes over a few hundred rows of a field, scheduled over a pool of
threads; fields and control messages arrive from Jitter (Max/MSP) over TCP,
and drawn frames leave the same way. The numerical kernels are plain loops.
What is hard is around them: a scheduler that works with compare-and-swaps, a
queue and a thread pool built on POSIX threads, hand-overs between network
threads and the drawing thread, circular buffers, and a compressor that works
bit by bit. This directory models that part.

Read the modules in this order: `BoundedFifo`, `MpQueue`, `MpQueueProofs`,
`TaskGrid`, `MpCoherence`, `MpCoherenceProofs`, `MpTaskWorld`,
`MpTaskWorldProofs`, `FieldServer`, `FieldServerProofs`,
`FluidPipeline`, `FluidPipelineProofs`, `GcdCoherence`, `GcdCoherenceProofs`,
`FieldClient`, `FieldClientProofs`, `ChunkChannel`, `NetLink`, `NetOutStream`, `NetInStream`,
`NetStreams`, `NetStreamsProofs`, `BitStream`, `Felics`, `BitPlanes`, `BitCodec`.
Modules named `MC...`
only give constants their values for TLC. `PROJECT.json` maps every definition
to the lines it stands for and lists runs, mutants, hazards and theorems.

## The system

| component | source | state | operations | interacts with |
|---|---|---|---|---|
| blocking queue | `mp_queue.c` | ring, two positions, stall counters, mutex, two conditions | Push, Pop, Clear | every threaded part |
| coherence scheduler | `mp_coherence.c` | one (completed, working) pair per row, window `m_min..m_max`, cache region, blocked count, a queue | TaskAdd, TaskObtain, TaskComplete, Reset | fluid frame driver, blocking queue |
| the same over Grand Central | `mp_coherence_gcd.c` | a serial dispatch queue per row | TaskAdd, Launch, Wait, Reset | fluid frame driver |
| worker pool | `mp_taskWorld.c` | two blocking queues, an array of communications, threads | mpInit, mpTaskLaunch, mpTaskFlood, mpTerminate | frame driver, blocking queue |
| lock-free stack | `mp_stack.c` | two linked lists in one array, 16-bit tags | Push, Pop | SEQUENTIAL scheduler only |
| field server | `field/field_server.c` | double buffer with `needSwap`, ring of 8 messages, `server` | connection handler; Lock, Unlock, NextMessage, Free | network server, main loop |
| field client | `field/field_client.c` | `allSent`, message list, connection | sender thread; Send, Resend, Free | network client, drawing thread |
| network server, client | `net/netServer.c`, `net/netClient.c` | sockets, `m_runningThreads`, `m_client` | accept loop, connection threads, timed reads, Free | field server |
| network streams | `net/netInStream.c`, `net/netOutStream.c` | ring of sized chunks: start, end, write | Read/DoneRead, Buffer/Send, the network thread | network client |
| exceptions | `memory.c/.h` | per-thread stack of `setjmp` frames, reference counts | x_try, x_raise, x_retain, x_free | everything |
| errors | `error/` | bounded list of errors | Add, Reset, Next | every catch block |
| fluid frame driver | `fluid/fluid_cpu.c` | list of functions of the frame | task builders, AdvanceASync, AdvanceSync | scheduler, pool, kernels |
| fluid kernels | `fluid/fluid_*.c` | float arrays | one call per row | frame driver |
| fluid server | `fluid/fluid_server.c`, `fluid/fluid_messenger.c`, `FluidServer.c` | one fluid, field servers and clients | main loop, message dispatch | field server and client |
| bit stream | `bitstream/bitstream.c` | words, a 32-bit accumulator, position; a row of residuals | PushExact, Read, Reset; two row codecs, a header | FluidZip |
| device back ends, UI, half floats | `gpgpu/`, `*.m`, `half.c`, `lagrange/` | - | - | - |

Threads: the main (drawing) thread; the pool's workers, which during a frame all
run `fluidMP`; per field server a listening thread and a connection thread; per
field client a sender thread; per stream a reader or writer thread.

Two build configurations exist: the default one has its own pool and
scheduler; `SnowLeopardBuild.xcconfig` defines `USE_GRANDCENTRAL` and replaces
both. `MpCoherence` and `MpTaskWorld` model the default one, `GcdCoherence` the
other. Inside `mp_coherence.c`, the variants
`SEQUENTIAL` and `COHERENCE_TQ` are switched on by no build file.

What makes each part correct, in a sentence:

- queue: first in first out, and nobody sleeps while there is work for him;
- scheduler: each piece of each row runs exactly once and after the pieces it
  needs, and every frame ends;
- pool: each task launched runs once, shutdown waits for all of them and ends;
- frame: the dependencies the builders state keep every kernel from overwriting
  a row that another still has to read, in whatever order the workers run;
- field server: a buffer or slot is never written while it is read, fields
  advance, messages keep their order, a waiting connection gets on, shutdown
  ends;
- scheduler over Grand Central: the same promise as the built-in one's;
- field client: what reaches the server is newer each time, a field handed over
  is sent while the connection holds, and the thread's waits end;
- streams: chunks arrive whole and in order, and no chunk of at most half the receiving
  buffer is left waiting for room that was freed;
- bit stream: what is decoded is what was encoded, read from the words that were written;
- exceptions (planned): the frame a raise returns to is the innermost one alive.

## The models

### BoundedFifo and MpQueue

`BoundedFifo` is what a caller sees: a sequence of at most `Capacity` values,
appended to, taken from the front, or emptied. `MpQueue` is `mp_queue.c`: ring positions, stall
counters `m_readers` and `m_writers`, and the wait sets of the two condition
variables. Everything in a call happens under one mutex, so a call's part
between taking the mutex and releasing it, by unlocking or waiting, is one
action: `PushStalls`/`PushStores`, `PopStalls`/`PopTakes`, `Clear`. A signalled
thread is merely removed from the wait set and has to compete for the mutex
with everybody else, and `WakeReader`/`WakeWriter` are the wake-ups without a
signal that POSIX allows.

Two things make this more than a textbook monitor. The counters, not the wait
sets, decide whether to signal, and a spurious wake-up makes a thread count itself twice; and
a push signals once per value, not once per state change. `CountersCoverSleepers`
says the counters err on the safe side only. `NoLostWakeup` is the balance that
makes one signal per value enough: while a reader sleeps, there are at least as
many awake readers as values.

### TaskGrid and MpCoherence

`TaskGrid` is the promise: rows of pieces; a piece begins once the pieces it
needs are done (those of the row above up to `bottom` places to the right, and its left
neighbours in an ordered row); each begins once; the frame is renewed only when
all are done. `MpCoherence` is the code, one action per access to shared memory,
each with the private computation that follows it. A worker's private state is a
record `loc[w]` whose `pc` names the next access:

| code | actions |
|---|---|
| `mpCTaskAdd`, `mpTaskFlood`, `mpCReset` by the main thread | `TaskAdd`, `Flood`, `Reset` |
| `mpCTaskObtainPvt` | `LookAt` (progress), `LookAtCache`, `LookAbove` (row above), `Take` (the CAS), `AdvanceCache` |
| `mpCTaskObtain` | `ReadCount`, `ReadFrom`, `ReadTo`, `LookAtLast`, `Quits`, `PushSentinel`, `Block`, `PopTask` |
| `mpCTaskComplete` up to the completion | `Ran`, `ReadMin`, `ReadMax`, `Spin`, `Shrink`, `ClearCache`, `Raise`, `Complete` |
| `mpCTaskComplete`, the next piece | `Span`, then obtain's actions with `site = "near"` |
| `mpCTaskComplete`, forwarding to blocked workers | `Signal`, `Lock`, `SignalAgain`, `Give`, `Uncount`, `Recount`, `Unlock` |

A retry loop around a CAS that can end only by succeeding (`m_nBlocking` to
-100, the cache start to 0, `completed + 1` in an unordered row) is one step: its
failed turns change nothing. The scheduler's queue is a bounded sequence, which is
what `MpQueue` is proved to implement. An `errorAssert` that fails takes the worker to
`"failed"`, as `fluidMP`'s catch block does. A call of the row's function is the
time a worker spends at `pc = "run"`.

`ImplementsGrid` is the refinement: pieces begun are those in a worker's hands at
or past `"run"`, pieces done those whose function has returned. Forwarded
pieces, in the queue, have not begun. `InOneHand` says where every piece given out is: with
one worker or once in the queue. `PoppersCoverForwarded` is the reason why
forwarding is safe though the blocked count is adjusted by a CAS that may fail.
`NoAssertFails` says the five assertions of `mpCTaskComplete` hold.

### MpTaskWorld

The communications of `mp_taskWorld.c` circulate between the receive queue
(free), a caller that fills one, the send queue, a worker that runs it, and back.
`RunRaises` is a task whose exception reaches `mpTaskEngine`: the handler is
outside the loop, so the thread ends and its communication stays with it.
`mpTerminate` is `StartTerminate`, then for each worker `PopToQuit` and
`PushQuit`, then `Join`; `InitAgain` is a later `mpInit`. Queues are sequences
without a capacity test, because each is as large as the number of
communications (`mpInit` creates them so), which `OneOwner` confirms: no queue
ever holds more.

### FieldServer

The connection thread's position is `conn`, the main thread's `main`. What
`field_server.c` does under `mtx` is one action; what it does outside is bracketed
by two: `fill`...`publish` for the double buffer, `fillMsg`...`publishMsg` for the
message ring, and `held`/`heldMsg` for what the main thread is reading. The
main thread is the loop of `FluidServer.c`: `Lock`, `Unlock`, then messages until there
are none. The network appears by its outcomes: a header, a field or a message
arrives, a read fails half-way (an exception ends the connection), a read times
out with nothing read (`netClientGetBinary` returns 0), the peer goes away.
`Free`, `CloseListener`, `Freed` are `fieldServerFree` with `netServerFree`. The
listener runs before `r->server` is set (`Create`, `Created`).

Fields and messages are numbered as they arrive, so that the properties can tell
them apart; buffers hold a number, `Blank` or `Torn`.

### FluidPipeline

What `fluid_cpu.c` hands to the scheduler, on top of what the scheduler promises
(`TaskGrid`). `OnFrame` chooses what the frame is asked to do, the state the messages and clients
have left it in; then each builder that `fluidAdvanceASync` calls is one action,
in the order of the calls, that adds its tasks (`Adds` is `fluidAddTask` for each
pass) and exchanges the field pointers when the code does. After `Flood` the
workers run pieces in any order that `TaskGrid` allows, `Begin` to `End`, until
`AdvanceSync`.

A kernel is described by what it touches: for row `k` of the fluid, which rows of
which fields it reads and writes (`Span` lists the shapes: its own row, the band
of its neighbours, the window of an advection, and what becomes of these at the
first and last row). The numbers it computes are left out. An advected row is
sought up to `AdvectDist` rows away (the kernels clamp to it) and interpolated
with the row after it.

`ConflictsOrdered` is the point: of two pieces that touch the same row of a field,
one of them writing, the one that comes first in the sequential run (task by task,
row by row) is done before the other begins. So every interleaving computes what
the sequential run computes. It is hard to see from the code, because a task
states only how far it waits for the task just above it: that the vorticity of one
row is not overwritten by a viscosity iteration eight tasks later follows from the sum
of all `bottom`s in between. `reach` is that sum, `Compatible` says of a whole frame that the
sums suffice, and `FramesCompatible` that every frame built is compatible.

### GcdCoherence

The scheduler of `mp_coherence_gcd.c`. A row is a serial dispatch queue, which the
system runs (external): items wait (`queued`), one at a time runs (`executing`).
`Execute` begins a piece; `Finish` is the rest of `mpCDispatchFn`: it moves the row
on and dispatches to the next row what has become possible (`Dispatches`): one piece
for one, and after the last the `dep + 2` that are left. The main thread adds the
rows, launches the first, waits for one group after the other and resets, as
`fluid_cpu.c` does. Nothing in the code compares a row's progress with anything: what
keeps a piece from running too early is only how many were dispatched, and a group
may be found empty before anything has entered it, so that `TaskWait` returns
properly only because the rows are waited for from the top. `ImplementsGrid` says
that this gives what `TaskGrid` promises.

`GcdAssumption` asks for rows of at least two pieces more than the distance they look
at: the fixed `dep + 2` dispatches a shorter row past its end. The advections look 65
rows around, so the fluid must be 67 rows high or more; no code checks it.

### FieldClient

`field_client.c`: the sender thread (`sender.pc`), the main loop's calls (`main`), and
`allSent`, which is at once the owner of the field, a counter of calls without
connection, and the request to end. What happens under `mtx` is one action, with
`fieldClientLock` returning with it held (`mtx = "main"`). The application either
copies whole fields (`Send`) or locks, draws and unlocks, and frees a client to make
another. The network fails where it can: connecting, at a message, at a field, while
the latency is waited for. `PeerInOrder` is about the field being sent without a mutex;
`HandedIsSent` and `WaitsEnd` about signals that must find the thread waiting.

The properties say what the code does keep. What it does not, and nothing in the
repository promises, is in the model and left out of them by name:

- a wait that returns without a signal goes back to `restart`, which sets `allSent` to 0: a field handed
  over in between is forgotten (`field_client.c:72`, `HandedIsSent` leaves out `restart`);
- connecting and failing overwrite `allSent` (26, 190), and with it the -1 of
  `fieldClientOnFree`: the thread goes on and the join waits for it (`WaitsEnd` asks
  for `allSent = -1` in the loop);
- the thread ends with `mtx` locked when freed while it waits to reconnect (38), and that wait
  looks at nothing before it sleeps (35);
- a message that fails leaves `m_msgMutex` locked (101, `MutexLost`);
- the delegate is set after the thread has started, so a first connection may go untold;
- `fieldClientSend` counts to exactly 100, `fieldClientLock` to 5000 or more: both
  work because each application uses one of them.

### ChunkChannel, NetLink, NetOutStream, NetInStream, NetStreams

`ChunkChannel` is what the two streams promise together: chunks sent are read whole,
once, in order. `NetLink` is the connection, a bounded sequence of cells that may
break and lose what is in flight. `NetOutStream` and `NetInStream` are the two streams, each a
circular buffer with a thread and a user, a cell of the buffer standing for a piece
of a chunk or for its size (`Header` cells). What happens under `r_mutex` is one
action; cells are filled, shipped, received and read in place outside it, cell by
cell, so an offset that is wrong shows as a chunk that is torn, or foreign. A cell carries the number
and length of its chunk and its place in it: the bytes it stands for are not the same as another's,
and the code reads nothing of it but the length. `NetStreams` composes
the two over one link and refines `ChunkChannel`; its last part is the invariant of the proof.

Each buffer is described by three offsets that user and thread both move: `start..end`
and, after wrapping, `0..write`. `ImplementsChannel` and `ChunksArrive` are about these
being moved by the two sides at different times. One wake-up is missed by the code, and both are stated
around it: the reader goes to the front and waits for room (`netInStream.c:95`); the end of the last
chunk wakes it with `start = end`, but its own chunk does not fit in front of that either and it
waits again; then `netInStreamRead` goes to the front itself, which frees the whole buffer, and
signals nobody (166-171). Nothing is left to read whose end would signal, and the reader sleeps for ever: `Stranded`.
The run has chunks with which this happens. `OnlyLargeStranded` says that it takes a chunk of more
than half the buffer with its size (what lies behind the front and the chunk are more than a buffer, and the chunk is no
less than what lies there); `ChunksArrive` that every chunk arrives in all other cases.

Left out of the run, but in the model:
a chunk larger than the receiving buffer (`netInStreamReader` wraps for ever, holding the mutex:
`"spins"`), and an input stream freed while a chunk is being stored (`FreeMidChunk`), when the
reader's update overwrites the -1 that asks it to end (`netInStream.c:110-122`);
`TypeOK` then fails. When sending
raises, the writer ends and `netOutStreamBuffer` waits for ever (`netOutStream.c:97`):
`ChunksArrive` promises nothing after the link breaks.

### BitStream, Felics, BitPlanes, BitCodec

`BitStream` has `bitStreamPushExact` and `bitStreamRead` with 32-bit words as sequences of
bits. `Felics` has the arithmetic of `bitStreamEncodeFelics`/`DecodeFelics`: residuals, the
range between the neighbours, and its three encoders, one sample (`CodeOne`), four
(`CodeFour`) and eight at a time in 16-bit AltiVec lanes (`CodeLane`). They are written
quite differently and one decoder has to read all three. `BitPlanes` has the other
codec, run lengths of bit planes. `BitCodec` is the state machine: a field is encoded row by row, the stream reset and
decoded into the same field, as `FluidZip_Delegate.m` does it, a sample or a plane at each
step. `RoundTrip` compares what was decoded with the field; it speaks of words that
were written, for the last, incomplete word never is.

A shift by 32 is undefined in C. Since no value has more than 16 bits, the shift at the end of
a word (`bitstream.c:92`) never gets there; what does is a push of no bits, which an empty run of ones
is (419, 437, 450): `bitStreamPushOne` shifts all ones right by 32 (176), and `bitStreamPushExact` what that gives left
by 32 (74). `OverShift` says what such a shift gives: `"zero"` on PowerPC, `"kept"` on x86, where the
accumulator is all ones after the first such push and `TypeOK` fails. The run has `"zero"`, although
`SnowLeopardBuild.xcconfig` compiles the scalar encoder for x86 too. Known limits, all outside the runs:
nothing compares the position with `numByte`, and a checkerboard under FELICS takes 37 bits a sample where FluidZip
gives 16; the run lengths of a uniform row of 16386 samples or more need 16 bits for a
length, which a field of four bits cannot say; the AltiVec encoder assumes three
components and rows of a multiple of sixteen samples.

## Runs

| run | instance | states | what it shows |
|---|---|---|---|
| `mp_queue` | 3 threads, 2 values, room for 2 | 77 thousand | bounded FIFO, no lost wake-up, progress on both sides |
| `coherence` | 2 workers, up to 2 rows of 3 pieces, cache 1, ordered and unordered rows | 241 thousand | grid refined, assertions hold, frames end |
| `coherence_gcd` | up to 4 rows of 5 pieces that look 0, 1 or 3 around them | 22 thousand | grid refined over serial queues, no row dispatched past its end |
| `task_world` | 2 workers, 2 callers, 4 tasks, 2 communications a worker, 1 raise | 192 thousand | ownership, run once, none dropped, termination |
| `field_server` | ring of 4, 3 fields, 5 messages, 1 timeout | 247 thousand | exclusion, order, progress |
| `field_server_free` | the same | (violation) | see Findings |
| `field_server_timeout` | the same | (violation) | see Findings |
| `fluid_pipeline` | 4 rows, advection distance 1, ten frames: everything on, everything off, the defaults, mixtures | 108 thousand | conflicting pieces are ordered, the next frame starts from the advected fields |
| `fluid_pipeline_curl` | the defaults without AltiVec | (violation) | see Findings |
| `net_streams` | 4 chunks of 2 or 3 cells with their size, two buffers of 5, 2 in flight, the link may break | 202 thousand | chunks whole and in order, either end freed; every one arrives but where a large one strands the reader |
| `field_client` | 3 fields and 3 messages a client, both callers, queue of 2, limits of 12 calls | 42 thousand | what the server gets is in order, fields handed over are sent, waits end |
| `bit_stream` | rows of 2 to 7 samples of 1 or 2 components, 3 rows, by both codecs; 20 samples a row in planes; 16 of 3 components with AltiVec | 43 thousand | decoded is encoded |

Why the bounds are enough. Queue: with three threads one can sleep, one be woken
and one overtake, and two values wrap a ring of three slots. Scheduler: the window,
the cache region and the dependency reach only neighbouring rows, so two rows show
every combination of kinds, and three pieces with a cache of one let the region
advance, refuse a piece and wrap, and pieces be forwarded to a blocked worker. Pool: two
communications per worker instead of four make the callers wait for free ones; a flood
launches one task per worker, so four tasks allow two. Field server: a ring of
four slots holds two messages and wraps within five; three fields fill each
buffer and reuse one. Over Grand Central: five pieces with a distance of 3 are a row as short as is allowed,
with 0 and 1 longer ones, and four rows give every pair of these one above the
other. Streams: chunks of two cells and of three wrap buffers of five
in every alignment within four chunks; three cells are more than half of five and two are not, so that both sides of
`OnlyLargeStranded` occur; a link of two cells makes both sides wait. Field client: a third field or message is the first that can
overtake a second; limits of 12 instead of 100 and 5000 let `allSent` count, for it starts at
10 or 11. Bit stream: the four bytes and the ramps give residuals of zero, small and largest, equal
neighbours and ranges at the powers of two; seven samples of two components are four at a time and a rest, twenty
are enough for runs to be worth it, sixteen of three components are one eight-lane round and its rest.
`MaxStalled`, `MaxRaises`, `MaxFrames`, `MaxFields`, `MaxMessages`, `MaxChunks`,
`MaxTimeouts`, `LinkSize` and `Sizes` are the only bounds that are not the code's own, and each is named
in a guard.

Pipeline: four rows have a first, a last and two inner ones, so that every shape
occurs and an inner row has a neighbour of each kind; two iterations of viscosity
and pressure follow each other, and each pass is on in one frame and off in another.
The distance is 1 instead of 64: it enters the kernels' windows and the stated
dependencies alike, and with 64 rows in reach nothing would overlap at all. Two things are
kept out of `fluid_pipeline`, both because they break `ConflictsOrdered`: the curl of
the build without AltiVec, which has a run of its own, and velocities sent out at
more rows than the fluid has, for which `vel2float_scale` reads a row above its own
(hazard at `fluid_visual.c:143`). Every frame may have other settings
than the one before; the build (`altivec`) stays what it is.

`MpCoherence` starts from descriptions that are all the same, since
`mpCTaskAdd` writes each before it is read.

Deadlock is checked wherever the model always has something to do (a call, a new frame,
a new world, a new server), so that a state without a successor would be an error. It is not in three runs:
in `net_streams` both streams may be freed and the fixed number of chunks read, in `field_client` the thread may end
up as `MutexLost` or waiting for a join, as listed above, and a field of `bit_stream` is decoded once.

Each property of a passing run has a mutant in `PROJECT.json`: a definition of
the model changed the way a plausible slip in the code would change it, named
`<Definition>_<Slip>` and written just before the definition it stands in for.

## Fairness

Weak fairness of each thread's own steps, no more: a thread that can run is run
in the end. In `MpQueue` a woken thread may be overtaken for ever, so progress is
stated for the queue (`PopProgress`: some Pop returns), not for each thread. In
`MpCoherence` the main thread that waits for the workers resets in the end, and
nobody is obliged to add rows or start a frame. In `MpTaskWorld` tasks return,
and no task is obliged to raise. In `FieldServer` every read ends within its ten
seconds timeout and the main loop turns; nobody is obliged to connect, to free
the server, or to wake up without a signal. `NotStuck` therefore rests on the signals alone.
In `NetStreams` both threads run, the writing user finishes the chunk it has begun and the reading
user keeps looking; nobody is obliged to begin a chunk, to free a stream, or to
break the link. In `FieldClient` the thread runs, every read and connection attempt ends one
way or the other, and the main loop calls frame after frame; nobody is obliged to
send messages or to free.

## Findings

1. *Freeing a field server* (`field_server_free`). The connection thread tests
   `r->server` only after a wait (`field_server.c:107-116`, `201-211`), so one that starts waiting after
   `fieldServerFree`'s signals is never woken and `netServerFree` spins for ever.
2. *A read that times out* (`field_server_timeout`). `netClientGetBinary` returns 0
   when nothing came (`netClient.c:87-89`), which `field_server.c:137` does not look
   at: the old content of the buffer is published as a new field.
3. *The curl at the edges* (`fluid_pipeline_curl`). Built without AltiVec,
   `fluid_vorticity_curl` leaves `y*sy` out at the first and last row
   (`fluid_vorticity.c:92-93`), so the last row is computed from row 0 of `velY`. Besides
   being the wrong row, nothing makes later tasks wait for it: `force_heat` of row 0 may
   write what the last row's curl is about to read, and the frame then depends on how the workers
   interleave.

Three more were met that have no run of their own. `mpx.h:154` says `mpCTaskAdd` can be called
while tasks are executing; `mpCTaskObtain` reads the number of rows once (`mp_coherence.c:432`),
and with `LateAdd` set to `TRUE` in the configuration of `coherence` TLC finds the end of the frame
reported although a row was added (`NoMoreTasks`). The frame driver adds all rows first.
`netInStream.c:94` says "Block this thread until there's space...", and a reader with a large chunk is blocked beyond
that (`Stranded`, above): the run `net_streams` has such states, and excuses them by name in `ChunksArrive`. And
FluidZip (`FluidZip_Delegate.m:19-32`) pushes 2375 and 375, resets and prints what it reads beside
them: 22 bits lie in the last word, which is never written, so both come back as 0.

## Proofs

`MpQueueProofs` holds for every finite set of threads, every set of values and
every `MaxSize` (zero included), and needs nothing but the assumptions named
in `MpQueue`.

- `TypeCorrect`: `Spec => []TypeOK`, by one step per action.
- `InductiveInvariant`: `Spec => []IInv`. `NoLostWakeup` alone is not inductive: a
  store signals only when `m_readers > 0`, so the proof needs `CountersCoverSleepers`
  to know that a sleeping reader is counted; both need `SleepersInCall`, that a
  sleeper is inside the call whose condition it waits on, so that a returning
  thread is never a sleeper.
- `CountersCorrect`, `NoWakeupIsLost`: its two parts that the run `mp_queue` checks.
- `QueueIsFifo`: `Spec => ImplementsFifo`. `Items` reads the ring from
  `m_readerPos` on; the lemmas `StoreAppends` and `TakeRemoves` show what storing
  and taking do to it, `FifoStep` maps each action to Push, Pop, Clear or a
  stutter of `BoundedFifo`. The remainder operator is eliminated once, in
  `DistanceFacts`, `CountSteps` and `AtFacts`.

`FieldServerProofs` holds for every ring of at least three slots and any number of
fields, messages and timeouts.

- `TypeCorrect`: `Spec => []TypeOK`.
- `InductiveInvariant`: `Spec => []IInv`. `NotWhileRead` speaks only of the moment a buffer
  or a slot is filled; what makes it true is decided earlier. `BufferOwned` says that the
  connection fills or publishes only while `needSwap` is not 1, and the main thread
  holds `fld_net` only while it is 1, so each side's claim excludes the other's.
  `SlotsApart` bounds the messages waiting by the ring's size less two, less three
  once the connection has passed the test for room, and places the slot being
  read just behind `curReadMsg`: this is why the code's test leaves two slots free.
  `NewestPublished` and `MessagesWaiting` say what the buffer and the ring contain.
- `NothingFilledWhileRead`, `FieldsInOrder`, `MessagesReadInOrder`: the properties
  `NotWhileRead`, `FieldsAdvance` and `MessagesInOrder` of the run `field_server`.
- The arithmetic of the ring is in five lemmas (`NextSlot`, `AheadFacts`,
  `RingFullFacts`, `AheadOfNext`, `AheadApart`); the steps that only move the
  connection thread are treated together (`Moves`).

The proofs of the pool and of the scheduler, which follow, each begin with the lemmas on counting: how many
values of a function lie in a set, and what one EXCEPT, one Append or one Tail does to that number.

`MpTaskWorldProofs` holds for every number of workers (at least one), callers,
communications per worker and tasks.

- `InductiveInvariant`: `Spec => []IInv`. `OneOwner` counts the places a communication is in,
  so it is preserved because every step takes it from one place and puts it in another;
  that it is there to be taken is `Holding`, which says what each thread holds at each position.
  `Carried` says what the communications in the queues carry, `QuitsLast` that nothing but
  `Quit` follows a `Quit` in the send queue, `RaisersCounted` that each raise ended one worker.
- `TypeCorrect`, `OwnedByOne`, `RunsOnce`: `TypeOK`, `OneOwner` and `RunOnce` of the run `task_world`.
- `NoTaskDropped`: `Spec => []NoneDropped`, where fewer tasks raise than there are workers: each
  raise ends a worker for good, and with none left nobody runs what is in the queue.
- `PushesNeverWait`: `Spec => []NeverFull`. The model's pushes have no test for room; this is
  why they need none.

`MpCoherenceProofs` holds for every number of rows, pieces and workers, every cache size and
every kind of row, within what the fields of `mpCoProgress` and `mpCoMessage` can hold
(`WidthAssumption`: both are 16-bit) and with fewer than 100 workers (`WorkersAssumption`:
the end of a frame is marked by a count of -100).

- `PiecesInvariant`: `Spec => []HandsInv`, also while rows are added to a frame that runs. A
  piece is in exactly one hand because who gives out a piece raised `working` by a CAS that
  compares the whole pair. `InHand` says at which positions a worker has a piece;
  `RowsInOrder` that pieces are given out and completed from the left; `AsRead`
  that what a worker has read and acts upon is still so. In an ordered row the piece it holds is the only
  one given out, and the row neither empty nor complete, so nobody else may move `m_min` or `m_max` past it.
- `OneHandEach`, `AssertionsHold`: `InOneHand` and `NoAssertFails` of the run `coherence`.
- `FrameInvariant`: `LateAdd = FALSE` and `Spec` give `[]FrameInv`. The hypothesis is what
  `fluidAdvanceASync` does: it adds every row before it launches the workers. Without it the
  conclusion is false (see Findings). `AboveIsDone` is the progress of one row
  against the row above; `Believes` is what each worker may conclude from what it read, such as that the
  count of blocked workers read under `m_mutex` is still the count when it subtracts one for a piece it forwards.
  `Blocking` says that until the frame ends `m_nBlocking` is the number of workers that wait to pop
  (`Awaiting`) less the pieces forwarded to them and those about to be (`Giving`).
- `TypeCorrect`, `ForwardedArePopped`, `ToldWhenDone`: `TypeOK`, `PoppersCoverForwarded` and
  `NoMoreTasks`, under the same hypothesis. `TypeOK` needs `FrameInv`, because
  `r_q` has room for what is pushed only if the count of blocked workers is right.
- `GridRefined`: `Spec => ImplementsGrid`, under the same hypothesis. Entering `"run"` is `Begin`
  of the piece, whether taken or popped; `Ran` is `End`, `TaskAdd` is `Add`, `Reset` is `NewFrame`, every other step a
  stutter. The part with content is that what a begun piece needs is done (`AboveIsDone`).

`FluidPipelineProofs` holds for every height, every advection distance and every set
of settings, but where a hypothesis is named.

- `BuiltInvariant`: `Spec => [](IInv /\ BuiltInv)`: at every point of `fluidAdvanceASync` how many
  tasks there may be, that the fields that the pointers stand for are distinct
  (`Apart`), and where the advected field is (`Advected`).
- `AdvectedShown`: `Spec => []AdvectedIsCurrent`, whatever was switched on and whichever pointers were exchanged.
- `TypeCorrect`: `Spec => []TypeOK`, where `TableFits`: the iterations of viscosity and pressure
  and the 15 other tasks are at most `MaxTasks`. `fluidCreate` asks for 128 rows, and the messages
  that set the iterations limit them to 40 each (`fluid_messenger.c:217-232`).
- `Ordered`: `Spec /\ []FramesCompatible => []ConflictsOrdered`. The dependencies of a
  frame are a property of its list of tasks, checked before the workers start;
  the theorem says that this is enough for all interleavings. The scheduler guarantees only one
  task up and to the left; the inductive invariant turns this into a statement about
  all tasks above: a piece that has begun has everything within its reach done
  (`Reached`), since the row above at the limit of what the piece waits for had its
  own reach done when it began. At the right edge the limit is cut off, and there
  the step needs that reaches only grow (`RowsOK`). `LeftFirst` is the same for rows in order.
- `DependenciesSuffice`: `Spec => []FramesCompatible`, where `InPlace`: no output is taller than the fluid and the
  vorticity is computed by the AltiVec kernel. `NoRace` combines the two: `Spec => []ConflictsOrdered`.
  `FramesCompatible` speaks of all pairs of tasks, of which a frame may have ninety, so a proof by cases is out of
  the question. `OrderInv` reduces it to two facts about single tasks: `TasksWait`, that every task waits
  for as much as it reads to the right, and `ReadFirst`, that a row which a task reads to the left
  is overwritten later only by a task that waits for it. `WaitingIsEnough` is the lemma that the two
  imply `Compatible`. `Behind` says stage by stage which fields were read with a
  wide window and not waited for since, so that the next builder may write the others.
- `InPlace` cannot be dropped: the run `fluid_pipeline_curl` shows the scalar curl out of order, and an output
  taller than the fluid is read at rows that no task of it waits for.
- `BuildsKeepIInv` needs that every kernel is well described (`KernelsTyped`) and that
  adding tasks keeps the sums (`AddsKeepsRows`).

`GcdCoherenceProofs` holds for every number of rows and pieces, and every set of distances
that are at least two short of a row.

- `InductiveInvariant`: `Spec => []IInv`. The core is `RowsFollow`: what was dispatched of
  a row (done, running and waiting) is exactly `Reach` of how much of the row above is done.
  `ReachMoves` is the arithmetic of `mpCDispatchFn`: a piece that is done moves
  `Reach` by what it dispatches, so that all of a row dispatches all of the next, no
  more and no less; `ReachBehind` is that it never gets ahead. `OthersIdle` and
  `WaitedDone` are needed for the next frame to find its rows idle.
- `TypeCorrect`: `Spec => []TypeOK`, of which the point is that no row is queued or counts
  past its end.
- `QueuesAreGrid`: `Spec => ImplementsGrid`, action by action: adding a row is `Add`, `Execute` is
  `Begin` (what the piece needs is done, by `ReachBehind`), `Finish` is `End`,
  `Reset` is `NewFrame` (`AllDone`), launching and waiting are hidden.

`FieldClientProofs` holds for every number of fields, messages, calls and slots of the list,
and limits above 11, where the counting of calls starts after a failure.

- `InductiveInvariant`: `Spec => []IInv`, one lemma per action. `FieldOwned` is why the field can be
  read without `mtx`: `allSent` is 2 or -1 wherever the thread sends, so the application, which
  draws only at 0, stays away; and it counts calls only where the thread connects, so
  counting never disturbs a field. `MessagesListed` says that the list is in order and,
  while `m_msgMutex` is free, newer than anything sent; once a message has failed the
  mutex is never free again and nothing more has to be said.
- `TypeCorrect`: `Spec => []TypeOK`.
- `SentInOrder`: `Spec => PeerInOrder`.

`NetStreamsProofs` holds for every size of the two buffers that has room for more than a size, every set of
lengths, every length of a size and every link, and needs nothing but the assumptions named in
`NetLink`, `NetOutStream` and `NetInStream`.

- `InductiveInvariant`: `Spec => []IInv`, chunks too large for the receiving buffer and streams freed in the middle of
  a chunk included. What a user reads in place was filled elsewhere long before, by
  two threads that only the offsets keep apart, so the invariant has to say what lies in every
  cell that has not been read yet. `OutInv` and `InInv` do it for the two buffers: `Framed` says
  that `start..end`, and `0..write` once wrapped, hold whole chunks one after the other, `Marks`
  that the second part ends before the first begins, `Fits` that the room being filled touches neither; `SenderShips`
  and `ReaderStores` say how much of its chunk each thread has done. `LinkInv` joins them: the cells in flight
  follow each other, the first is what the reader is to receive next (`ReadPlace`) and the last is what the sender has
  just shipped (`SendPlace`).
  This is what makes an offset that moved while the mutex was free harmless: each side moves only the
  marks the other only reads, but at a wrap, where `Rewound`, `Followed` and `Caught` each
  need that the part given up is empty (`RewoundOut`, `FollowedOut`, `CaughtIn`).
- `TypeCorrect`: `FreeMidChunk = FALSE` and `Spec` give `[]TypeOK`. Without the hypothesis the conclusion is
  false: the chunk being stored moves `nBuffWrite` on from -1.
- `StreamsAreChannel`: `Spec => ImplementsChannel`, without that hypothesis, for nobody reads a stream that is freed.
  `Send` is `Send`, `DoneRead` is `Receive`, every other step a stutter; that `DoneRead` yields the next chunk and not a
  torn or a later one is `DoneReadKeeps`.
- `SmallNeverStranded`: `Spec => []OnlyLargeStranded`. By itself it is not inductive: a reader that waits again at the front no longer sees why
  it went there. `WaitsAtFront` keeps it: while it waits with `write = 0` in front of something, that and its chunk
  exceed the buffer, for nothing else leaves `write` at 0 (`StoresKeepsRoom`).

Only model-checked:

- the bit stream (`TypeOK` and `RoundTrip` of `BitCodec`): its codecs are recursive, and what a
  recursive definition computes needs induction over data, which the installed provers cannot instantiate;
- all liveness (`PopProgress`, `PushProgress`, `FrameEnds`, `EveryTaskRuns`, `TerminateReturns`,
  `NotStuck`, `ChunksArrive`, `HandedIsSent`, `WaitsEnd`): the proof system does not handle
  fairness.

## Not modelled

- The SEQUENTIAL and COHERENCE_TQ schedulers and `mp_stack.c`, which serves the first: no
  build file selects them.
- What the kernels compute (floating point over arrays), `half.c`, the builders and
  kernels that no frame uses, the CELL variant (`fluid_spu.c`), the GPU and OpenGL wrappers, the
  Lagrangian stub, the UI.
- Exceptions and reference counts (`memory.c`): they are in the models as handlers that run. `mp_mutex.c`
  is a wrapper. The list of errors is the next in the plan.
- Of the network: several clients of one server, UDP, and the text of headers and messages.

Memory is taken to be sequentially consistent where the code uses its
atomic macros, which are full barriers; plain fields written before a row is
published are covered by the barrier of the publishing CAS.

## Plan

1. Done: queue, field server, field client, both schedulers, pool, pipeline, streams and
   bit stream modelled; safety proved for all but the last.
2. `ErrorList` (a bounded list scanned without its mutex), `Exceptions`, the packing of atoms in
   `field_msg.c`.
3. `FieldClient` and `FieldServer` composed over one connection.

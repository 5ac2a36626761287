# NexRx in TLA+

NexRx is an HF software-defined receiver: firmware on an STM32 with two CPLDs, a desktop
application (C++ engine, Lua user interface) and a *digital twin*, a program that stands in for
the hardware and streams simulated I/Q samples to the application. This directory models the
parts of it whose correctness depends on the order in which threads, messages, interrupts and
users act, and the algorithms whose correctness depends on indices, phases and cases rather than
on rounding; it checks them with TLC, and proves the most important results with TLAPS.

    tlc -config MCTwin.cfg MCTwin                 # one run; section 3 lists them
    tlapm RingBufferProofs.tla                    # one module of proofs

## 1. The system

### Components

| Component | State | Operations | Interacts by |
|---|---|---|---|
| twin, frame ring (`RingBuffer.hpp`) | slots, two atomic indices | write, read, clear, available | shared by session loop and pacer |
| twin, pacer (`SamplePacer.hpp`) | thread, `running`, `stopRequested`, scratch | start, stop, waitForSpace, notifySpace | reads the ring, writes the UDP transport |
| twin, session loop (`SignalGen.cpp`) | client, ring, pacer, handler, sample counters, mixer phases, veto, AGC | accept, generate, stop, tear down | reads the handler's atomics every batch |
| twin, control handler (`ControlHandler.cpp`) | atomics: `running`, `connected`, `streaming`, all settings | one per command | worker thread; the loop reads the atomics |
| twin, control transport (`TCPControlTransport.cpp`) | listening and client sockets | accept, receive, reply, close | called by loop and worker |
| twin, thread pool (`ThreadPool.hpp`) | a slot per worker: task, two semaphores, flag | parallelFor, stop | stimulus generation, channels of a batch |
| twin, stimuli (`stimulus/*`) | named generators, frozen list, scratch buffers; per generator phases, samples, key events | add, remove, enable, freeze, generate | script, loop, pool threads |
| twin, UDP stream (`UDPStreamTransport.cpp`) | packet in the making, sequence number, receive ring | connect, write, writeBatch, receive | called by the pacer and by the host library |
| twin, shared memory, Unix sockets (`SharedMemTransport.cpp`, `UnixSocketTransport.cpp`) | mapped header and frames; sockets | connect, read, write, clear; request, response | processes |
| twin, firmware process and stand-in (`FirmwareProcess.cpp`, `zephyr/src`) | child, monitor thread, descriptors; mapped ring | start, stop, monitor; sample | processes, shared memory |
| twin, host library (`HostApp.cpp`) | transports, thread, statistics | initialize, receive, poll, command, shutdown | TCP and UDP |
| twin, circuit simulation (`Orchestrator.cpp`, `ADCSampler.cpp`, `XyceWrapper.cpp`) | simulated time, ADC period index, sampler's clock | run, step, stop, sample | a thread and the simulator |
| app, command path (`GUIEngine.cpp`, `AppLuaBridge.cpp`) | map of pending commands, command thread, last VFO and OSD offset | post, poll, connect, shut down | UI thread posts, command thread runs |
| app, remote calls (`TwinConn.cpp`, `TCPControlClient.cpp`) | socket, mutex, cached state | one per command, poll | request and answer over TCP |
| app, settings (`AppController.lua`, `Hardware.lua`, `Model.lua`) | Model values, dirty marks, last sent values | sync, pollState | watches, `hw` and `rx` tables |
| app, stream client and audio (`UDPStreamClient.cpp`, `RateAdaptiveBuffer.hpp`, `AudioEngine.cpp`) | receive ring, gap counters, audio ring | receive, write, read, clear | receive thread, DSP thread, audio callback, UI thread |
| app, DSP engine (`DSPEngine.cpp`, `BasebandFilter.cpp`, `Demodulator.hpp`) | history ring, decimation ring, filter coefficients and delay lines, FFT | process, set VFO, seek, set mode and passband, spectrum | DSP thread, UI thread |
| app, river (`RiverRenderer.cpp`) | rows of spectra, texture | add a row, shift, draw | UI thread |
| app, rule box and reactive core (`SetBox.lua`, `Reactive.lua`) | rules, active tags, versions, caches; cells, observers, batch depth | rule, addTag, setActiveTags, resolve; set, watch, batch | callbacks within callbacks |
| firmware, capture (`OSDCapture.cpp`) | DMA halves, semaphore, phasor, counters | start, stop, DMA interrupt, pump | interrupt and threads |
| firmware, control and drivers (`ControlHandler.cpp`, `CPLDDriver.cpp`, `FrontEndDriver.cpp`, `Si5351Driver.cpp`, ...) | CPLD mode, chip selects, pads, gains, synthesizer registers, AGC | one per command, program, set clock, AGC turn | USB CDC, SPI, I2C, two threads |
| CPLD (`top.sv`) | registers, SPI shift state, pulse counter | SPI access, pulse per second | SPI |

`PROJECT.json` lists all of them, with what is not modelled and why.

### What is hard in it

* Two threads copy through one ring without a lock; its indices wrap.
* A session of the twin is four objects and three threads that end in a fixed order, at the
  request of a client that can start, stop, hang up or vanish at any moment.
* A worker pool built from binary semaphores, each of which must be released exactly once.
* Settings travel through four stages (dirty mark, last-sent table, coalescing map, remote call)
  that each merge or drop, on a connection where a late answer is taken for the next one's.
* The application's rings are shared by three threads; a producer moves the consumer's index, and
  `clear()` and retuning store positions in the middle of another thread's load and store.
* The passband filter is redesigned, crossfaded and switched by one thread while another filters.
* The firmware's interrupt outruns its thread; its AGC sets pins and gains between those of a
  command.
* Values cached in Lua are invalidated by hand, in the order of a hash table, by callbacks that
  change more values while the first change is still being told.
* Processes die and restart around shared memory; a child may be reaped by two threads.
* Signals are computed one by one or in batches, by transforms and by rotated phases: the same
  signal must come out.

### What makes each component correct

* **Ring:** a bounded FIFO; no slot in two hands.
* **Session:** no gap, repetition or renumbering in the stream; a STOP silences it, a START makes
  it flow; every session ends with its threads reaped, and the next client is served.
* **Pool:** `parallelFor()` runs each index exactly once before it returns, and returns.
* **Control path:** once nothing is on its way, the twin has what the program believes it has;
  an answer belongs to its request; closing the window ends the program.
* **UDP stream:** what is lost is counted, and what came is delivered in the order it came.
* **Audio and history rings:** no sample is played twice; silence ends; playback plays what was
  asked for.
* **Baseband, spectrum, river:** windows of consecutive samples, current coefficients, a tone in its
  own bin and at its own frequency on the screen, however the receiver was tuned.
* **Rule box and reactive core:** a cached value is what the rules, tags and observables say now;
  every watch ends up having seen it.
* **Stimuli:** the signals that are enabled, once each, in every batch; the same signal in batches as
  one by one; the sideband asked for.
* **Twin's receiver:** two channels turned alike, a veto that loses nothing between batches, one CPLD
  mode for the band, a gain that is the one wanted.
* **Firmware:** each half of the buffer sent once, whole and numbered; handler, DSP and clocks agree on
  the number of phases (the CPLDs do not: section 3); the synthesizer's registers give the frequency
  asked for, where their writes go through; a failed step leaves no chip selected that would listen.
* **Processes:** a frame read is the one written at its position; what is stopped leaves no thread,
  descriptor or child.

## 2. Modules

| Module | Models |
|---|---|
| `FrameFifo` | the promise of the ring: a bounded FIFO that may be emptied by its producer |
| `RingBuffer` | `RingBuffer.hpp`, slot by slot; refines `FrameFifo` |
| `ModularArithmetic` | facts about `%`, proved, for the wrapping indices |
| `RingBufferProofs` | the ring's invariant and the refinement, for every capacity |
| `TwinSession` | session loop, pacer and control worker over one ring, with the client as environment |
| `TwinSessionProofs` | the session's safety, for every capacity, watermark and tick |
| `ForkJoin` | the promise of `parallelFor()` |
| `ThreadPool` | `ThreadPool.hpp`; refines `ForkJoin` |
| `ThreadPoolProofs` | the pool's invariant and the refinement, for every number of workers |
| `ControlPath` | settings from the Lua Model to the twin and back |
| `ControlPathProofs` | its safety, for every number of changes and timeouts |
| `UdpStream` | packets from the pacer to the DSP callback over a network that loses, repeats and reorders |
| `AppSession` | connecting, disconnecting and closing the application, on three threads |
| `AudioBuffer`, `HistoryRing` | the application's audio ring and its "time machine" |
| `ReceiveProofs` | the safety of `UdpStream`, `AppSession`, `AudioBuffer`, `HistoryRing`, `Reactive`, `RuleBox`, and of `SharedMem` |
| `Reactive`, `RuleBox` | `Reactive.lua`, `SetBox.lua` |
| `Baseband`, `Spectrum`, `River` | samples to audio; samples to a spectrum; spectra to a picture |
| `TcpFraming` | the bytes of a control message, under the worker's loop |
| `SharedMem`, `UnixRpc`, `ZephyrStandIn` | shared ring, Unix sockets, and the firmware stand-in that reads the ring |
| `FirmwareProcess`, `HostApp`, `Simulation` | child process, host library, circuit simulation |
| `StimulusMix`, `StimulusScript` | the signals at the antenna: mixed, and set up by a script |
| `Keying`, `Carriers`, `SsbAudio`, `RFCapture`, `Speech` | the generators |
| `TwinReceiver` | what the session loop makes of a batch while the worker tunes |
| `StimulusProofs` | the safety of `StimulusMix`, `StimulusScript`, `Speech`, `TwinReceiver`, `Baseband`, `River` |
| `Capture` | the firmware's DMA halves, pump and packets |
| `Synthesizer`, `RadioControl` | the Si5351's registers; the firmware's requests, front end and AGC |
| `CpldLink` | the CPLD's SPI registers, clock bit by clock bit |
| `ProcessProofs` | the safety of `TcpFraming`, `UnixRpc`, `FirmwareProcess`, `HostApp`, `Simulation`, `Capture`, `RadioControl`, `CpldLink` |
| `MC*` | the instances for TLC; `TwinSession` (for `half_open`), `ControlPath` and `ZephyrStandIn` are instances by themselves, under the configurations of section 3 |

`MCTwin`, `MCReceive`, `MCProcesses` and `MCStimulus` each hold several machines that share no variable. A
variable `part`, chosen in the initial state, says which of them moves; the state space is the sum of
theirs, not the product, and each property speaks of the machine it belongs to.

### RingBuffer

`WriteBegin`, `WriteSlot`, `WriteEnd` are `write()`: load both indices, copy one element at a
time, publish the new write index. `ReadBegin`, `ReadSlot`, `ReadEnd` are `read()`; `Clear` is
`clear()`. `writeIndex` and `readIndex` are `size_t` counters, here modulo `IndexMod`, which the
capacity must divide (as it divides 2^64). `sent` and `taken` are history variables. `Clear` is
enabled with no call in progress: the callers stop the pacer first, which is what
`TwinSession`'s `NoOrphanThread` shows.

### TwinSession

The unit of data is a batch of the session loop (3840 frames, 10 ms; a batch that fits only in
part counts as lost). The ring is a sequence, as
`FrameFifo` allows. Each place where the loop in `runFunctionalMode()` reads a flag another
thread writes is a value of `loop`, so every interleaving with the worker and the pacer is there:
`LoopTop`, `LoopGate`, `LoopHalt`, `LoopClear` (the stop branch), `LoopSpace` (the watermark
wait), `LoopEmit` (generate and write), `LoopStart`, then the tear-down `EndPacer`, `EndJoin`,
`EndWorker`, `EndWorkerJoin`, `EndClose`. The worker's loop is `WorkerChecks` and one of
`WorkerHandles`, `WorkerTimesOut`, `WorkerSeesClosed`. A request is taken whole or not at all (`TcpFraming`
has its parts). `conn` says what the socket is like, among
it *stalled*: a reply that timed out closed the socket, and the receive that follows takes the
leftover `errno` for one more timeout. `timed` stands for `--duration`, `--timeout` and
`--single-session` together and allows more than each of them does.

### ThreadPool

A caller who runs `parallelFor()` or `stop()` one semaphore operation at a time, and the workers'
loops. The semaphores are the counters they are; releasing one that is available, which C++
leaves undefined, would break `PoolTypeOK`. After `Stop` no call is made.

### ControlPath

The UI thread alternates `Sync` and `Post` (`AppController.sync()`, `Hardware.sync()`, the
setters of `AppLuaBridge.cpp`) with `PollPost` and `PollRead` (`pollState()`). The command thread
`Take`s the pending command with the first name, in the order of a `std::map`, and `Run`s it.
`Ask`, `Answer` and `GiveUp` are a remote call, in which either thread may be. `TwinServes`
carries out and answers one request; `LinkDrops` ends the connection. Four settings stand for the
rest, chosen because they differ in how they travel: `vfo` and `osd` share a name and each closure
reads the other's half when it runs; `agc` is set by two names; `hpf` is copied back by the poll.
A write to a connection the twin has closed may kill the program (SIGPIPE): `ui = "killed"`. The application
keeps the OSD offset in kilohertz and sends it in hertz (`ToHertz`), and the twin stores the number it is
sent in a field of kilohertz, unconverted. A frame of the connection arrives whole: `TCPControlClient.cpp:82-93`
may also give up between its length and its payload, after which nothing on the connection is understood;
`TcpFraming` has that for the twin's end.

### UdpStream

`WriteBatch` is `UDPStreamTransport::writeBatch()`: frames fill a packet of `PacketSizes`, which is
sent under the next sequence number (32 bits in the code, modulo `SeqMod` here) or fails. The network
is a set of packets of which any may come next, be lost, or come twice. `Receive` and `Store` are
`UDPStreamClient::receiveLoop()`, which counts gaps from `lastSequence` and fills its ring frame by
frame; `Poll` and the copies are `pollFrames()`. `LossNeverHidden` counts packets against the
client's statistics; it excludes nothing but what never came after the first.

### AppSession

`connectTwin()` on the UI thread, SHUTDOWN on the command thread, and the DSP thread they both start
and join: `twinConnected`, `connected` and `receiving` are set and reset by different threads.
`overlapped` records that a shutdown on one thread met a connect or a shutdown on the other; what the
properties say of the state then is less. The shipped scripts call `hw.connect` once, at start-up, and
`hw.disconnect` never; both are functions of the scripting interface, and the model lets a script call
them at any frame.

### AudioBuffer and HistoryRing

A step loads one position that another thread stores to, or stores one. So a look at the fill (`available()`) and the load of `readPos` that relies on it are apart, and `clear()` has a load and two
stores. In four interleavings the code plays samples twice, which `PlaysOnce` names: the producer's overflow
branch moves `readPos` from an older load; a read that `clear()` overtook takes `readPos` back under a write;
`clear()` falls between a look at the fill and the load that relies on it (`readWithSkip()`,
`readWithStretch()`), and `readPos` passes `writePos`; a read stores `readPos` between the load and the store of
`clear()`. From then on the slots are not followed (`loose`). `stranded` says that buffering met a full ring,
where `write()` drops every sample before it reaches the line that ends buffering. In `HistoryRing` `raced` says
that a reset fell between a load and a store of the frame handler, or a frame between the loads of a seek.
The properties hold outside of those cases, so they also say that there are no others.

### Reactive and RuleBox

A function given to `computed()` or `watch()` is a tree of reads with what follows each answer, so a
computed value may read other things the next time. The stack of calls is the state: `Mark` is
`_markDirty()` over a hash table that changes while it is run through, `Run` a watch within it, `Flush` the
end of a batch (`BatchBegins`, `BatchEnds`). Watches do what they like: they set, they leave dependency
tracking, they fail. They also register themselves in the tables that the loops of `set()` run through
(`Reactive.lua:49`, `:61`, `:119`, `:160`), and of a key put into a table under `pairs()` Lua leaves undefined what
`next()` gives. A loop whose table gained a key may therefore be one whose table has moved (`tables.moved`): from
then on it may come to a dependent again, end before it came to all (`EndMark`) or raise an error (`NextFails`).
`tables.cut` says that one was cut short; of what comes after, the property says nothing, and the model lets the
user call no more. The functions of computed values only read, as all of the application's do, and in no
circle, which would be an endless recursion in Lua (`ReactiveAssumption`). `RuleBox` has the rules with
their specificity, priorities and order, and replaces a rule name by name as `SetBox.lua` does; reading
through a projection, through `resolve()` and through a context are compared with a lookup that caches
nothing. Rules are told to every dependent; that one may be skipped is `Reactive`'s. `getMatchingRules()` asks for the tags of a rule in the order `pairs()` yields them up to the first
that is not active, so what a view comes to depend on (`Asked`) is any such set. `RuleBoxAssumption` says
that the first rules have different names and that what `Model.set()` gives has no tags, no condition and
the highest priority. `byHand` says that a tag was taken out by `removeTag()`, of which `setActiveTags()`
does not know. Only the tests call `_clear()`, which the model therefore leaves out.

### Baseband, Spectrum and River

`Baseband` describes an output by the coefficients blended in it and the samples they met, which shows
whether windows are consecutive and coefficients current, without arithmetic. The UI thread's
`setPassband` takes its steps between those of the filter; `crossed`, `abrupt` and `overtaken` say that
it came in the middle of a sample, changed the mode, or began a fade before the last was over. The
application sets centre and then width, which restarts a fade that has just begun. `Spectrum` runs the
FFT's own loops over the integers modulo 17, where 2 is a root of unity of order 8; every pair of bins is
tried. `River` follows each sample with the frequency the twin had when it was sent, through the ring, the
transform's window and the rows, which are shifted by whole bins when the receiver is tuned.

### Stimuli

`StimulusMix` has the mutex, the frozen list and the scratch buffers; the twin registers its signals
before it streams, but `StimulusManager.hpp` promises that any thread may at any time, and the model
takes it at its word. `StimulusScript` has the calls of a Lua script, with tables that name files that
do not load, sources that exclude each other and calls that raise an error half way. `Keying` looks up
six texts at any times in any order. `Carriers` compares batches with single samples, over the phases
of every generator. `SsbAudio` computes the transforms exactly, over pairs of residues of a prime in
which -1 has no square root and one half has one. `RFCapture` reads files chunk by chunk. `Speech` lets
two voices be synthesised by two threads at once, which the global buffer pointer cannot tell apart.

### TwinReceiver

The session loop reads frequency and offset one after the other (`ReadVfo`, `ReadOffset`), while the
worker stores them one after the other (`StoreVfo`, `StoreOffset`); each channel is turned on a thread of
the pool (`ProcessChannel`), then rotated and recombined. The veto's blocks are sets of samples with the
half of the window they met, so that a sample lost, doubled or left from the stream before shows. The
AGC's gain is split into attenuator stages and PGA code as `applyHardwareGain()` does it, in two steps
between which SET_ATTEN may come. `loop` is tuned by what it read last. The CPLD model begins a session in
eight phases and is told of changes only (`SignalGen.cpp:600-606`), so with a `--lo` above 15 MHz its mode is wrong
until the first change; `AsBegun` leaves that tuning out, and the run starts there.

### TcpFraming, UnixRpc

Both control transports as streams in which a send or a receive may stop at any boundary the code can
tell apart: before the length, between length and payload, within the payload. `errno` is a variable of
`TcpFraming`, because a receive on a closed descriptor leaves the value of the call before.

### SharedMem, ZephyrStandIn, FirmwareProcess, HostApp, Simulation

`SharedMem` has two processes over objects with and without a name; either may die between two steps.
A producer that restarts zeroes the header field by field under a consumer that is attached
(`torn`). `ZephyrStandIn` boots beside it. `FirmwareProcess` has the owner, the monitor thread and
the child, whose end either thread may be the one to notice. `HostApp` has the host library's thread and
its user over the receiving half of the UDP transport; `Simulation` the orchestrator's loop, its stop, and
a simulator that gets part of the way, or fails. It may be initialised anew between runs, and started twice:
`start()` looks at `running`, which only the thread it made sets, so a second call may assign over a joinable
`std::thread` and terminate the program (`StartTwice`). `initialize()` or `runFor()` beside a run in
progress is a data race no caller in the repository makes, and is left out.

### Capture, RadioControl, Synthesizer, CpldLink

`Capture`: one processor, so the interrupt comes between any two steps of the threads, while the pump
and the main thread are cooperative. A half has 384 samples, which `WholeTurns` needs to be a multiple of
the phasor's period of 32: otherwise the packets' phases would not join, and the code resets nothing
between them. `lagged` says that two halves were complete before the pump took one.
`RadioControl` carries out one request at a time, step by step, with the AGC's turn between any two. Every
write on the SPI and I2C buses may fail, and the host is told of none of them: `SetGainOf`, `Reflex` and `Tune` leave
an `Unknown` gain or oscillator then, `SwitchCplds` and `ResetCplds` may find the bus not ready, `StreamBitstream`
may break off. The GPIO ports of pads and chip selects are taken to be ready. The CPLDs may be configured or not, and
in either mode, when the firmware starts: no reset clears their register, and `init()` keeps a configuration it
finds. `setClockMode()`'s write reaches them with a first bit of 0, which `top.sv` takes for a read, so their mode
stays (the transaction "broadcast" of `CpldLink`). `past` remembers where the AGC came in the middle of a
setter, and whether a mode was sent to configured CPLDs (`told`). `Synthesizer`
computes dividers and packed registers as the driver does, and the clock the chip makes of them, in kHz
with a denominator small enough for TLC's integers; the proof holds for the code's 1048575 as well.
Nothing in the driver checks that the PLL's whole multiple fits the 18 bits it is packed into:
`RadioAssumption` asks it of every tuning (`PllFits`), which leaves out those below about 160 kHz, or 80
kHz at eight phases. `CpldLink` shifts the SPI words bit by bit through the slave's state machine, with
the 1pps counter and its latch beside it.

## 3. Runs

| Run | Configuration | Question | Bounds and why they are enough |
|---|---|---|---|
| `twin` | `MCTwin.cfg` | Do two threads share a slot? Is the ring a FIFO? Does the stream stay contiguous, silent when stopped, flowing when started? Do sessions end and threads with them? Does `parallelFor()` run each index once and return? | ring: capacity 4, indices modulo 8, 9 frames: both indices wrap, calls of up to 3 frames straddle the end of the array; session: watermark 2, capacity 3: two overtaken STOPs overflow the ring, as 13 do in the code; batches numbered up to 2 and one request waiting are enough to tell an old stream from a new one; pool: 3 workers, counts to 5 (below, at and above the workers), 3 calls so that tokens of two earlier calls could be left over |
| `half_open` | `MCHalfOpen.cfg` | Is a client that is gone without a word noticed? *No.* | the session of `twin` |
| `control` | `MCControlPath.cfg` | Does the twin end up with what was sent? Do answers match? Does the program end? | start-up posts every setting, so one change gives an old and a new command under a name; one call given up makes every later answer late |
| `agc_order` | `MCAgcOrder.cfg` | Is the AGC mode set in one frame with enabling it? *No.* | no change at all: it happens at start-up |
| `hpf_echo` | `MCHpfEcho.cfg` | Do Model and twin come to agree on the HPF bypass? *No.* | one change, no timeouts |
| `offset_unit` | `MCOffsetUnit.cfg` | Does the twin come to have the Model's OSD offset? *No.* | one change, no timeouts |
| `receive` | `MCReceive.cfg` | Is what is lost counted, what came delivered once, silence ended, playback of the band asked for? Do cached values and rules tell what holds? | 3 packets of 1 or 2 frames with one failed send and one repeated packet: a gap, a late packet and a full ring of 3 occur together; 3 connects, so that a disconnect is between two; an audio ring of 5, which fills, drains and wraps; a history ring of 3 with a retune; two observables under two computed values of which one reads the other, three watches of which two set observables, and five calls in and out of batches; three edits of rules over two properties and two tags |
| `processes` | `MCProcesses.cfg` | Do processes and firmware keep their promises to one another, through deaths, stalls, failures and interrupts? | a shared ring of 2 with 3 writes wraps and fills, and so does the host library's, of 2 with 3 frames; two starts of the producer and a death; two connections with 3 requests, one of which fails between two that do not; 2 children, so that one is reaped while the next starts; 5 halves, which the buffer holds twice over; 5 tunings, one in each band-pass bank that matters, one on the 15 MHz edge and one across it; 3 requests with two turns of the AGC; 3 SPI transactions, so that a write lies between two reads |
| `cpld_mode` | `MCCpldMode.cfg` | Do the CPLDs generate the phases they were last told to? *No.* | as `processes` |
| `zephyr_header` | `MCZephyr.cfg` | Does the stand-in accept the header of the ring it is made for? *No.* | one producer, two boots |
| `stimulus` | `MCStimulus.cfg` | Are the signals asked for mixed, whole and at their phases? Does the receiver keep two channels, blocks and gains together? Does the application hear and show what was sent? | two names over three generators with two workers; 14 samples, more than two cycles of each sweep; recordings of 4 samples, whose transforms have 8 and 16 points; every sample rate the loader treats differently; three batches and three commands, so that a command falls into a batch and the next shows what it left; frequencies on either side of the CPLD's edge; three audio samples with two turnings; an FFT of 8 points with every pair of bins; 3 rows with 2 retunings by less and by more than a bin |
| `voice_sideband` | `MCVoiceSideband.cfg` | Is the quadrature of a voice its Hilbert transform? *No.* | as `stimulus` |

The configurations that switch deadlock checking off model programs that end: a timed twin, an
application whose window is closed, a pool that is stopped, processes that exit; or, in `stimulus`,
computations that are done.

### What the properties say

* `NoSlotShared`, `FifoSpec`: the copy loops never meet, and the frames read are the frames
  written, in order, across wraps.
* `StreamContiguous`: the batches in the pacer's hands and in the ring are those from the next one
  the network expects to the last one computed. `LossNeedsToggles`: the result of
  `frameRing.write()` is ignored, but the ring can only overflow if the wait for space was cut
  short by `RingCapacity - HighWatermark + 1` STOPs that a START overtook.
* `NoOrphanThread`, `StopSilences`, `StreamFlows`: order of teardown, and progress. `SessionEnds`: a client that
  says GBYE or hangs up, on whom an answer finds the connection broken, or who is gone with a request still to be
  answered, does not keep the twin from the next one. It says nothing of one who is gone with no request open
  (`half_open`), or who reads no answers, so that one times out and the worker spins: those keep it.
* `NoTaskRace`, `PromiseKept`, `Returns`: no task is overwritten while in use; fork-join.
* `AnswersLag`: one request at a time, until a call is given up; from then on each call is
  answered with the answer before. `PollsGetStates`: before that, what is shown is a state.
* `SettledTwinAgrees`: coalescing and the shared VFO name lose no setting: the twin ends up with the numbers that
  were sent for the settings the program believes it has. What it takes the offset's number for is
  `offset_unit`'s. `AgcIsSent`: a change
  leaves the queue. `QuitEnds`: the program ends whatever the twin does.
* `StreamAccounted`: no loss hidden from the statistics, no frame between the socket and the
  callback lost, repeated or reordered. `SessionSound`: an application that says it is connected
  is, and no DSP thread outlives what it uses.
* `PlaysOnce`, `SilenceEnds`, `PlaybackIsRight`: see the modules; each names the interleavings
  in which the code does not keep it, four for `PlaysOnce`.
* `ModelRight`: a clean computed value is what computing it anew gives; when all is quiet every
  watch has seen what holds, if it missed nothing while it ran; both until a loop over a table that gained
  keys skips one. The rule box answers alike from its caches and without them.
* `ShmInSync`, `AnswersMatch`, `RequestsWhole`, `FirmwareReleased`, `StopReturns`, `HostSound`,
  `SimulationSound`: processes and their connections, over any number of restarts, loads and runs.
* `CaptureRight`: packets are numbered, whole, of this stream, each half once while the pump keeps
  up, and the phasor goes on across them. `ControlRight`: handler and DSP are in the mode of the last viewport
  on one side of 15 MHz; an oscillator whose writes went through has that mode's clock, and registers that
  give it; pads and gains are what is reported, unless the AGC came in the middle or a gain failed; no
  selected chip takes in what is not meant for it; and over the link signature and frozen count are read
  whole, with no register changed by a read. That a register written to is read as it was written is not
  among it, because it is not so (below).
* `StimuliRight`: the mix is what is enabled at one moment of the batch; what a script names is
  streamed, whole or not at all; a voice says its own text. `SignalsRight`: a signal is the same in
  batches and one by one, its transforms exact and so is the application's spectrum, its keying as
  written, its file read whole. `TwinReceiverRight`: channels turned alike, a veto that loses nothing,
  one mode for the band from the first tuning on, a calibration stimulus that ends, a gain that is the one wanted.
  `ReceptionRight`: the samples of every window, the coefficients, the fades; rows and trace of the
  river.

Several of these are conjunctions of named parts, one per machine or per promise; the parts carry the
explanations. When a run fails, TLC's trace shows which part is false.

### Disagreements found

* `HalfOpenDetected` (run `half_open`): a comment promises that half-open connections are
  detected; the timeout meant for it is replaced at every receive, whose own expiry is ignored.
* `SettledAgcAgrees` (run `agc_order`): `AGC` runs before `AGC_EN`, although posted after it, and
  the twin is left in mode 1 whatever mode the Model has. It happens at every start.
* `HpfSettles` (run `hpf_echo`): the state poll copies an answer older than the last change back
  into the Model, and the two values can chase one another for ever. No widget shipped changes
  the HPF bypass at run time; a rule of the user's configuration may.
* `OffsetArrives` (run `offset_unit`): the offset goes out in hertz (`AppLuaBridge.cpp:129`) and is stored in
  `osdOffsetKHz` as it comes (`ControlHandler.cpp:131`); the session loop multiplies it by 1000 once more
  (`SignalGen.cpp:599`).
* `CpldsFollow` (run `cpld_mode`): a mode written to both CPLDs without failure is not the one they generate. The
  driver's first bit is 0 for a write (`CPLDDriver.cpp:29`), which `top.sv:131` takes for a read. Its value for
  four phases would moreover be the one for eight (`top.sv:203`, `regs.py:17`); and `top.sv:155` latches the
  shift register when the first bit of the data comes, so that a write the right way round stores nought.
* `AcceptsProducersHeader` (run `zephyr_header`): the stand-in's copy of the header has another magic
  number, and frames of another size.
* `VoiceQuadrature` (run `voice_sideband`): the convolution of a voice runs over the samples after, not
  before, so its quadrature has the wrong sign and a voice comes out on the other sideband.

Seen while modelling, and written down here because no run is about them:

* The properties name, as exceptions, what the code does in these cases: the four interleavings in which
  `AudioBuffer` plays samples twice; `clear()` on a full ring silences the audio for good; a retune within a
  frame is undone; two voices synthesised at once mix; a recording of one sample is written past its end
  (`SSBGenerator.cpp:147`); a restarted producer resets a header under its consumer; a firmware that
  exits by itself leaves its monitor thread joinable, whose destruction ends the program; a failed
  bitstream load leaves both chip selects asserted.
* WAV loaders take fixed offsets and no padding of odd chunks, and divide by zero below 8 bits a sample.
* `AMGenerator` makes its tones with a sine in a batch (`AMGenerator.cpp:134`) and a cosine one by one
  (`:48`), a quarter of a turn apart, for which `BatchesAgree` allows.
* A sweep over no range has duration 0, by which `frequencyAt()` and the phase divide.
* `default.lua` documents `repeat` for a recording; the binding reads `loop`.
* The firmware numbers the AGC's modes otherwise than the twin, and its AGC turns the gain the wrong way
  (`src/fw/src/AGCManager.cpp:72`); its `init()` is never called.
* The firmware's only USB submission frees its buffer unsent (`USBManager.cpp:22` and `:43`: a packet of
  3100 bytes in a buffer of 2048); `totalOverruns` is never counted.
* `doc/CPLD.md` gives the CPLD's registers other addresses than `regs.py` (0x01, 0x02 and 0x7F; 0x04 and 0x7C) and
  a monotonic counter of 64 bits; `top.sv` counts once, in 26 bits, while the first pulse after the thaw is
  high, where `regs.py:24` says "at second PPS edge". The control register has no reset, and `main()` tells the CPLDs
  no mode: the handler does, when the mode changes.
* Nothing in the firmware reports a failed write on SPI or I2C to the host: `setClockMode()` drops the result
  (`CPLDDriver.cpp:200`), the ADC driver logs it (`TLV320ADC5140.cpp:98-131`), and the request succeeds
  (`ControlHandler.cpp:216`).
* "Choose target PLL frequency in 600 - 900 MHz" (`Si5351Driver.cpp:149`) is kept for some clocks only: 11 MHz at
  eight phases gives 528 MHz, and for clocks below 2.4 MHz the divider stops at 254.
* `runToCompletion()` asks for 10^9 seconds, "until Xyce finished or stopped" (`Orchestrator.cpp:65`): at the
  netlist's final time the simulator gets no further and the loop goes on, until `stop()`. A `start()` before the
  thread of the one before has set `running` terminates the program (`:68-71`).
* `AGCManager.hpp:79` says 60 dB of gain means no attenuation and 60 dB of PGA; the function gives 16 dB, as gain
  counts from 45 dB of attenuation.
* `SpectrumAnalyzer`'s header says its spectrum is shifted, `updateSpectrum()` writes it unshifted
  (`DSPPipeline.cpp:158`).
* The coherence veto handles whole hops only: an odd `--batch` loses the rest of each batch.
* The twin's CPLD model starts a session in eight-phase mode whatever `--lo` says, until the first change of tuning.
* `Reactive.lua` inserts into tables it runs through with `pairs()` (`:49`, `:61`, `:119`, `:160`).
* `Model.set()`'s rule of priority 1000 loses to any rule with a matching tag: the number of tags counts
  first. Replacing a rule shows the default in between.
* A watch that sets, and by that changes, what it read is not run again (`AppController.lua:231` and
  `Main.lua:671` do so).

### Fairness

Only steps that the operating system or a timeout makes happen are fair. In `TwinSession` the
three threads: their waits end by a timeout (100 ms to receive, 5 ms for space) or with another
thread's exit; clients are not fair, they need not come, go or speak. In `ThreadPool` the workers
and a caller inside a call; nobody has to call. In `ControlPath` the two threads, the serving
twin, and the end of a call (an answer that is there is read; without one the 500 ms pass);
changing, quitting and losing the connection are not. In `AudioBuffer` only the arrival of samples:
silence must end whether or not the callback reads. In `FirmwareProcess` the steps of the owner
within a call and of the monitor thread; the child owes nothing. Weak fairness is enough everywhere: no
thread's step is disabled and enabled for ever while it waits. Because `GiveUp` is counted,
`MaxTimeouts` bounds it: once used up, a call waits for its answer, which the twin's fairness
delivers.

## 4. Proofs

Each theorem is `Spec => ...`, for the specification of its machine and every value of the constants that
satisfies the machine's assumption, which is named after it (`CapacityAssumption`, `BoundAssumption`,
`PoolAssumption`, `SessionAssumption`, `PathAssumption`, `UdpAssumption`, `AudioAssumption`,
`HistoryAssumption`, `TcpFramingAssumption`, `SharedMemAssumption`, `UnixRpcAssumption`,
`FirmwareAssumption`, `HostAssumption`, `SimulationAssumption`, `CaptureAssumption`, `WholeTurns`,
`LinkAssumption`, `SynthesizerAssumption`, `RadioAssumption`, `ReceiverAssumption`, `StimulusMixAssumption`,
`StimulusScriptAssumption`, `SpeechAssumption`, `BasebandAssumption`, `RiverAssumption`,
`ReactiveAssumption`, `RuleBoxAssumption`; `NoneAssumption` says that "no value" is none of the values).
They give types and, where the code has it, an order of two sizes or a batch that is whole hops; `WholeTurns`, `RadioAssumption`,
`ReactiveAssumption` and `RuleBoxAssumption` ask what section 2 says of them. `StimulusMixAssumption` says
that the generators are finitely many, since a list is made of them; `SpeechAssumption` that a text that is
not empty has samples, and that no engine is the null pointer; `RiverAssumption` that the FFT's size is
even, as a power of two is. TLC evaluates them on the instances. In particular no theorem depends on a
bound: numbers of packets, requests, commands and restarts are any. Each proof has the same form: an
invariant that every step preserves, a lemma or a step for each action, and under it one for each part the
action can disturb.

* **Ring.** `RingInv` says that the indices are the lengths of the two histories modulo
  `IndexMod`, that the slots between them hold the frames sent at those positions, and that each
  call in progress has copied what it should. `NoSlotShared` and the refinement are not inductive
  by themselves: they need the relation of indices to positions, and the fact that positions less
  than a capacity apart are different slots (`SlotsApart`, from `ModDistinct`). Theorems
  `RingInvariant`, `TypeCorrect`, `SlotExclusion`, `RingImplementsFifo`.
* **Pool.** `PoolInv` follows each worker's single token: in its start semaphore, in its hands, or
  in its done semaphore, and where the caller's loops stand. Theorems `PoolInvariant`,
  `PoolTypeCorrect`, `TaskExclusion`, `PoolKeepsPromise` (the refinement of `ForkJoin`, a step of
  the pool being a step of the promise or a stutter).
* **Session.** `SessionInv` has seven parts, each preserved by every step. `ThreadInv` ties flags
  and threads to the place of the loop, which gives `NoOrphanThread`. `RoomInv` says that the ring
  is above the watermark by at most the number of waits cut short, which gives
  `LossNeedsToggles`. `OrderInv` is `StreamContiguous` with the pacer's batches and the ring's
  apart; it needs `IdleInv` (a stream without a pacer has nothing in flight, so resetting the
  counter on an idle turn changes nothing) and `ThreadInv` (`clear()` meets no reader). Theorems
  `SessionInvariant`, `SessionTypeCorrect`, `NoGaps`, `LossIsEarned`, `ThreadsReaped`.
* **Control path.** `PathInv` follows each setting on its way: the newest command of a name is pending, taken,
  the last of its kind on the wire, or carried out, so once none of these is left the twin has what was
  recorded as sent. For `vfo` and `osd`, which share a name, a command carries the half another one wrote, so the
  invariant speaks of the pair. The offset in it is the number of hertz that was sent. `AnswersLag` needs in addition who may call (one thread at a time, by
  `controlMutex`) and that the connection holds as many messages as calls were given up, and one. Theorems
  `PathInvariant`, `ControlTypeCorrect`, `AnswersAlwaysLag`, `PollsAreStates`, `SettledAlwaysAgrees`.
* **Receiving.** In `UdpStream` a late packet sets `lastSequence` back, so the next is charged for a gap it has
  paid for once: the invariant bounds what can be missing by what gaps were charged, and places each frame owed in
  the batch or in the ring. For `AppSession` it says, for each place of `connect()` and `shutdown()` on either thread, what
  the flags say of sockets and threads. For the two rings it says which slots are fresh, or which frame each position has,
  between the load of a position and its store on any thread: in the audio ring, between a look at the fill and the
  load of `readPos` that relies on it, what was found is still there, unless `clear()` came in between (`loose`). Theorems `StreamInvariant`, `StreamAlwaysAccounted`,
  `ConnectionInvariant`, `ConnectionIsThere`, `AudioInvariant`, `SamplesPlayedOnce`, `HistoryInvariant`,
  `PlaybackAlwaysRight`.
* **Reactive values.** A change is half told most of the time: `set()` has written the value, and the loops over
  its dependents stand anywhere on the stack, with watches in between that set something else. `ReactiveInv`
  therefore says who still owes what. `Linked`: both sides of a dependency agree. `Stacked`: computed values run
  on top of the stack, each for the body below it and of lower rank, so none meets itself. `Current`: a computed
  value that is not dirty is what its dependencies give, whatever the other values are (`Gives`, over all
  `Solutions`), or a loop has still to come to it. `Progress`: a function that is half run would come to the point where
  it stands with what it has read so far. `WatchesTold`: what a watch has seen holds, or it is owed by a loop,
  pending in a batch, on the list of a flush, or `missed`: it came while the watch itself ran. A loop owes every
  dependent it began with and has not come to, whether its table has moved or not; once one was cut short what it owed
  is lost, and no part is claimed any more. Clearing the dependencies
  before a run, and hash tables that gain entries while they are run through, are where this is tight.
  Theorem `ReactiveInvariant`.
* **Rule box.** `ListsInv` says which rules are listed under each name while a replacement has dropped or added them
  for some names only. `ViewInv`: what a cached answer depends on is, for each listed rule, either all it takes to
  match or one thing that keeps it from matching, so as long as nothing of it changes the same rules match
  (`BestOfMatching`). `ResolvedInv` has the cached table, which may be behind while names are being added. Theorems
  `BoxInvariant` and, with the one before, `ModelAlwaysRight`.
* **Framing.** `RequestsWhole` says nothing of what is still to come. `TcpInv` adds that the wire is the
  stream of all chunks ever sent less a prefix: what was handled, and one chunk more while the worker
  waits for a payload, or up to two where a receive gave up inside a message. What comes
  next is then no length of a message: nothing is handled, and the worker closes when it has come. Theorems `FramingInvariant`,
  `RequestsHandledWhole`.
* **Shared memory.** Slots between the positions hold the frames of those positions, *or* the header is torn;
  what a process has loaded is still good, because the other process moves its own position only. A
  restart begins a new object or tears the old one. Theorems `ShmInvariant`, `ShmAlwaysInSync`.
* **Unix socket.** As long as no request has failed on a connection, there is at most one message on it, and whose
  it is. Theorems `RpcInvariant`, `AnswersAlwaysMatch`.
* **Firmware process, host library, simulation.** The invariants say who still owes what: the child to be reaped and
  by which thread, the thread to be joined, the transport to be closed; the ADC sample whose time is a period after the
  last, over loads and runs; and who is in a run while the owner stops it. Theorems `FirmwareInvariant`, `FirmwareAlwaysReleased`, `HostInvariant`, `HostAlwaysSound`,
  `SimulationInvariant`, `SimulationAlwaysSound`.
* **Capture.** A half that is due belongs to the present stream, because stopping clears it, and is the one after the
  latest packet's, unless `lagged`. Theorems `CaptureInvariant`, `CaptureAlwaysRight`.
* **Control plane.** `RadioInv` follows a request through its setters. Half way through one, the half that is done
  is right: the large pads are those of the attenuation asked for, the first device has the gain or an unknown one, the
  handler's mode is the one the viewport calls for while the DSP and the record in `past` still have the old one.
  Of the CPLDs' phases it says nothing. The AGC's turn in
  between breaks the first two, and the record of it says so. That the oscillators then run at the clocks asked for is
  arithmetic: `BytesHold` (what the chip reads from the bytes is what was packed), `GcdDivides` (the fraction in its
  lowest terms is the same fraction), `EighthsHold` and `ErrorBound`, together `RegistersGiveClock`. Theorems
  `RadioInvariant` and, with the next, `ControlAlwaysRight`.
* **Register link.** At every bit of a transaction, what is still to go out, what has come back and the slave's count
  add up to the word, and what is left of the shift register is the named register's value; a count that can be read
  does not change any more. Theorems `LinkInvariant`, `RegistersReadRight`.
* **Receiver.** In the middle of a batch the channels do not agree: one is mixed, the other not, the
  rotation is still to come. `ReceiverInv` counts what each has still to be turned (`Owed`, `Due`), by
  the frequency and offset the loop has read and not by those now stored; with that the two stay a whole
  number of turns apart at every step. It takes no more of a batch than its length, so pool threads may
  come in either order. `VetoInv` says what the hop buffer and the overlap hold after n samples of a stream, which is
  what they would hold after those n samples alone; `GainInv` what the AGC's gain, the attenuator's stages
  and the PGA's code are to each other between the two steps that split it. Theorems `ReceiverInvariant`,
  `ChannelsTurnedAlike`, `ModeFollowsBand`, `StimulusAlwaysEnds`, `BatchInvariant` and, from all of these,
  `ReceiverAlwaysRight`: all five parts of `TwinReceiverRight`.

* **Mix.** A batch reads the list while others change it, so what it is compared with is not what is
  enabled now: `MomentInv` says that the list in its hands was enabled at one of the moments it has
  seen, `CollectedInv` that the items are those of that moment in the window, each once, and
  `OutputInv` that at any point of the parallel work the i-th buffer has the i-th item if it is done
  and nothing else (`Share`). That no filter goes on from an earlier session needs `Gone`: a filter that is
  not of this session or fresh belongs to a signal that is registered no more. Theorems `MixInvariant`,
  `MixAlwaysRight`.
* **Script.** `ScriptInv` says for each name that its latest call decides whether it is a signal
  (`Stands`), and for each point of the start-up which manager is streamed and that its frozen list is its
  enabled signals (`ListInv`); a script that raised an error leaves none. Theorem `ScriptInvariant`.
* **Voices.** Until two syntheses overlap (`crossed`), at most one engine is synthesising (`Alone`), the global
  pointer is its own once it is set, and its samples are the first of its text (`VoiceInv`). Theorem
  `SpeechInvariant`; with the two before, `StimuliAlwaysRight`.
* **Audio.** `RingsInv` says that each ring holds the latest samples of its stage from its index backwards
  (`Holds`), whatever their sizes are. During a fade there are two lines: the old one has the samples
  without the one in work, which the new one was given first (`OldLine`). `FadesInv` counts the fade: the last
  output is one step behind, or all of one filter's but one step; this is what makes `FadesSmoothly`
  hold where a fade begins and ends. Where the UI thread comes in the middle of a sample (`crossed`,
  `overtaken`, `abrupt`, `modeCrossed`) the parts promise no more than the property does. Theorems
  `BasebandInvariant`, `BasebandAlwaysRight`.
* **River.** A sample's number and its place in the ring differ by whole turns (`SamplesInv`), so a copy that is
  overtaken is still in order but for whole turns. Each cell has the age of its row and stands within half a
  bin of its frequency for each tuning since it was heard (`CellInv`): a tuning moves the rows by the nearest
  whole number of bins, which adds half a bin at most, and one too small to be passed on stays within what
  `TunerInv` allows. Two cells of a row keep their distance (`Stepped`). Theorems `RiverInvariant`,
  `RiverAlwaysRight`; with the audio's, `ReceptionAlwaysRight`.

The overlap of `TwinReceiver` is a recursive function of the number of hops, the sum of the buffers in
`StimulusMix` one of their number, Euclid's algorithm in `Synthesizer` one of a pair of numbers, what a function
gives in `Reactive` one of the point it has come to. The
library's induction theorems cannot be used here, because they take an operator as a parameter; but a
set of numbers that is not empty has a least element (`WFMin`), which gives induction for a *set* of
numbers (`AllNumbers`). A closed form shows that the recursive equation has a solution; `AllNumbers`
that the overlap and the sum have no other, and that what Euclid's algorithm gives divides both numbers. For
`Reactive`, where computed values call one another, there is no closed form: `AllNumbers` over the rank of a point
gives a solution for the points up to each rank, and that no two differ.

Only model-checked:

* every liveness property (`StopSilences`, `SessionEnds`, `StreamFlows`, `Returns`, `AgcIsSent`, `QuitEnds`,
  `SilenceEnds`, `StopReturns`), since TLAPS does not reason about fairness here;
* `SignalsRight`: keying is a recursion over texts, transforms one over FFT stages, with exact roots of unity;
  what they compute for every input is induction over data. Of the sweeps' phases TLC checks each sample.

That `TwinSession` may treat the ring as a sequence rests on `RingImplementsFifo` and `ThreadsReaped` together; the
composition itself is an argument in prose.

## 5. Not modelled, and why

* Amplitudes: the arithmetic of filters, noise, AGC detectors and calibration is floating point, and what
  TLC could say about it would not be about the code. What is modelled of a signal is which samples,
  coefficients, phases and frequencies meet; transforms are computed exactly, over residues.
* Time: ticks, deadlines and rates. A timeout is a step that may happen. So the models do not show that
  the pacer keeps up; nor that a twin so slow that each call takes longer than the 100 ms between polls
  starves the VFO command, because `POLL_STATE` precedes it in the map (`GUIEngine.cpp:447`).
* `runHeadlessMode()`, statistics, logging. `--batch` sizes larger than the ring (above 170 ms), of which
  most is refused at every turn, and those that are no whole number of hops.
* A value `Hardware.lua` has recorded as sent and whose call then fails is not sent again, and
  `invalidateState()`, meant for a reconnect, has no caller: nothing reconnects.
* Requests to the firmware that it cannot decode are answered by nothing, which its client would have to
  notice; the shipped client talks to the twin. Its `uart` reader decodes the first request in a buffer only.
* USB buffers and the codec's initialisation in the firmware; `onDMABufferComplete()` and
  `onBulkInComplete()` have no callers.
* `BasebandFilter`'s notch and tap count, which nothing sets.
* NexBus, which no thread of the twin runs.
* Move constructors, `SharedMemTransport` and the other library parts' use: they are in no target of the
  build, and are modelled for what they promise.
* Colours, fonts, layout, input handling, display drivers, build tools, hardware design files.

## 6. Plan

Done: the modules above. Next:

1. Proofs for the phases of `Carriers`.
2. An abstract promise for `SharedMem` and `AudioBuffer`, a FIFO that may drop its oldest element, and
   the refinement outside of the named cases.
3. The firmware's serial framing, and the USB buffers once they carry packets.

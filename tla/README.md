# camera-things: a TLA+ model of the camera server

`raspy` runs on a Raspberry Pi. It takes frames from a libcamera camera (or from a
directory of image files when there is none), and sends them over UDP to an on-board
computer (the OBC) that asks for them with one-character commands. This directory
models the parts of it in which several threads, a lossy network or a timeout meet:
seven threads, two queues, half a dozen locks and several flags without one.

## 1. Inventory

| part | source | state | operations | who uses it |
|---|---|---|---|---|
| Work queue | `include/function_queue.hpp` | one static deque, mutex, quit flag | push at the back / front, `runOne`, `runLoop`, `startSendingLoop`, `quit` | the event loop pushes `saveData` at the back, the MAVLink reader pushes telemetry in front, the sending thread runs both |
| Event loop | `src/event_loop.cpp`, `include/event_loop.h` | `calls_`, `exit_`, libevent's break flag, a timer | `exec`, `exit`, `callLater`, `timeout` | libcamera's thread posts `processRequest`; `start` runs `exec` in a thread and joins it |
| Capture pipeline | `src/simple-cam.cpp` | camera pointer, requests, buffers, `send_count`, `send_current`, saved controls | `start`, `requestComplete`, `processRequest`, `saveData`, `lock_settings` ... | the centre of the program |
| OBC port | `src/obc_port.cpp` | socket, `quit_signal`, `client_addr`, `camera_thread_started` | `start_listener`, `handle_command`, `send_image`, `return_ping`, `quit` | main's thread listens; the sending thread or the mock thread sends |
| Mock camera | `src/mock_camera.cpp` | current file | `mock_thread_loop`, RGB to YUV420 | takes from `send_count`, calls `send_image` three times |
| UDP client | `src/udp_client.cpp` (not built into `raspy`) | request counter, one buffer | `request_image`, `receive_and_save_buffer` | the receiving half of the protocol |
| MAVLink | `src/mavlink.cpp` | current messages, `time_to_exit`, status flags | `start`, `read_thread`, `write_message`, `stop` | its reader pushes telemetry; `saveData` writes through it |
| Serial port | `include/port.hpp` | descriptor, lock, parser status | `start`, `stop`, `read_message`, `write_message` | MAVLink |
| Main, configuration | `src/raspy.cpp` | defaults | `load_configuration`, `main` | starts everything, ends in `start_listener` |

What is hard: a request crosses four threads on its way round (camera, event loop, work
queue, `saveData`); a wake-up of the event loop can be lost; `send_count` is changed by
three threads and once without its mutex; the camera thread tears down what the sending
thread may still be using; one client address serves every sender, and two threads may
send at the same time; UDP loses datagrams and the receiver counts them instead of
reading their numbers; the port's lock is held across a read that blocks; the
autopilot's ids are published, and copied, one by one without a lock.

What makes each part correct: the deque loses and reorders nothing and is never popped
empty; every call is dispatched and `exit` ends the loop; no request is lost, doubled or
overtaken, each image request is answered at most once, and while capturing at least
once; nothing freed is used; every plane goes to the client, whole; a saved file holds
one plane, each byte in its place; telemetry is asked of a device that exists and
answered once; frames get back to the camera although they wait for the port.

`PROJECT.json` lists the components and the hazards line by line.

## 2. Modules

    ImageService <---- SimpleCam -------> EventLoop, TaskDeque <---- FunctionQueue
         ^                                           ^
         |             Raspy -----------------------'----> SerialPort, Mavlink
         |
         +-------- ImageExchange -------> ObcPort, MockCamera, UdpClient

                   PlaneBytes ----------> Yuv420, ChunkTransfer

(An arrow leads from a module to one it uses by INSTANCE. `ImageService` and `TaskDeque`
are abstract specifications: `SimpleCam` and `ImageExchange` implement the first,
`FunctionQueue` the second.)

* **TaskDeque** - what the work queue promises: a deque with atomic operations.
* **FunctionQueue** - `function_queue.hpp` lock by lock. A push is two steps (lock and
  read, store and unlock), a pop is two steps, the test for emptiness is made without the
  lock and may see a deque in the middle of a push. `pc` is the consumer's place in
  `runLoop`/`runOne`, `held` its `tempFunc`. `Taken` is the refinement mapping to
  `TaskDeque`: a task leaves the queue when it is popped, not when it is moved from.
* **EventLoop** - `exec` step by step: test of `exit_`, one call after another, entry of
  `event_base_loop` (which clears the break flag), sleep. `callLater` and `exit` are two
  steps each, the change and the interrupt. While the last call of `calls_` runs, the
  iterator of `dispatchCalls` is `end()` and stays it, so a call pushed then is not seen.
  The *gap* is the time from there to `event_base_loop`.
* **SimpleCam** - the capture pipeline, with an `EventLoop` and a `TaskDeque` inside:
  the camera thread (`start_camera_thread`, `start` with its early returns, teardown; in
  mock mode, or when no camera is found, `start` only starts the thread of `MockCamera`),
  libcamera's thread, the event loop's thread, the listener's `send_count++` in two steps,
  and `saveData` plane by plane. History: requests counted, requests a frame was found
  for, start commands handled.
* **ImageService** - what the OBC is promised: each request begins at most one image, one
  at a time, its planes one by one.
* **ObcPort** - the listener and `send_image`, with the address read once per call; each
  thread that sends has its own transfer, and nothing serialises them.
* **MockCamera** - `mock_thread_loop`: scan of the directory, poll of `send_count`, load,
  three calls of `send_image`.
* **UdpClient** - `request_image` and `receive_and_save_buffer`, which counts datagrams.
* **ImageExchange** - the last three composed with a network that keeps the order, with
  faults (a lost datagram or command, a failing `sendto`, `bind` or image file), with the
  sending thread's telemetry as a second sender, and with operators that ping, start or
  stop the server. A chunk is the plane it belongs to and its number.
* **Yuv420** - `convert_rgb_to_yuv420`: its two loops and every index it reads or writes.
  The value of a cell is the pixel it was computed from. V is indexed like U and left out.
  The first access out of bounds (`OutOfBounds`, `Stray`) is where the model of a
  conversion ends: what the program does from there on is undefined.
* **ChunkTransfer** - the bytes of `send_image` and `receive_and_save_buffer`: how many
  chunks are announced, which bytes each holds, where the receiver copies them. Chunks
  arrive in any order.
* **PlaneBytes** - both together: from a pixel of the image file to a byte of the file the
  client saves.
* **SerialPort** - `port.hpp`: the lock, `read_message` byte by byte, `write_message`.
* **Mavlink** - `mavlink.cpp`: `start`, which looks at the system id and at `time_to_exit`
  one after the other, the read thread with the two stores of the ids, `stop`, the commands
  that `saveData` sends.
* **Raspy** - `raspy.cpp` over `SerialPort`, `Mavlink` and `TaskDeque`:
  `load_configuration` with every combination of missing and mistyped keys, the order of
  start-up, frames that ask for attitude and position, telemetry that overtakes them, and
  the devices at the other end of the line. A device sends heartbeats, answers what it was
  asked (`Answer`), and may at any moment send telemetry nobody asked for (`Volunteer`):
  `mavlink.cpp:114-126` takes the one for the other.
* **FunctionQueueProofs, EventLoopProofs, SimpleCamProofs, ImageExchangeProofs,
  ImageFlowProofs, PlaneBytesProofs, RaspyProofs** - theorems; **IndexArithmetic** - facts
  about products, quotients and remainders they share.
* **MC...** - the instances TLC checks.

Operators marked "Mutant" are deliberately wrong versions of the definition that follows
them: each property is known to fail with one of them in its place.

## 3. Runs

| run | instance | shows |
|---|---|---|
| `queue` | one consumer, a back pusher, a front pusher, 3 tasks | `NoPopOnEmpty`; the queue implements `TaskDeque`; no task is starved once the front pusher stops; `quit` ends a loop that has begun |
| `event_loop` | 2 calls, a poster, a stopper, 1 post per gap | a sleeping loop has left only gap posts; every call is dispatched or the loop has ended; `exit` ends `exec` if `dispatchCalls` is not busy for ever |
| `capture` | 3 buffers (as in `config/picam.json`), 2 planes, 2 requests, 2 start commands, 2 posts per gap | the ring loses, doubles and reorders nothing (`RequestsConserved`, `RingTurns`); requests are answered once (`NoUnaskedImage`, `ServiceSpec`) and completely (`AllPlanesSent`); teardown waits for the timeout (`NoTeardownWhileCapturing`); frames return, requests are taken, the timeout ends the capture |
| `exchange` | 1 client, 2 requests, 2 files, planes of 2, 1 and 1 chunks; two troubles out of one fault, one telemetry message, one operator's command | undisturbed, the n-th request gets the n-th image, buffer k its plane k (`FilesRight`); a client waits for ever only after a fault, telemetry or another program's command (`RequestCompletes`); without fault and telemetry, a client that is done has all its buffers (`FaultlessSaved`); one fault never mixes two planes in a file (`FilesWhole`); no plane goes to an unset address (`SentToSomebody`); the mock server implements `ImageService` |
| `planes` | nine configured sizes from 1 x 1 to 6 x 4, even and odd, three sizes of image files, chunks of 3 bytes | the conversion stays in bounds exactly for even sizes and files of at least as many pixels (`InBounds`); then each pixel is where it belongs in the client's file (`PictureArrives`), and both planes are sent and saved (`TransferEnds`) |
| `server` | every configuration file, one autopilot, 2 frames, messages of 2 bytes, one message and one command on the line | what `saveData` asks is addressed to the autopilot (`CommandsAddressed`); only a request, or a message sent unasked, makes telemetry for the OBC, and one each (`AnsweredOnce`); `main` gets to the listener or dies of its configuration; frames return to the camera once devices no longer send telemetry unasked (`EveryFrameServed`); `stop` ends the read thread |

Bounds. Three buffers and two posts per gap are the smallest ring in which a stranded
call, a request in the work queue and one in the camera coexist. Two image requests let
one be counted while another is taken, or while the first one's datagrams are still
under way. Chunks: two in Y are enough for a transfer to be cut in the middle, and for a
telemetry header to come between a header and a chunk, or between two chunks. Two
troubles are enough for a fault to meet a ping, or telemetry a lost datagram. Chunks of
three bytes make planes that fill their last chunk, planes that do not, and planes of one
chunk. Files of 24, 9 and 8 pixels are enough for some of the configured sizes and too
small for others. Messages of two bytes let the lock change hands in the middle of a
message. `MaxQueue` lets a device send telemetry unasked as long as fewer tasks than that
are queued, so that it can overtake both frames. `MaxAsks`, `MaxStarts`, `MaxRequests`,
`MaxOperatorCmds`, `MaxTelemetry`, `MaxFaults`, `MaxTrouble` bound commands and faults,
`MaxGapPosts` what completes in a gap, `MaxLine` and `MaxOut` what is on the serial line.

`MaxGapPosts` below the number of buffers is an assumption about timing, that the camera
does not complete *every* request between the last call of a dispatch and
`event_base_loop`. It is what the liveness of the capture rests on; run `stall` lifts it.

`CHECK_DEADLOCK FALSE`: the capture ends for good after the timeout, the server after
'e', a client after its last request, a transfer after its planes, `main` when it dies of
its configuration.

Disagreements between the code and what it says of itself (each run finds one; the
findings in `PROJECT.json` quote the lines):

* `stall` - with every post in the gap the loop sleeps on all of them
  (`event_loop.cpp:86`).
* `forgotten` - `send_count = 0` at the end of the set-up drops requests already counted
  (`simple-cam.cpp:466`).
* `requeue` - after the timeout `saveData` may queue its request through a null camera
  (`simple-cam.cpp:190`).
* `restart` - 's' after the capture has ended starts nothing (`obc_port.cpp:109`).
* `telemetry` - one telemetry message between the datagrams of an image, and the client
  does not get its three buffers (`mavlink.cpp:65`).
* `ids` - with two devices on the serial line, the ids taken may be the system of one and
  the component of the other (`mavlink.cpp:103`).

More follow from the models and have no run of their own. `SEND_TO_OBC: 0` sends to
nobody, although `README.md:81` names the Jetson: all the setting does is allow
`send_image` (`Sends` of `SimpleCam`, `Dispatch` of `Raspy`). Two lost datagrams are enough
for a saved buffer to mix two planes, so `FilesWhole` is claimed for one fault
(`udp_client.cpp:75`). A ping from elsewhere
takes the rest of an image away from the client, which then waits for ever: another
program's command is the third of the reasons `RequestCompletes` admits
(`obc_port.cpp:155`). And nothing refuses an odd width or height: the conversion writes past
the chroma planes without a word (`mock_camera.cpp:36`; of one pixel, they are empty). For
an image of another size than configured it logs a warning and reads on, past the end of
one that is too small (`mock_camera.cpp:94`).

Six hazards of the control flow have no property, because the code does not guard against
them: a steady
stream of telemetry in front of the frames starves `saveData` (`function_queue.hpp:45`);
calls that keep arriving keep `dispatchCalls` from ever coming back to the timer
(`event_loop.cpp:39`); a mutex that always favours the read thread starves the writer
(`port.hpp:355`); a key of the wrong type, or a missing `uart_name` with MAVLink on, ends the
program (`raspy.cpp:72`, `:36`); a file that cannot be loaded costs the client its answer
(`mock_camera.cpp:88`). The models can do all of these. The liveness properties name what they
assume instead: pushes in front that stop (`EveryTaskTaken`, `EveryFrameServed`), a
dispatch that comes to an end again and again (`ExitEndsExec`), a lock that a waiting
thread sometimes gets (`EveryFrameServed`, `StopEndsReader`), no fault
(`RequestCompletes`); and `ServerListens` accepts a program that ended.

## 4. Fairness

Weak fairness of a thread's next step, for the threads that loop or wait: the scheduler
runs every thread. A thread that holds a mutex leaves its critical section. A running
camera goes on completing the requests it has. Nothing is assumed of commands, faults,
`mmap`, the timer or the front pusher, which may or may not come; properties that need
one of them say so in their left-hand side. A `Post` in the `event_loop` run is fair
because the camera keeps completing requests: it is the only thing that repairs a lost
wake-up.

On the serial line a device sends heartbeats when it has nothing else to say, takes what
it is sent, and a read does not fail for ever (strong fairness of `Read`, since
`ReadFails` may come in between). Who gets the port's lock is not assumed: a pthread
mutex promises the waiting writer nothing while the read thread takes it again at once.
That a writer gets it now and then is therefore a hypothesis of `EveryFrameServed`, that
the reader does one of `StopEndsReader`, both visible in the property. So is that the
devices do not send telemetry unasked for ever: nothing in the program limits it, and each
such message goes in front of every frame (without that hypothesis TLC finds the frame that
waits for ever).

## 5. Proofs

For all values of the constants:

* `FunctionQueueProofs`. `Spec => []TypeOK`, `Spec => []NoPopOnEmpty` and
  `Spec => DequeSpec`. The invariant: whoever pushes holds the mutex and the deque is still
  the one it read; whoever pops holds the mutex and has the front; a consumer that found
  the deque non-empty will find it so when it locks. The last part needs that there
  is one consumer (`SingleConsumer`): `main` calls `startSendingLoop` once. With two, both
  could see the last task. For the refinement, `EndPush` maps to a push, `PopFront` to
  `Take`, `RunTask` to `Finish`, everything else to a stutter.
* `EventLoopProofs`. `Spec => []TypeOK` and `Spec => []StrandedOnlyInGap`. The property is not
  inductive: it is strengthened to the whole gap, where the posts counted since the
  iterator reached `end()` bound the length of the list; falling asleep carries that over.
* `SimpleCamProofs`. `Spec => []TypeOK`, `Spec => []NoUnaskedImage` and `Spec => ServiceSpec`.
  The invariant of the last two adds that what the listener read under the mutex is not too
  high (the unlocked reset only lowers the count), that `send_current` is set only during its
  own frame, and that fewer planes were sent than visited. `SendToObc /\ Spec =>
  []AllPlanesSent` sharpens the last to equality. `Spec => []NoTeardownWhileCapturing` rests
  on `Standing`: before `start` has set the camera running nothing is anywhere in the ring
  (`Resting`), from `Setup` to the join the buffers and the camera are there, and the loop
  ends, and so the join returns, only after the timer has fired.

  For `Spec => []RequestsConserved` and `Spec => RingTurns`, the ring is one sequence, made
  of what `saveData` holds, the work queue, the call being run, `calls_` and the camera's
  requests. `RingMoves` lists what a step can do to that sequence: nothing, turn it, append a
  request that is not in it, drop its end (`camera->stop`) or its front (a camera that
  refuses). Sequence lemmas show that each keeps it free of repetitions; that the ring is
  empty and `next` is 1 when the camera begins to run comes from `Standing`.
* `ImageExchangeProofs`. `Spec => []TypeOK`, `Spec => []SentToSomebody`, `Spec => ServiceSpec`.
  Who asked is stored (`StoreClient`) before the request is counted (`HandleImage`), so a
  count above zero, and a mock thread past its poll, imply an address (`Known`). For the
  refinement, requests taken and requests waiting add up to the requests asked.
* `ImageFlowProofs`. `Spec => []FilesWhole`, `Spec => []FaultlessSaved` and `OneClient /\ Spec
  => []FilesRight`. All rest on what is on the way to a client, in three layers (`FlowInv`):

  - without telemetry (`Ordered`), a client's queue is made of runs, each a header and then
    chunks of its plane with rising numbers and no gap, the last run being the one the mock
    thread is still sending. A datagram is lost when it would have arrived, so a loss, too,
    takes the front of the queue;
  - with at most one fault (`Gathering`), the receiver holds chunks of one plane only, and if
    its count is the number of the next chunk, it holds them all. If it is not, the fault has
    happened and the count stays behind, so the buffer is not filled before the next header
    comes, and that is refused as a chunk;
  - without fault (`Complete`, `Ready`, `Saved`), no run is cut short, a client that waits for
    a chunk finds it in front, one that waits for a header finds no chunk, and so each buffer
    before the one being filled is saved. Operators and other clients cannot disturb this:
    whole planes may go elsewhere, and then the client waits, but none is cut, because
    the address is read once per plane.

  `FilesRight` needs more (`AloneInv`): every request is in the inbox, in the listener's hands,
  counted or taken (`Counted`), client and mock thread take turns (`Turn`), and the place in
  the image's stream of datagrams that the client waits for is that of the first one under
  way, or of the next the mock thread sends (`Stream`). `OneClient` is needed: two clients
  share the turn of images, and the later request replaces the address of the earlier.
* `PlaneBytesProofs`. `Spec => []TypeOK`, `Spec => []InBounds`, `Spec => []PictureArrives`. The
  loop invariant of the conversion is that the pixels before `(x, y)` are in place, and that
  none of them was out of bounds (`Inside`). With an odd width the last sample of the last
  sampled row has no cell, with an odd height the first of the last row has none, so a
  conversion that comes to its end had even sizes (`AllSampledIsEven`). That of
  the transfer, that a byte is in place if its chunk was sent and is not in flight, and that
  received and flying chunks add up to those sent. `IndexArithmetic` has what both need: the
  index of a cell is unique and in range, every byte has a chunk, a chunk ends inside.
* `RaspyProofs`. `Spec => []TypeOK`, `OneDevice /\ Spec => []CommandsAddressed` and
  `Spec => AnsweredOnce`. The chain for the second: what was heard is the device's or still 0
  (`Heard`); the system id taken is the device's unless the handshake was given up (`Taken`);
  nothing is asked before the handshake is over, because the sending loop starts after it
  (`AskedAfterwards`). A component id of 0 still addresses the device. Run `ids` shows that
  one device is needed. The third counts: lemmas say what appending, prepending and taking
  from the front do to the number of places of a kind in a sequence, and each step moves one
  item along the way, or drops it, or is a device's that sends unasked. It needs that a
  frame is not a telemetry message (`FrameAssumption`).

Assumptions are the named `ASSUME`s of the modules, and the hypotheses shown: `SendToObc`
(otherwise nothing is sent), `OneDevice`, `OneClient`, one consumer. `AddressAssumption` says
that a socket belongs to one program, a client's or an operator's: `udp_client.cpp` never
sends a ping.

Every invariant and every action property the runs check is proved. Only model-checked is
liveness, which TLAPS does not reach: `EveryTaskTaken`, `QuitEndsLoop`, `EveryCallTaken`,
`ExitEndsExec`, `EveryFrameReturns`, `EveryAskTaken`, `TimeoutEndsCapture`,
`RequestCompletes`, `TransferEnds`, `ServerListens`, `EveryFrameServed`, `StopEndsReader`.

## 6. What is left out, and the plan

Abstractions: colour values, log output, the exit code of the loop, the settings of the
serial line, the content of a MAVLink message other than its origin and kind.
`RPICam::mutex` is not in `SimpleCam` because only `saveData` takes it there; in `Raspy` the
whole of `saveData` is one thread's, so it excludes nobody either. libcamera is: oldest
request first, queueing refused when it is not running, `stop` waits for the slot being
executed. In `ImageExchange` the camera thread is started, so 's' changes nothing. `Raspy`
leaves the end of the capture to `SimpleCam` and the UDP side to `ImageExchange`.

Not modelled:

* `lock_settings`, `unlock_settings` and `copy_controls` (`simple-cam.cpp`): nothing calls
  them, `settings_locked` and `save_settings` are never set, so the branches that read them
  cannot be entered. `send_next_image`, `stop_taking_pictures` and `Port::stop` have no caller
  either. (Nor have `functionQueue::quit` and `Mavlink::stop`, which are modelled.)
* The files `saveData` writes and its page alignment, the metadata log, and the mapping of
  each telemetry message that is never unmapped: no property here tells them apart.
* `handle_gps`, `handle_attitude_message` and the print functions of `mavlink.cpp` change no
  state.
* The configuration keys that only set sizes, ports and times: they are constants of the
  other modules.
* The vendored libraries under `libs/` (MAVLink, loguru, nlohmann json, stb_image, httplib),
  which are by far the larger part of the repository's lines, and the build files.

What could come next: the safety half of `RequestCompletes`, that an undisturbed client that
waits always has something under way to it or a thread that is about to send; `Complete`
and `Stream` say most of it.

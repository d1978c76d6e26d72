# A verification of AndroidFastDevelop

AndroidFastDevelop is a collection of Android example applications, two of which carry a C
library along: LAME for MP3 and libjpeg for JPEG. What can go wrong in the applications
goes wrong between threads: a camera, an encoder, a decoder, worker threads, delayed
messages, an activity that may be gone. What can go wrong in the libraries goes wrong
between calls: buffers that are cut at other places than the data, counters of one thing
kept in three places, passes, restarts, and destinations that are full. This directory
holds TLA+ models of that code, TLC configurations that check them on small instances,
and TLAPS proofs of what should hold for every instance.

The repository has no design document and its tests are the generated stubs
(`2 + 2 == 4`). What the code is meant to do is read from the code and its comments.

## Inventory

| Component | State it keeps | Operations | Interacts through | Hard behaviour | What makes it correct |
|---|---|---|---|---|---|
| HandleYUV `H264EncodeThread` | frame queue (5), `isExit`, `isCodecStart`, listener, codec, `ppsSps` | `setFrameData`, `exit`, `setOnEncodeResultListener`, `run` | bounded queue from the main thread; callback to a listener; MediaCodec buffers | unsynchronised fields, blocking `put` and `take`, exit against both | buffers accounted for, frame order, a blocked caller gets through, exit ends the thread, key frames carry parameter sets |
| HandleYUV `H264DecodeThread` | packet queue (5), `isExit`, surface, codec | `setDecodeData`, `exit`, `setRenderSurface`, `run` | bounded queue from the encoder thread; MediaCodec buffers | as above | buffers accounted for, the queue drains |
| HandleYUV `MainActivity`, `CameraManager` | the two current threads, the camera | surface callbacks, `onPreviewFrame`, `onEncodeResult` | calls into both threads from the main and from the encoder thread | threads abandoned without a join, restarts, null tests on fields another thread clears, three threads waiting on each other | no crash without teardown, old and new packets, no lasting wait |
| HandleYUV `native_yuv.cpp` | none | five conversions of a frame | called in `setFrameData` | index arithmetic over interleaved planes; arrays the virtual machine may copy | the picture is kept |
| RC4Encrypt | the same pipeline; `S` and `T` in native globals | `nativeRc4`: key schedule and key stream | all three threads through the native globals | one permutation shared without a lock; decrypting by the first NAL type | a call that is not overlapped is exact; the decoder gets back what was encrypted |
| SimpleThreadPool | task queue (10), five workers | `execute`, the workers' loop | bounded blocking queue | interrupts, nested `execute`, task exceptions | each task is run once, nobody waits for ever |
| Algorithms `Queue` | array, `lenght`, `front`, `rear` | `insert`, `remove`, `perk`, `size` | none | wrap-around | first in, first out |
| Algorithms, other containers | arrays, links | insert, remove, find | none | boundaries | order, no element lost |
| Algorithms, searching and sorting | none | twelve functions | none | boundaries | sorted permutation, found if and only if present |
| MVP application | weak view reference, activity stack | login, load phones, attach and detach, push and pop | model threads to a handler on the main thread | a result after the activity is gone; a stack popped at its top by whoever is destroyed | no use of a view that is gone, the stack holds the live activities |
| FloatBall | the ball's window and place, shown flags of the activity and of Android, delayed half-hide messages | start and stop the service, show and remove the ball, touch, dock, half-hide | messages of the main thread, window manager, a sticky service | the delayed message against removal and touch; activity, service and process ending at different times | no operation on a removed window, a ball that can be reached, under a finger only the finger moves it |
| HotFix | class loader's element array | load a patch | reflection | Android versions | patched classes come first |
| LameMp3 wrapper | the one encoder of the process | `lameInit`, `lameEncode`, `lameFlush`, `lameClose` | calls LAME with the caller's arrays | calls in any order, arrays of any size | no array overrun, a flush ends the stream |
| LAME, buffering and stream | sample buffer, bit reservoir, ring of headers, bit buffer | encode a buffer, encode a frame, flush, format the bit stream | functions of four files sharing counters | three counts of one reservoir; headers inside the main data of other frames; padding at the end | headers point at their data, counts agree, nothing overflows |
| LAME, signal processing | filter and masking state | filter bank, psychoacoustics, quantisation | called per granule | floating point | |
| HandleJpeg wrapper | none | `compressJPEG` | libjpeg, a file | errors end the process | |
| libjpeg compressor | parameters, five controllers, entropy encoder, tables and which were sent | set parameters, start, write scanlines, write marker, finish, abort, write tables | controllers call each other; a destination that suspends | calls cut at any row, suspension in the middle of a row of MCUs, passes, optimal tables, objects used again | rows and passes are counted right, the file can be read |
| libjpeg decompressor | marker reader, input and output controllers, entropy decoder, coefficient arrays | read header, start, read scanlines, finish, abort | as above; a source that suspends or has lost data | an MCU decoded again after data was late, lost restart intervals, tables from earlier files | what was sent comes back |
| libjpeg, arithmetic on samples | tables | transforms, colour conversion, resampling, colour quantisation | called per row | arithmetic | |
| libjpeg, arithmetic coding, transcoding, tools | | | not used by the application | | |
| LeaksExamples | written to leak | | | | |

## Modules

| Module | What it is |
|---|---|
| `EncodeThread` | `H264EncodeThread`, its codec, and the most general caller that follows the one rule `MainActivity` follows |
| `DecodeThread` | `H264DecodeThread` and its codec, under any caller |
| `Pipeline` | `MainActivity` composing the two, with restarts |
| `Rc4` | the native cipher on its global array, step by step, as any threads call it |
| `Rc4Video` | composes `Rc4` with the three threads of RC4Encrypt that call it |
| `ThreadPool` | `SimpleThreadPool`, its workers and its callers |
| `MvpApp` | the MVP application: presenters, model threads, the activity stack, the crash handler |
| `BoundedFifo`, `SequenceEdits` | abstract specifications: a bounded first-in first-out queue; a sequence edited by one element at a time |
| `Halvings` | the search by halving that the containers and `BinarySearch` share |
| `RingQueue` | Algorithms' `Queue`, which implements `BoundedFifo` |
| `IntArrays` | Algorithms' `Array`, `OrderArray` and `Stack` |
| `LinkedList` | Algorithms' `LinkedList` and callers who keep its nodes; implements `SequenceEdits` |
| `Containers` | composes the two: one container at a time |
| `FloatBall` | the floating ball: activity, service, window, touch listener, delayed messages |
| `Sorting` | the sorting and searching classes of Algorithms |
| `YuvFrames` | HandleYUV's native conversions of a frame |
| `Algorithms` | composes all of Algorithms, and the conversions: one object at a time |
| `Mp3Stream` | LAME's bit reservoir, the rate of each frame and the writer of the bit stream |
| `LameEncoder` | the JNI wrapper and LAME's sample buffering, on top of `Mp3Stream` |
| `JpegScans` | geometry of an image and of its scans, the scripts libjpeg accepts |
| `JpegTables` | Huffman tables: optimal ones, codes derived, codes looked up |
| `JpegEntropy` | both Huffman encoders as functions of an MCU and the state between MCUs |
| `JpegCompress` | the compression object, its controllers and the calls of its application |
| `JpegDecoding` | both Huffman decoders, bit by bit |
| `JpegDecompress` | the decompression object, its marker reader, controllers and restart logic |
| `JpegFile` | composes the two objects: files written, carried with losses, read |
| `ThreadParts`, `MediaParts`, `JpegAndBall` | parts that share nothing, one of which runs: what one run of TLC checks together |
| `MC...` | constants for TLC |
| `PipelineProofs` (with `EncodeThread`), `ThreadPoolProofs`, `MvpAppProofs`, `AlgorithmsProofs` (with `RingQueue`, `YuvFrames`, `IntArrays`, `LinkedList`, `Sorting`), `Rc4Proofs`, `LameEncoderProofs` (with `Mp3Stream`), `JpegProofs`, `FloatBallProofs` | theorems |

### EncodeThread

`enc[t]` is the thread object `t`: its fields under their own names, the place of its
`run()` in `pc`, the frame a caller of `setFrameData` is putting in `caller`, and the
codec's side in `inBuf`, `pending` and `output`. One action stands for the code between
two accesses to something another thread can see:

| Action | Code |
|---|---|
| `EncStart` | constructor, `setOnEncodeResultListener`, `start` as `surfaceCreated` calls them |
| `SetFrameData`, `EncPut` | the test of `isCodecStart`; the blocking `put` |
| `EncExit`, `ClearListener` | `exit`, `setOnEncodeResultListener(null)` |
| `InitEncodeCodec` | `initEncodeCodec`, the `IOException` it catches included |
| `DequeueInputBuffer` | the loop test, `dequeueInputBuffer`, `inputIndex > 0` |
| `TakeAndQueueInput` | `take`, `queueInputBuffer` |
| `DequeueOutputBuffer`, `CallListener`, `CallbackReturns`, `CallbackThrows` | a packet of the drain loop: prefixing, the null test, the second read and the call, the return |
| `DrainEnds` | a negative index: time-out or format change |
| `ReleaseEncodeCodec` | the failed loop test and `releaseEncodeCodec` |
| `CodecConfigures`, `CodecEncodes` | MediaCodec, modelled from how the code uses it |

A frame is its number, a packet a sequence of NAL units of which type and frame are kept.
`EncSpec` closes the module with a main thread that is in at most one call at a time and
offers no frame to a thread on which it has called `exit`.

### DecodeThread

`dec[d]` likewise. Packets are abstract: the decoder's behaviour depends on the picture
in one, if any, and on whether it has parameter sets. The decoder discards pictures until
it has seen some. `run()` never calls `releaseDecodeCodec` at its end, so the codec goes on.

### Pipeline

EXTENDS `EncodeThread` and instantiates `DecodeThread` with the encoder's packets.
`mEncodeThread` and `mDecodeThread` are the activity's fields; `main` says where the main
thread is between the writes of a `surfaceDestroyed` that other threads can see;
`callback[t]` where encoder thread `t` is in `onEncodeResult`: before the null test, before
the second read, or in the put. A surface callback that creates a thread takes an unused
object, so `Enc` and `Dec` bound the number of restarts. An uncaught exception on any
thread ends the process, as on Android.

Surfaces alternate between created and destroyed, which is Android's contract; the guards
of the creating callbacks say so. A frame the camera posted before it was closed finds
`mEncodeThread` null or, after a restart, is a frame for the new thread; both are covered.

### Rc4, Rc4Video

`S` is the global permutation of NativeRC4.cpp; `locals[p]` holds the locals of thread `p`'s
call and where it is: filling a cell, computing an index, the three assignments of a swap
(through a temporary), putting a byte out. `own[p]` is not in the code: the array the call
would have if it had one of its own. `raced[p]` says that another thread was in a call at
the same time. The key array `T` is global too, but every call fills it with the same
values, so it is a constant. In `Rc4Video` a payload is the set of key streams it was
combined with, so that encrypting twice with one stream is plain again; the encoder
thread's drain loop, the decoder's test of the first NAL type and the click handler are
actions around the calls.

### RingQueue and BoundedFifo

One action per call, and one for each `IllegalStateException`. The refinement reads the
array from `front` around the circle (`Contents`). `outcome` is what the call returned or
threw, in both modules, so the refinement compares answers and not only contents.

### ThreadPool

`running[w]`, `putting[p]`, `interrupted[p]` are the workers, the threads inside `execute`,
and the interrupt flags. A task may submit another (`Child`). `finished`, `submitted`,
`dropped` and `interrupts` are history variables. `put` and `take` throw if the flag is
set when they are entered or while they wait, and clear it.

### MvpApp

Android is external: it keeps the back stack of screens (`task`), runs the lifecycle
methods and the handlers on the main thread, destroys a finished activity some time after
its successor was created, and relaunches an activity when the configuration changes.
`act[a]` is an activity instance with its presenter (`attached` is `mViewRef` holding a
view), `mStack` is `ActivityStackManager`'s stack, `worker[a]` the model thread started for
`a`, `queue` the messages for the two handlers, and `crash[t]` the progress of
`uncaughtException` on a thread.

| Action | Code |
|---|---|
| `LaunchLogin`, `StartPhones`, `Recreate`, `RelaunchCreates` | `BaseActivity.onCreate` of the two activities (`OnCreate`: attach, push, `fetchData` for the list) |
| `Back`, `Finish`, `ConfigurationChanges`, `DestroyFinished` | Android, ending with `onDestroy` up to the test of the stack |
| `PopAtDestroy` | `popActivity` of `onDestroy`: the top of the stack, whoever is destroyed |
| `ToLogin`, `LoginAnswered`, `LoginSends`, `PhonesLoaded` | the presenters' calls of the models and the listeners the models call on their own thread |
| `HandleLogin`, `HandlePhones` | the two `mHandler`s: a view that is gone is a `NullPointerException` |
| `CrashHandled`, `PopAllTests`, `PopAllPops`, `RestartApp` | `CrashManager.uncaughtException`, `popAllActivity`, `restartApp` |

`empty()` and `pop()` of a pop are separate steps for the main thread's `onDestroy`; in
`popAllActivity` the loop's test and the test inside `popActivity` are one step. Its comment
says that it pops all activities; its loop is bounded by a size its body shrinks, so half
of them stay (ActivityStackManager.java:72-79), and the model does the same.

### FloatBall

Everything runs on the main thread, so one step is one handler, but the handlers come in an
order Android and the user choose:

| Action | Code |
|---|---|
| `OnBtnClick` | `MainActivity.onBtnClick`: `startService` or `stopService`, by the activity's `isShow` |
| `ShowBall`, `AskPermission` | `FloatBallService.onCreate`: `createFloatView`, or the settings |
| `RemoveBall` | `onDestroy`: `removeFloatView` |
| `Down`, `Move`, `Up`, `Cancel` | `mTouchListener`: `removeCallbacks`, the drag, docking and `postDelayed` |
| `Hide` | `mRunAction`, three seconds later |
| `WindowGone`, `Rotate`, `Grant`, `Killed`, `Restart` | Android and the user |

`running` is Android's record of the service and `messages` the life cycle calls it has
queued for the main thread. `hides` are the half-hide messages that wait; the one
`mRunAction` refers to is the last. A message belongs to the handler of the view it was posted through;
`late` says that its view has left the window since, so that `removeCallbacks` does
not find it. Of positions only x is kept, where the ball is docked. Starting an
activity from the application's context without `FLAG_ACTIVITY_NEW_TASK` throws on some versions of
Android, so it is a choice whether `AskPermission` throws. `refused` and `disturbed` are
history variables. A rotation creates the activity anew with `isShow` false, so the first
tap after it starts a service that runs; the second stops it. The ball keeps its x,
which may lie outside the turned display; this is why `BallInReach` is stated until then.

### Sorting

In `Algorithms` one class is chosen at the start. A behaviour of `Sorting` is one call: any array, then one of the sorts, and after `SimpleSelectSort` a
binary search. Each method is a function from arrays to arrays. A loop is a recursive function of the
number of its rounds (`pass`, `round`, `shift`, `taken`) over an operator that is one round
(`Compared`, `CloseIn`, `ShiftUp`, `MergeStep`); a `while` loop gets as many rounds as it can need,
and a round after its end changes nothing. `quickSort` and `mergeSort`, which call themselves, are
functions of a call (`Calls`: the array and the two ends). `Halving` stands for both binary searches,
which differ only in being a loop and a recursion. Integers are `int`s: `Negate` and `Pow10`
have Java's results at the ends of the range. `HeapSort.sort` is empty.

### IntArrays, LinkedList, Containers

`array`, `length` are the fields (`Stack`'s `top` is `length - 1`), cells beyond `length`
keep what was there, `call` is the last call with its answer. In `LinkedList` the heap of
nodes is `data` and `next`; each node is created with its own number as data, so that
elements can be told apart, and a node nobody reaches stays in the heap. `held[h]` is a node
a caller got from `findNode` and may pass to `deleteNode(Node)` after any other calls;
`foundAs[h]` and `moved` are history variables. The calls that throw are modelled up to
the exception, so what they have changed by then stays.

### YuvFrames

One action per native function; what it does to every byte is a function of indices with the
expressions of the loops. A frame's byte is the index it had when the camera delivered it,
so the model shows where each byte goes. All five functions set their result into the
Java array and then release its elements with mode 0. If the virtual machine handed out a
copy, that writes the bytes from before the conversion over the result; whether it does is a
choice of each call (Android's does for small arrays, not for the 460800 bytes of the
application). `nativeRotateFrontNV21` lacks `extern "C"`, so Java does not find it and a call
throws. Degrees the interface does not name, for which the frame is filled with what `malloc`
returned, are not passed.

### Mp3Stream, LameEncoder

A frame goes through `BeginFrame` (ResvFrameBegin and the choice of the rate),
`EncodeGranule` for each granule (the bits are any number the loops may spend: their
quantisation is left out), `FrameEnd` (ResvFrameEnd: what is drained before and after it), then
format_bitstream: `PutBits` for what is drained before and for the main data,
`EncodeSideInfo` between the two, `DrainPost`, `FrameDone`. `PutBits` is `putbits2`: it inserts a header when `totbit`
reaches the `write_timing` at the front of the ring. With a variable rate
(`AllocateFrame`) the frame's rate is chosen after its granules. The ring of headers is
the sequence `pending`; each record has a field `start` that is not in the code, where
its main data begins when headers are not counted.

`LameEncoder` has one action per JNI function and one for each turn of the loops of
`lame_encode_buffer_sample_t` and `lame_encode_flush`; `at` says where the call is. Samples
are counted, not kept. `room` is what is left of the caller's array; `copy_buffer`
takes a size of 0 to mean unchecked, and so does the model (`Fits`); after an unchecked copy
the size is negative and the next one fails. The wrapper uses a
constant rate only; the model also has the loops for average and variable rates, which the
library offers.

### JpegScans, JpegTables, JpegEntropy, JpegCompress

An image is a record of what the application sets: size, components with sampling factors
and table numbers, script, restarts, optimization. Sample rows are the tuple of source rows
they were made from and the transform is a constant operator `Coefs`, so that a row that
is lost, repeated or out of place changes the coefficients. One step is:

| Action | Code |
|---|---|
| `SetParameters`, `SuppressTables`, `WriteTables` | `jpeg_set_defaults` and what is set after it, `jpeg_suppress_tables`, `jpeg_write_tables` |
| `StartCompress`, `WriteMarker`, `Abort` | `jpeg_start_compress` with the masters' checks, `jpeg_write_marker`, `jpeg_abort` |
| `WriteScanlines`, `WriteScanlinesReturns`, `Suspend` | `jpeg_write_scanlines`: the call, its return, its return because the destination is full |
| `PreProcessData` | a turn of the loop of `pre_process_data`: rows into the conversion buffer, padded at the bottom |
| `SendIMcuRow`, `CompressMcu`, `IMcuRowCoded` | `process_data_simple_main` with `compress_data` or `compress_first_pass`, an MCU at a time |
| `FinishCompress`, `PreparePass`, `PassFails`, `IMcuRowOutput`, `PassEnds`, `CannotSuspend`, `WriteTrailer` | `jpeg_finish_compress` with `prepare_for_pass` and `finish_pass_master` |

The file is a sequence of markers and of segments of bits. `EncodeMcuHuff`,
`EncodeMcuGather` and `EncodeMcuProgressive` give an MCU's symbols and bits; a pass that
gathers counts them, a pass that writes turns them into bits with the derived tables.
`GenOptimalTable` follows `jpeg_gen_optimal_table`: merging of the two rarest, the
reserved all-ones code, the shortening of codes longer than the limit.

### JpegDecoding, JpegDecompress, JpegFile

The decompressor reads the same sequence. `DecodeMcu` consumes bits until the MCU is
complete, the segment ends (then zeros are supplied and a warning is given), or the data is
late: the MCU is then decoded again from its start (`ConsumeMcu`). Only a refinement scan writes
into the arrays before its MCU is complete; `RefinementSuspended` is that case, with the
coefficients that `decode_mcu_AC_refine` puts back and those it leaves corrected.
`ProcessRestart` has `read_restart_marker` and `jpeg_resync_to_restart` with its window
of two. `JpegFile` lets both objects live on from file to file: plans of two images,
tables in a file of their own, refused images, files that lose a burst of restart
intervals. In a burst the marker before an interval is lost with it. A finished file is
sent before the compressor is used again. `delivered` and `withheld` are not in the code:
what was sent, and whether a file was given up (`jpeg_abort`) or tables were held back
(`jpeg_suppress_tables`) so far.

## Runs

| Run | Instance | Question |
|---|---|---|
| `pipeline_restarts` | 2 encoder threads, 1 decoder with 2 input buffers, queues 1, 3 frames | an abandoned thread overlapping its successor |
| `pipeline_waits` | 1 of each, queues 1, 3 frames, parameter sets | buffers of the decoder, waits through both full queues |
| `thread_parts`: encoder | 1 thread, queue 2, 3 input buffers, 5 frames, second key frame at 3 | accounting, order, callers and exits under every interleaving |
| `thread_parts`: pool | 2 workers, queue 1, 2 callers, 5 tasks (2 nested), 2 interrupts | tasks lost or run twice, lasting waits |
| `thread_parts`: MVP | 3 activity instances, 1 waiting `startActivity` | late answers, late destroys, crashes on any thread |
| `algorithms` | a queue of 3 cells; arrays of 4 cells and 3 ints; a list of 3 nodes and 2 callers that keep one; arrays of up to 5 of 7 ints to sort, `Integer.MIN_VALUE` and `MAX_VALUE` among them; frames of up to 6 by 4 | the queue against its abstract specification, containers and conversions under every sequence of calls, what each sort returns |
| `media_parts`: video | 3 threads, an array of 2 cells, 2 units of video, 2 clicks | which calls are exact, what comes back as plain text |
| `media_parts`: mp3 | 2 rates, frames of 2 granules of 2 samples, a ring of 8 headers, a reservoir of 24 bits, arrays of 3 and of 22 bytes | reservoir, headers, flushes, callers' arrays |
| `jpeg_and_ball`: jpeg | 12 plans of one or two images up to 7 by 6, blocks of 2 by 2 samples with 6 coefficients, codes of up to 5 bits, 3 rows to a call, 2 suspensions, 1 late delivery, bursts of 2 lost intervals | what is written, what comes back, whether a call can hang |
| `jpeg_and_ball`: ball | displays of 4 and 6 by x, a ball of 2, a slop of 1, 2 messages of each kind | crashes, the message against removal and touch, where the ball can be |
| `encoder_shutdown` | 1 of each, 1 frame | violated: the comment on `surfaceDestroyed` |
| `key_frame` | as the encoder | violated: the comment on key frames |
| `radix`, `rotate_270`, `copied_elements` | as `algorithms` | violated: what the comments say of the merge of the negatives, of the degrees and of the array |
| `key_frame_decrypt` | as the video | violated: the comment of the decoder thread on key frames |

Where a run has parts, a part is chosen in the initial state and the others stay in theirs;
each part has its own properties, and those of the others hold of it because
nothing moves.

Bounds. Every unbounded counter is bounded by a named constant: `MaxFrame` (frames the
camera produces), `MaxInterrupts`, and the sets `Enc`, `Dec`, `Task`. Three input buffers
are the fewest with which one is lost to `inputIndex > 0` and two circulate, so that order
among buffers matters; two output buffers the fewest with which the decoder works at all.
Five frames are two more than the buffers and the queue hold before a caller blocks on a
consumer that lost its buffers. Queues of 1 in the pipeline fill up with one element, which
is where the waits begin. Two encoder threads are one restart; an earlier abandoned
thread behaves as the first one, and nothing in the activity counts them. With three frames and two
decoder inputs an abandoned thread can have two pictures left while its successor has one, so that a
second late picture would show. With two workers
and a queue of one, two nested tasks and a plain one starve the pool. Three activity
instances in the life of a process are the fewest for a destroy that comes late, pops the
wrong one and meets a third (`MaxActs`, `MaxStarts`). Five elements give `ShellSort` two
different distances and every loop of the other sorts several rounds; the seven ints have
one, two and ten digits and both signs. Two nodes kept by callers are the fewest for one
call to invalidate the node of the other.

An RC4 array of two cells is the smallest with a swap that matters, and a race between two
threads already reaches every pair of steps; the third thread shows that a raced array is
restored for whoever is alone next. The rest is proved for every size.

For `FloatBall`, a ball of two columns is the smallest with a half; the narrow display holds two
balls and the wide one three, so that a touch ends nearer to either edge of either, and
a ball of the wide display is outside the narrow one. Two half-hide messages are one that
`removeCallbacks` missed and its successor.

For `LameEncoder`, granules bring 1, 11 or 30 bits: fewer than a frame carries, about as many, and
more than the reservoir can add; so the reservoir empties, fills, overflows into drains,
and a header is written in the middle of the main data of a frame two later. Calls bring 5
samples, more than a frame and less than two, into arrays of 3 bytes or of one more than the
worst case.

For `JpegFile`, a block of two by two samples makes a row group, a row of MCUs and the bottom of
the image fall on different lines within six rows; DCTSIZE and DCTSIZE2 are independent
constants, so that six coefficients leave room for a spectral band of five, for runs longer
than a symbol can tell (`MAX_RUN` 2) and for end-of-block runs that are forced out
(`MAX_EOBRUN` 3). The image with a restart after every MCU has twelve of them, so that the number of
the marker wraps. Three rows to a call end in the middle of a row group and are cut at the
bottom. Two suspensions let one row of MCUs be suspended twice, the case
`compress_data` and `process_data_simple_main` handle with a flag. Losses of two intervals
in a row are what `jpeg_resync_to_restart` can tell from corruption; three in a row are
beyond its window, and blocks then move. Losses and late data are met one at a time,
by files that were written without suspension; the file of a suspended compressor is
the same, which `PictureComesBack` shows by reading it.

Deadlock checking is off where the system may stop: all threads done or blocked, or the
process ended; a crash or an overrun array ends it in `LameEncoder`. It is on for `jpeg_and_ball`:
of the files only `Done`, when the plan is finished, may stutter, so a call of either object that could
not go on would be reported; of the ball some step is always possible.

### What the properties say

- `InputAccounting`, `BufferAccounting`: a dequeued buffer is given back, except the one
  with index 0, which `> 0` in place of `>= 0` loses, in both threads.
- `BlockedCallerIsServed`: the test of `isCodecStart` is not stale when its caller blocks in
  `put`. This rests on `exit` and `setFrameData` being called by one thread.
- `InOrder`: in all the places between the camera and the listener (offered, queued, submitted
  to the codec, encoded, being delivered) frames stand in the camera's order, none of them twice.
- `WaitsEnd` (`PutReturns`, `ExitsWhenFed`), `QueueDrains`: the waits that end.
- `CrashNeedsTeardown`: the unsynchronised null tests fail only against the main thread's
  teardown.
- `LateDeliveries`: the pictures that reach a decoder after a newer one are no more than the
  encoder threads abandoned: each of these delivers at most one packet late, because
  `surfaceDestroyed` takes its listener away.
- `EncoderContract`: the pipeline's encoder steps are steps of `EncodeThread`.
- `MainUnblocks`: the main thread's wait ends unless the encoder is blocked behind a
  decoder thread that has returned; that case is real, and is the one way to a lasting wait.
- `AbandonedEncoderSettles`: what can become of a thread told to exit.
- `SoloCallIsExact`: a call of the cipher that no other overlapped gives the RC4 key stream,
  whatever earlier races left in the array.
- `PlainTextComesBack`: a key frame that begins its packet is plain again for the codec if neither
  call on it was raced; parameter sets and slices are never touched; the text comes back after
  every second click. `KeyFramesAreDecrypted`, which asks the same of every key frame, is violated.
- `OnePlace`: a task is in one place from `execute` to its end; what an interrupt makes
  `execute` drop is nowhere else.
- `PoolServes` (`ExecuteReturns`, `AcceptedTaskFinishes`): the pool makes progress unless
  tasks that call `execute` hold every worker.
- `StackCoversScreens`: although `onDestroy` pops whatever is on top, the stack has one
  entry per live activity and every screen is on it.
- `CrashNeedsDestroyedView`: a late answer ends a thread only when an activity is gone.
- `OnlyLateDestroyCloses`: a screen the user did not leave is finished by another's
  `onDestroy` only when that one came late; it then leaves its own entry on the stack.
- `AnswersArrive` (`LoginDialogCloses`, `PhonesAreShown`), `MainDeathRestarts`: the answers
  arrive, and a crash of the main thread ends in a new process although two crash handlers
  may run.
- `IsFifo`: the circular queue.
- `CrashNeedsLateHide`: the service never removes a ball it did not show, nor shows a second one,
  however the button, rotations, kills and restarts follow each other; with the
  permission the only exception is a half-hide message that comes due after the removal.
- `FingerKeepsBall`: under a finger only the finger moves the ball, unless a message outlived
  the window it was posted by.
- `BallInReach`: a part of the ball is on the display after any number of drags and half-hides.
- `BallHides`: a ball that was touched is half hidden in the end, unless it is touched again or
  removed.
- `ComparisonSortsSort`: six sorts return a sorted permutation. `BinaryInsertSort` is only
  shown to keep the elements: it does not sort (`[0, 1]` becomes `[1, 0]`), because its
  halving never compares the last element left.
- `RadixSortResult`: `RadixSort` sorts arrays without negatives; whatever it is given, all cells
  but the last ascend and no element is there more often than before; it throws for the empty array
  and for `Integer.MIN_VALUE` next to another negative, and for nothing else. That every
  element survives, as the comment on the merge has it, is `RadixSortMergesNegatives`, which is violated.
- `SearchesFind`: the searches find what is there and nothing else, those of the containers
  after any calls included.
- `ArrayEdits`: the shift loops of the array containers do what a sequence would,
  `OrderArray.delete` on a full array included: it throws half-way and leaves the last
  element doubled.
- `ListIsSequence`: whatever node a caller passes, a call of `LinkedList` is one edit of a
  sequence. `HeldNodeDeletesItsElement`: a kept node deletes the element it was found
  with, unless that element has been moved to another node by an earlier
  `deleteNode(Node)`; TLC finds the counterexample when that condition is dropped.
- `PicturesKept`: each conversion of an array that is changed in place shows the same picture in
  its new format, and each turn by 90 or 180 degrees the picture turned, luma and both chroma planes, in
  any sequence of calls. `TurnedBy270` and `ReturnedIsConverted` (which asks it of copied arrays
  too) are violated; the application itself turns by 90 only.
- `ReservoirAgrees`: between frames `main_data_begin`, `ResvSize` and what a flush would
  write are the same number, within the limits that the asserts and error messages of
  `format_bitstream` and the loops test.
- `HeadersPointAtTheirData`: a header is never overtaken by the writer, never finds the
  ring full, and its main data begins where `main_data_begin` says.
- `FlushEndsStream`: after a flush every byte is out and the frames hold every sample fed,
  with the delay and half a granule more.
- `BuffersHold`: calls with arrays larger than `WorstCase` never fail, fill their array or overrun
  it; others overrun it only after it was filled exactly, since a size of 0 is left unchecked, and
  mfbuf only after a call that failed, whose samples stay. `WorstCase` is what must be out at the end
  of a call: the tag frame, a full reservoir, the headers that wait behind it, and the frames of
  the call. lame.h asks for 1.25 * num_samples + 7200 bytes, and for 7200 for a flush; at every rate
  LAME offers, within `HeaderBufAssumption`, that is at least 900 bytes more.
- `RowsAccounted`: every source row is still to come, or counted, or taken by the call under
  way, or the one row held back by a suspension, and the count of a call never goes below 0.
- `EveryScanIsWritten`: the passes end with the last scan of the script.
- `CorrectionBitsFit`: the correction bits of blocks that end early leave room for one more
  block, the run of those blocks stays below the value that forces it out, and bits wait only
  while a run does, since `emit_eobrun` sends them with it and not without.
- `PictureComesBack`: a file is read without an error, and without a warning if nothing was
  lost; every block outside a lost interval comes back to the precision its scans send, with
  its quantization table. This is claimed of every file if none was given up and no table held back so
  far, although tables are left out of files that follow others, and of any file if the
  reader has those tables its frame and its scans name and it does not bring (`TablesKnown`).

The violated properties are what a comment says, and PROJECT.json quotes it:
`EncodeThreadShutsDown` (the thread stays in `take()`; the join after the field is set to
null is dead code), `KeyFrameCarriesParameterSets` (`ppsSps` is a local of the loop body),
`RadixSortMergesNegatives` (the merge ends one early: the negative nearest to zero is lost and the
last cell keeps its old value, so `[-12, 4]` becomes `[4, 4]` and the example in the class's `main` is wrong as
well), `TurnedBy270` (turning by 270 degrees, which YuvUtils.java:24 names with 90 and 180, also
mirrors), `ReturnedIsConverted` (elements that are a copy are written back over the result,
and the call reports success) and `KeyFramesAreDecrypted` (a key frame packed behind parameter sets is
taken for what comes first).

### Fairness

Weak fairness for each thread's own steps: the scheduler runs every thread that can run,
and `put` and `take` return when they can. Weak fairness for the codecs: MediaCodec works
on what it was given. The listener returns or throws. Tasks of the pool end. In `MvpApp` the model threads and
crash handlers run, and the main thread serves its queue and ends what it began. That
Android destroys a finished activity is not assumed. In `FloatBall` a half-hide message is handled
three seconds later, since the main thread serves its queue in order of time; nothing
else is assumed. The camera,
the surfaces, the user, callers with something to submit and interrupts owe nothing.
Queue locks are not fair in Java; where several threads contend, only that one of them
gets on is used, and the finite number of frames or tasks does the rest. The specification
of `JpegCompress` says that a call in the library goes on (weak fairness of
`LibraryStep`); the run of `JpegFile` checks the same by looking for deadlocks, and
states no fairness. `Rc4Video`, `LameEncoder` and `Algorithms` have safety properties only.
A specification of several parts assumes the fairness of each; a part that does not run stays in its
initial state, where no action that is to be fair is enabled.

## Proofs

`PipelineProofs`, on `EncodeThread`. Types are not inductive by themselves: `TakeAndQueueInput` writes
`inBuf[inputIndex]`, so the thread in `take()` must be known to hold a buffer. The
invariant is `BufferInv`: the types (`EncTypeOK`) and, for each object, `Accounted` (the thread in
`take()` owns the buffer of its index, no other buffer but 0 is with the client, the codec
owns those in `pending` and each once). Records are proved well typed one field at a
time (`Write_pc` and so on); `AppendOwned` and `TailOwned` say what submitting and encoding
do to the ownership of buffers. From `BufferInv` follow `EncTypeCorrect` and
`BuffersAccounted`. `ServiceInv` adds that `isCodecStart` implies a codec and a running
thread; from it follow `CallerIsServed` and
`CodecIsHeld` (the use of the codec outside its null test, line 85, is safe).

`PipelineProofs`, on `Pipeline`. `ActivityInv` says what the main thread may rely on between its steps:
the current thread was created and not told to exit, and inside a surface callback no put
is pending. With it every step of the pipeline is a step of `EncodeThread` or leaves `enc`
and `shot` alone (`PipelineRefinesEncoder`), so the encoder's theorems hold in the whole
pipeline (`PipelineCallerIsServed`, `PipelineBuffersAccounted`) for any number of restarts.
`DecoderInv` is to the decoder threads what `BufferInv` is to the encoder's: types and, for each
object, `AccountedD`, with the same two lemmas about ownership, now for the output buffers; with
`RefersInv` (the activity's field is null or a decoder) it gives `DecoderBuffersAccounted`.
`CrashOnlyAroundTeardown` needs `TeardownInv`: a thread whose listener or surface was cleared is
no longer the activity's (`ClearedIsAbandoned`; for a decoder there is the moment between the
clearing and the forgetting), and a callback past its null test has seen some decoder
(`UserSawDecoder`), which `mDecodeThread` refers to no more when the second read finds null.

`InOrder` is proved of a frame's stages: `OrderInv` says that each stage holds its frames in
order and all of them before those of the stage behind it, for the offered, the queued, the
submitted, the encoded and the delivered (`FramesKeepTheirOrder`, and `PipelineKeepsOrder` for the
pipeline). `LateDeliveriesBounded` rests on `StreamInv`: an abandoned thread has lost its listener, so
that it delivers no more than the packet it has at hand (`SilentInv`); a frame is with one thread
only, and those of the current thread are newer than all others' (`FlowInv`); each picture behind a
newer one came from an abandoned thread of its own (`LateInv`). The threads created are finitely
many (`CreatedFinite`), and the late pictures are counted by an injection into the abandoned ones.

`ThreadPoolProofs`. `OnePlace` is inductive only with what keeps the places apart: the queue
holds no task twice (`Distinct`), no two of queue, workers and callers hold the same one
(`Apart`), what is in a place was submitted and what was not yet submitted has no trace
(`Tracked`, `Unsubmitted`).
`EveryTaskInOnePlace` holds for every set of workers, callers and
tasks in which nobody submits the same object twice (`OwnObjectAssumption`).

`MvpAppProofs`. Instances are numbered in the order of creation (`BornInOrder`) and pushed when
created, so the stack is sorted (`StackInOrder`) although entries leave it out of turn. A
screen belongs to a live instance or to the one being replaced (`ScreensLive`), each
instance has one (`OneScreenEach`), and the instance in whose `onDestroy` the main thread is has
none unless it is being replaced (`OldIsGone`). `StackCoversScreens` is then kept by every
pop because one entry goes for each activity destroyed, and whatever screen goes with the entry is
finished. A thread the crash handler holds does nothing else, which gives
`OnlyLateAnswersCrash` (`CrashedIsGone`). `LateDestroyCloses` counts: the destroyed activity is one of as
many live ones as there are entries; were every entry left that of an activity alive, there
would be more of those than are alive, so one entry is of a destroyed one, and it is older
than the top because the stack is sorted. Once the crash handler pops (`Popping`) nothing is
claimed of the stack, as in the properties.

`AlgorithmsProofs`. Of the circular queue, `IInv` is the types with `IndicesAgree`.
`RingQueueIsFifo` shows each
call to be a step of `BoundedFifo` on `Contents`, cell by cell and without `%`: an index
passes the end of the array at most once. Of the conversions, `FrameOK` says that a frame's
format is known, its sides even and its array the length its format requires; every call keeps that, a
turn by 90 or 270 degrees because it exchanges the sides. `PicturesAlwaysKept` then compares the
bytes: a conversion keeps the luma and moves each chroma sample to where the new format expects it
(`SamePicture`); a turn by 90 or 180 degrees moves luma bytes and chroma pairs by the functions of
`nativeRotateBackNV21`, which are computed at row and column (`RowAndColumn`, `QuarterPairs`, `HalfPairs`)
and compared with the rotation of a plane (`PlaneTurns`). Of the arrays, `ArraysAlwaysEdit` needs
no more than the types (each shift loop is an insertion in a sequence, a removal, or a removal
that leaves the last element twice), and `ContainAlwaysRight` that the cells of an
`OrderArray` ascend (`InOrder`), even after a `delete` that threw half-way; the halving finds what
is between `left` and `right` (`HalveFinds`, for `BinarySearch` as well: `SearchesAlwaysFind`). Of the list, `ListOK` says that the references lead
from `headNode` through nodes that are all different, with elements that are all different, and
end (`Good`), and that a holder whose element is in the list and was not moved holds the node
that has it (`Holding`). A walk over references is a recursive function, of which is
proved first that it exists (`LoopRuns`, `LoopEnds`, from the least number at which it would
fail) and then that it passes the nodes in order (`WalkFollows`). A node that was deleted
keeps its references: `Good` bounds them too, so that `deleteNode(Node)` of a detached node
leaves the list alone (`GoodDetached`). Of the sorts, `SortsAlwaysSort` says of any array of any length that the result is
`Ordered` (any two elements, not only neighbours) and `Shuffled`: a permutation of the indices
leads from it to the input, which composes from call to call and gives equal counts
(`SameElements`). A loop's recursive function is first shown to exist, and its
invariant then to hold after every round, from the least round that would break it: the greatest
element so far is in place (bubble, selection), all on the left of one pointer and on the right of
the other are on their side of the base (`CloseIn`), the group without the element that is moved is a
shift of the old one (`ShiftUp`). `ShellSort` sorts because its last distance is 1, whatever the
others did. `QuickSort` and `MergeSort` are solved by induction on the size of the part a
call sorts: a call touches nothing outside its part, and a permutation of a part keeps what was
known of all its elements.

`Rc4Proofs`. `Inv` relates the global array to the array of a call's own, step by step, for
a call that is alone (`Matches`), and says that calls that overlap know of each other
(`RacesAreMarked`). `SoloCallsAreExact` is for any number of threads and any size of the
array; `VideoCallsAreExact` carries it to the application, each of whose steps is a step of
`Rc4` or leaves it alone. `PlainTextAlwaysComesBack` needs more than one call: encryption and
decryption, at different times and in different threads, must have seen the same key stream. The
textbook's stream is one sequence, a run (`IsRun`), of which each call sees a beginning
(`ProducedIsUnique`). `KeyStreamInv` says that there is a run as long as any call has come
(`RunGrows`, one step at a time, so that no induction over data is needed) on which all calls and
all encrypted payloads lie that were not raced; two of the same length then were combined with the
same bytes, and the second combination takes back the first.

`LameEncoderProofs`. `StreamInv` has five parts: types; `ReservoirInv`, what the three counts
of the reservoir have in common at each place of a frame; `FrameInv`, what a frame may
carry; `BacklogInv`, how far the headers are ahead of the writer; and `HeaderInv`, that the
headers in the ring lie apart by at least the shortest frame and point at their data. The
ring is never full because main data of one frame is at most `ResvLimit` bits late
(`HeaderBufAssumption`). There is one lemma per action. Every step of the encoder is then shown
to be one of the stream, to empty its buffer or to leave it alone
(`EncoderKeepsStream`), which gives `ReservoirAlwaysAgrees` and `HeadersAlwaysFit` for the
encoder whatever its callers do. `SampleInv` follows the samples: how many are in the
buffer, how many of them were fed and how many are padding; with it `FlushAlwaysEnds`. For
`BuffersAlwaysHold`, `RoomInv` weighs what is left of the array against what is `Owed`, the bits in the
buffer and those that the frames begun so far have still to write, and the longest frame for each
frame still to be begun: writing moves bits within what is owed, a header adds those of its
frame and takes one frame from those to come, a copy takes the same from both sides. At the
start of a call what is owed is bounded because the headers that wait lie apart by at
least the main data of the shortest frame (`RestIsBounded`), and the frames of a flush because
`SampleInv` knows what is in mfbuf (`FlushFramesSuffice`). Looking for this invariant showed that
a bound without the waiting headers is too small for long reservoirs and short frames.

`JpegProofs`. `RowsInv` is what three files count of the same rows: `CountInv` (the sum; a
call takes no more than it was given; the conversion buffer is never left full) and `RowInv`
(where a full row of MCUs can be: between calls only after a suspension, and in a call
that was not suspended before only after it has taken a row, so that the row given back is
there to give). From it follows `RowsAreAccounted` for every image, block size, number
of rows and number of suspensions, for the object alone and in `JpegFile`. `PassInv` gives
the pass that `pass_number` counts from the scan and the kind of pass; from it follows
`EveryScanIsCounted` for every script. The greatest of the sampling factors exists because
they are finitely many (`MaxOfBounded`).

`CorrectionBitsAlwaysFit`, in the same module, is about the entropy encoder. `EntropyInv` joins
`PassInv` with three facts: no call of the encoder is under way after an error, a script is
valid while an image is scanned (so a scan of AC coefficients has a band of at most 63), and the
state is `EntOk`: a sequence of bits, the property, and nothing pending while the encoder is
between scans. The encoder's loops over a band are folds; a step of a fold is shown to keep what
is claimed, and the claim holds for the whole band by the least position at which it could fail
(`UpToInduction`, `FoldExists`, `FoldRuns`), so no induction theorem is needed. Within a block the
bits that wait in BR are at most as many as the coefficients passed (`NextRefinedKeeps`);
`CountEobKeeps` then shows that joining them to the older ones, which left room for
a block, does not overflow, and that the force-out leaves room for the next. It holds for every
script, coefficient, restart interval and limits of the counter and the buffer.

`FloatBallProofs`. `Inv` joins the types with five facts: creations and destructions of the
service alternate and end with Android's record (`Alternate`); a dead process has no
window (`GoneWithProcess`); a service created with the permission has the ball, and
nobody else has (`ServiceHasBall`), from which no removal or addition throws; only the last
half-hide message can still be taken back, and none under a finger (`OneCallback`); a finger is
on the ball and on the display (`FingerOnBall`). `BallStaysInReach`, `FingerAlwaysKeepsBall` and
`CrashAlwaysNeedsLateHide` follow for every size of display and ball and any number of messages.

Assumptions: capacities, buffer counts, bounds and the sizes of blocks are positive (the bound of
interrupts may be 0), no task object is submitted twice, the array's
size is a natural number, a display is at least two balls wide, `Zero` is a value, the preamble is a sequence of format changes
and parameter sets, `null` is no thread; for LAME that a frame holds its side information,
that limits are whole bytes, and the two relations between the constants of the encoder that its
sources rely on: `HeaderBufAssumption` holds for every rate LAME offers but 8 kbit/s in stereo
at 24 kHz with a checksum; the last conjunct of `SamplesAssumption` is 752 <= 864, and
that of its delays 528 <= 752. TLC
evaluates all of them.

Only model-checked: liveness (out of the prover's reach), `RadixSortResult`, whose passes over
ten queues are folds and flattened sequences, and `PictureComesBack`, which needs the inverse of the entropy coders and of the table builder.

## What is left out

- The Java memory model: fields that are not volatile are read as last written. Each loop
  makes blocking calls, which on Android's runtime make the writes visible in practice.
- Exceptions MediaCodec throws besides the `IOException` of its creation; an input buffer
  that is null; `InterruptedException` in the encoder and decoder threads, which nobody
  interrupts.
- Contents of frames, colour formats, bit rates, orientation, layout and logging.
- In the MVP application: the texts and checks of the login form, the adapter, the crash
  log file, activities Android destroys in the background to regain memory, and
  `removeActivity`, `getStackTop` and `isNetworkAvailbale`, which nothing calls.
- `PriorityQueue` (its `insert` is empty, so every other call throws), `CircleLinkedList` and
  `HeapSort`, which are empty.
- What `Array.insert(index, data)` leaves behind is modelled but no property is stated of
  it: it overwrites the element at the index, and at 0 and at the end it moves cells and
  inserts nothing.
- A null task queue in the pool: the first worker's exception ends the process.
- RC4: a key of the caller's own and a null array, which the application does not pass.
- LAME: what samples sound like (the bits of a granule are any number within its
  allowance; that an average rate raises silent granules above their share is not modelled),
  resampling, the free format, the contents of the tags; a failure of
  `lame_init_params` is a choice.
- JPEG: raw data, context rows for smoothing, arithmetic coding, 16-bit quantization tables,
  buffered-image mode, block smoothing, saved markers, cropping and skipping, transcoding.
  Headers and the flush of the first pass find room in the destination. Whether the bytes
  the bit buffer fetched ahead are reported as unread is a choice.
  After a file that was given up, or tables that were held back, the reader may lack tables of a later file,
  of which then nothing is claimed. A plain image compressed after an optimized
  one by the same object is silently coded with the optimal tables of the earlier image
  (jstdhuff.c:29-32, which libjpeg.txt:1108-1109 mentions), and fails when those lack a symbol; the
  plans leave it out.
- HandleJpeg's `compressJPEG` is one application of `JpegCompress`: an optimized image, one
  row to a call, all tables. Its `setjmp` is never jumped to, because it does not set
  `error_exit`: an error ends the process, where the model says that the call failed.

## Plan

Done in this order: the two threads of HandleYUV and the activity around them; the pool and
the MVP application; the containers and sorts; RC4; LAME's buffering and stream; libjpeg's
two objects; FloatBall; the conversions of frames. Proofs followed each. What is left:

1. libjpeg's arithmetic coder as a third entropy coder of `JpegFile`; its lossless transforms.
2. Proofs: `RadixSort`; that the reader inverts the entropy coder (`PictureComesBack`).

# Securecom-Voice: a verification project in TLA+

Securecom-Voice is an Android application for encrypted telephone calls (a fork
of RedPhone). A call is signalled over a TCP/TLS connection to a server, relayed
as UDP datagrams, keyed by a ZRTP handshake between the two phones, and carried
as SRTP packets with Speex audio. The program's own logic is the Java under
`src/src/com/securecomcode/voice/`, to which paths below are relative; the native
library `libredspeex` under `src/jni/` (the voice codec and, from spandsp, a time
scaler, a loss concealer and a play-out buffer) is called by it through JNI.

This project models the parts in which threads, packets and calls can meet in
orders that nobody would write a test for, and the parts of the native library
that keep a state. `PROJECT.json` lists every component, every model-checking run,
the source lines behind every definition, and the hazards with the properties
that cover them.

## 1. Inventory

### The parts of the system and how they interact

```
   user ──intents──► RedPhoneService ──creates, terminates──► CallManager thread
                      │   ▲    ▲  └─ LockManager (sensors)     │  (Initiating-/
                      │   │    └──notify...() (CallStateListener)  Responder-)
        push, SMS ────┘   │                                    │
                          │ hangup, busy                       ├─► ZRTPSocket ─┐
   server ◄──TCP/TLS──► SignalingSocket ◄── SignalManager ◄────┤               │
           (connector,    LineReader)       (worker thread)    └─► CallAudio-  │
   relay  ◄──UDP──► RtpSocket ◄── SecureRtpSocket ◄───────────────  Manager    │
                                        ▲     ▲ ── CallAudioProvider ── speaker│
                                        │     │      └─ codec, time scaler     │
                                        │     └─── codec ── MicrophoneReader   │
                                        └──────────────────────────────────────┘
```

| Part | State it keeps | Operations | Hard because | Correct means |
|---|---|---|---|---|
| ZRTP handshake (`crypto/zrtp`) | protocol state, last packet, retransmit counter, the peer's packets, master secret | one handler per packet, `resendPacket`, `close` | UDP loses, repeats, delays and reorders; `close()` runs on another thread; packets of an earlier call may still arrive; the process may die | both phones have the same keys; a call that connects has them, wherever it is interrupted; negotiation ends |
| Retained secrets (`crypto/zrtp/retained`, `database/RetainedSecretsDatabase`) | per peer: two secrets and a verified mark | derive ids, choose s1, rotate, verify | only one of the phones may get to store; the roles change from call to call | a common secret survives an interrupted call; the mark only vouches for keys somebody compared |
| SRTP stream (`crypto/SecureRtpSocket`, `SecureStream`, `SequenceCounter`) | the 64-bit packet index of each direction | send, receive | only 16 bits travel; wraparound, reordering | every accepted packet decrypts; no keystream is used twice |
| Jitter buffer (`audio/CallAudioProvider`) | frames held, playhead, gap length, playback speed | add a frame, get a frame | late, missing and repeated frames; the playhead moves back | played in order, nothing stays in the buffer, the speed returns to normal |
| Call manager, call audio manager (`call/CallManager` and its subclasses, `audio/CallAudioManager`) | the manager thread's position, `terminated`, references to what it has created, the answer, the devices | `run`, `terminate`, `answer` | `terminate()` comes from any thread at any point; fields are tested without a lock; two threads decide who releases | no audio after hanging up, threads end, devices are released, the other side is told |
| Signal manager (`call/SignalManager`) | an executor queue, `interrupted` | the listener task, `terminate`, `shutdownQueue` | tasks queued behind one that drops the queue | a hangup is sent |
| Call service (`RedPhoneService`) | phone state, current call, busy timer, ringer | one handler per intent, one method per notification | a thread per intent; notifications and timers that outlive a call | one call at a time, and back to idle |
| Wake locks (`call/LockManager` with its listeners) | lock state, keyguard, orientation, proximity | phone state changes, sensor callbacks | callbacks in flight when the call ends | nothing is held when idle |
| Signalling connection (`signaling/*`, `util/LineReader`, `network/LowLatencySocketConnector`) | socket, line buffer, channels | read a signal, race connections | a read ends anywhere; several answers at once | signals arrive as sent; one connection is kept |
| Relay connection (`signaling/NetworkConnector`, `network/RtpSocket`) | datagram socket, time of the last packet | open a port, send, receive, replace the socket | a loop without a bound, a static flag | the attempt ends |
| Microphone (`audio/MicrophoneReader`, `util/Pool`) | `AudioRecord`, a bounded list, a pool of arrays, `terminate` | reader thread, `go`, `terminate` | arrays go back to the pool while in use; the device may be restarted | speech is sent in order; the microphone is off after a call |
| Registration (`registration/RegistrationService`) | executor, challenge, receiver, preferences | attempt, SMS, `shutdown` | the code comes early, late or as the wait ends | no code is lost |
| Bit packer (`jni/bits.c`) | buffer, position, overflow | pack, unpack, write, read | byte borders, buffers of others | a queue of bits |
| Voice codec (`jni/nb_celp.c`, `sb_celp.c`, `SpeexCodec.cpp`, `modes*.c`) | submodes, counters, flags on both sides | encode, decode, control requests | formats written down three times; losses and silence | what is encoded is decoded |
| Searches (`jni/ltp.c`, `cb_search.c`, `vq.c`) | candidate lists | insert, extend | 16-bit arithmetic, swapped lists | the best candidates are kept |
| Time scaler, concealer, play-out buffer (`jni/time_scale.c`, `plc.c`, `playout.c`) | a two-period buffer; a ring; a queue | one call per block | blocks of any length, gaps, late frames | no sample lost, the loop ends, played in order |

Audio output, OTP counter, Java codec wrappers, push and SMS receivers, PSTN
listener, directory, call quality monitor, contacts, activities and the
cryptographic primitives keep little state or are user interface; they are listed
in `PROJECT.json` with the reason.

### How the project was built up

In the order of importance: keys (handshake, retained secrets), the audio under
the keys, the jitter buffer, one call with all its threads, several calls in the
service, the small concurrent parts around them, and the native library. Each
module came with a run, then the safety properties that need no fairness were
proved. Components that share no state are checked together by a module that
chooses one of them per behaviour (`MCPhone`, `MCHandset`, `MCRedspeex`).

## 2. Hazards

The list is in `PROJECT.json`, each entry at the line where it bites, with the
properties that would catch it. Six entries have no property; their notes say
why. In some places the code leaves a window open that no text of the repository
promises to be closed; the models contain the window, and the property is stated
around it (`RestIsClean`, `ReplacedOnlyInWindow`, `MicIsOff`, `SignalsAreRead`,
`WriteReturns`). Such a property does not cover the window itself: where that is the
whole hazard the entry names none, and elsewhere its note says what is left out.

## 3. The models

`map` in `PROJECT.json` gives the lines of every definition. Cryptography is
symbolic throughout: a hash is the tuple of what goes into it, a MAC is its key.

### `RetainedSecretsCalculator`

Pure operators: the ids of a retained secret for each role, the ids a DH packet
carries, `InitiatorS1` and `ResponderS1` (the two `getS1`), `HasContinuity`, and
a reference definition of the secret both should find.

### `ZrtpHandshake` (instantiated by `MCZrtpHandshake`)

Both sockets of one call. `state`, `lastPacket`, `retransmitCount` and the
packets kept by handlers are the fields of `ZRTPSocket` and its subclasses;
`phase` is where the `CallManager` thread is (before, in `negotiateStart`, in
`negotiateFinish`, and how it ended); `handling` is the packet that was
dispatched but whose handler has not run, so that `close()` can come between;
`caching` marks the window in `handleConfirmTwo` after Conf2Ack was sent and
before the secret is stored. There is one action per handler, one for the
timeout (`ResendPacket`), and for the environment `Terminate`, `Close`, `Crash`,
`Lose`, `SendAudio` and `RelayHangup`. The network is a set that delivery does
not empty: every packet may be duplicated, delayed and reordered, and `Lose` may
remove one. It starts with `StalePackets`, whatever an earlier call left.
`HandshakePacket.getType` takes any datagram without the ZRTP prefix for a
Conf2Ack, and so does `GetType`.

### `RetainedSecrets`

Two phones and a sequence of calls. `Cache` is `setRetainedSecret`, `FindS1` is
`getRetainedSecrets` followed by `getS1`, `ConfirmSas` is `setVerified`; a call
may end with both, one or neither phone having stored its secret, and a phone
may be reinstalled. The history variables `shared`, `alone` and `trusted` exist
for the properties only.

### `SecureStream`

One direction of the audio. `Short` is the Java cast, `ConvertNext` is
`SequenceCounter.convertNext`, for shorts of any width. `Send` is
`RtpAudioSender.go` and `SecureRtpSocket.send`, `Receive` is
`SecureRtpSocket.receive` and `RtpAudioReader.go`, `ReceiveForeign` a datagram
whose MAC does not verify. A packet that is decrypted under another index than
it was encrypted under is noise.

### `CallAudioProvider`

The keys of the tree map, the playhead, the last frame played, the parity of the
gap and the playback mode. `AddFrame` is `addFrame`; `GetFrame` is `getFrame`
with all it calls: `discardStaleFrames`, `pullAudio`, `updatePlayRate`. The two
floating-point estimates are nondeterministic.

### `SignalManager` and `CallManager`

`SignalManager` has the operations of the executor queue: `TakeTask`, the
listener's steps, and the closing tasks. `CallManager` EXTENDS it and adds the
threads around it. `pc` is the manager thread of the caller or the callee, one
value per statement at which another thread may interfere. `lock` and `step` are
the service's monitor and the position in `RedPhoneService.terminate()` and
`CallManager.terminate()` of whoever holds it: the service (End, Deny, the
peer's hangup, the busy timer, the 60 second timeout), the manager thread after
an exception, or the listener after one. Fields are tested and used in separate
steps where the code does so, and a `NullPointerException` or
`RejectedExecutionException` outside any handler sets `crashed`. The handshake
and the audio loop are single steps here, with every outcome they can have; the
modules above have their detail.

### `RedPhoneService` and `LockManager` (in `MCPhone`)

`RedPhoneService` is the service over several calls. `SendIntent` starts a thread;
every `Handle...` action is one handler of an intent, run in any order. `stage` is
the position of whoever is in `terminate()`, which releases what it finds in
three steps, while notifications, which change `state` without the monitor, may
run in between. `manager[c]` reduces the manager thread of a call to what it tells
the service: `NotifyCallFresh`, `NotifyCallConnected`, `NotifyFailure` and
`FailureTerminates` (the two halves of a failure notification), `NotifyEnd`,
`NotifyBusy`. `BusyTimeout` is the `terminate()` that `notifyBusy()` posts.
`SessionEquals` compares the server's address as an object, as `SessionDescriptor`
does. `LockManager` is a record with one operator per phone state; the orientation
that the accelerometer's handler has queued or is reporting is part of it.
`late` remembers that something reached the service after the end of its call.

### `SignalReader` (in `MCHandset`)

The bytes of the TCP stream, the buffer of `LineReader` and the parser of signals
on top of it. A read returns any number of the bytes that have been sent. The
server either sends when it likes or waits for each answer (`patient`).

### `LowLatencySocketConnector` (in `MCHandset`)

Addresses that answer, refuse or stay silent; `Select` with its timeout, `Scan` of
one selected key, and what remains open.

### `MicrophoneReader` (in `MCHandset`)

The reader thread (waiting for the device, starting it, reading a frame), the
audio loop (`TakeChunk`, `EncodeChunk`, `AddEncoded`, `SendPair`) and `terminate()`,
statement by statement. A chunk is known by its array; what was read into it by a
number, so that an array handed out twice shows.

### `RegistrationService` (in `MCHandset`)

The executor's thread through one attempt after another (`Steps`), the account
request to the server, `waitForChallenge` with its timeout, the SMS or the
keyboard on the main thread, and `shutdown()` at any point.

### `SpeexBits`, `BitStream`, `BitQueue` (in `MCRedspeex`)

`SpeexBits` is `bits.c` as operators on the structure. `BitStream` uses it in both
of the ways callers do: a stream of whole bytes between a writer and a reader,
and packets closed by a terminator, whose loop is a step of its own. `BitQueue` is
the abstract specification: bits are put and got, first in, first out.
`StreamIsQueue` is the refinement, with `queue <- Unread \o Unwritten`.

### `SpeexModes` and `SpeexCodec` (in `MCRedspeex`)

`SpeexModes` has the submode tables and, separately for each side, the widths of
the fields the quantizers pack and the unquantizers read, besides the decoder's
own table of layer sizes. `SpeexCodec` is an encoder, a packet and a decoder,
either side narrowband or wideband: submode selection by voice activity,
variable bit rate and DTX, the flags that restart the interpolation, control
requests, in-band messages, losses, and the loop of `SpeexCodec.cpp` with its
limits. What the signal analysis finds is an input.

### `TimeScale`, `PacketLossConcealer`, `Playout` (in `MCRedspeex`)

`TimeScale` counts samples; one pass of the loop in `time_scale` is a step, and the
measured pitch is any allowed period. `PacketLossConcealer` knows samples by their
numbers, so that what is repeated in a gap can be compared with what was played.
`Playout` has put and get with fixed and dynamic lengths; the floating-point
integrators' verdict is an input.

### `PitchSearch`, `CodebookSearch` (in `MCRedspeex`)

The two searches that keep lists: the open-loop pitch candidates in 16-bit
arithmetic, and the codebook search over beginnings and continuations. The
correlations and energies the filters measure are inputs; the lists, their
insertion, and the swapping are the code's. `normalize16` and the casts to 16
bits are part of the model.

## 4. The runs

Every run is exhaustive. States are distinct states.

| Run | States | What it checks |
|---|---|---|
| `zrtp_safety` | 234,712 | `TypeOK`, `InitiatorCompletesLast`, `NegotiationEnds`: one loss, `MaxRetransmitCount` 1, `close()`, crashes and relayed hangups anywhere |
| `zrtp_stale` | 862,524 | `KeyAgreement`, `RetainedIsShared`, `ConnectedShareKey`: all eight packets of an earlier call in the network, every combination of retained secrets from one secret, `close()` and crashes anywhere |
| `zrtp_connects` | 18,144 | `BothConnect` under `PromptSpec`: two losses, `MaxRetransmitCount` 2 |
| `call_life` | 26,140 | `NoAudioAfterTerminate`, `ManagerEnds`, `AudioIsReleased`, `CancelIsSignalled`, as caller and as callee |
| `phone` | 2,758,690 | secrets over five calls (`SharedSecretSurvives`, `VerifiedHasLineage`), the SRTP stream (`AudioIsRecovered`, `KeystreamIsFresh`), the service over two calls and three intents (`RestIsClean`, `ReplacedOnlyInWindow`) |
| `handset` | 39,308 | jitter buffer (`PlayedInOrder`, `HeldFramesLeave`), reader (`SignalsAsSent`, `SignalsAreRead`), connector (`FirstAnswerWins`), microphone (`SpeechInOrder`, `MicIsOff`), registration (`NoLostChallenge`) |
| `redspeex` | 598,679 | bit packer (`InBuffer`, `PackedIntact`, `WriteReturns`, `StreamIsQueue`), codec (`PacketDecodes`, `FreshAgrees`, `DtxMeansSilence`), time scaler (`SamplesConserved`, `BufferHolds`, `CallReturns`), concealer (`GapRepeatsHistory`), searches (`PitchesAreBest`, `IndicesFollowTarget`, `ContinuationsAreBest`), play-out (`PlayoutInOrder`) |
| `call_signaling_open` | violation | `SignalingStaysOpen` |
| `call_gives_up` | violation | `ConnectionGivesUp` under `ThreadSpec` |
| `call_hangup_sent` | violation | `QueuedHangupIsSent` under `FairSpec` |
| `call_duplicate` | violation | `DuplicateIgnored` |
| `time_scale_output` | violation | `OutputBounded`, with the application's numbers |

Each property of a passing run has a mutant in `PROJECT.json`: a small change of
the code it is about, for which TLC finds the property violated.

### Bounds, and why they are enough

- `MaxRetransmitCount` (45 in the code) is 0 to 2 and `MaxLosses` 0 to 2. Each
  packet of the handshake can still be lost once, repeated, and given up on;
  the counter is reset by every fresh packet, so a larger limit repeats the same
  steps. The safety properties are proved for every value.
- `Secrets` has at most one earlier secret: two phones have it in the same
  column, in different columns, or only one has it. The choice among all
  possible pairs of secrets is a theorem (`S1Agreement`).
- `MaxCalls` is 5: enough for a common secret to be made, for each phone to
  store alone, for the secret to be lost and made again. Proved for any number.
- `Half` (SRTP) is 8 with 36 packets: the sequence number wraps twice. `MaxAge +
  MaxSilence < Half` states what the code relies on: the 60 second timeout of
  `RtpSocket` is 1,500 packets, half a short 32,768. Proved for every width.
- The service has two calls, three intents, one invitation that may be delivered
  again, and one orientation. Every window is between one call and the next;
  both properties are proved for any number.
- The jitter buffer has two places instead of 25, six sequence numbers and four
  arrivals: overflow, gaps, late frames and repeated ones all occur.
  `MaxPlayhead` stops an idle playhead only behind all frames.
- All safety properties of the parts of `handset` and `redspeex` are proved for
  every value of their constants (section 5), those of the codebook search under
  the hypothesis named there; their bounds matter for liveness and for finding
  mutants.
- `SignalReader` has two signals, cut at every possible byte, with an empty body,
  a short one, and one that is itself CR LF. The connector has three addresses.
  The microphone has five reads and drops a backlog above two. Registration has
  two attempts: the SMS of the first can arrive in the second.
- `BitStream`: fields of 3 and 5 bits, reads of 2 and 7, buffers of one and two
  bytes that grow up to 15 packed bits: every offset in a byte occurs.
- `SpeexCodec`: two frames per packet, DTX refresh after 2 instead of 20, one
  counted loss, one control request between any two packets, the qualities that
  select different submodes. Together with the submodes variable bit rate asks
  for, the frames of all layouts occur on their own and in mixtures. An encoder
  starts with variable bit rate or voice activity detection, not both: nothing
  depends on the latter while the former is on.
- `TimeScale` in `redspeex`: pitch periods of 2 and 3, one and three periods per
  correction, blocks shorter and longer than the buffer. Proved for every value;
  `TimeScaleOutput` takes the numbers of the application.
- `PacketLossConcealer`: history 12, periods 4 to 8, blocks of 2, 5 and 13, which
  covers blocks longer than the ring and all ways to cross its end.
- `Playout`: three stamps, three frames queued, fixed lengths and a dynamic one; the
  dynamic one does play frames again after it has grown, which `PlayoutInOrder` allows
  as far as it has grown and not further.
- `PitchSearch` has shorts from -32 to 31 and a scale of 4 (180 in the code, the
  largest with `(CorrScale + 1)^2 < Half`, as here); three candidates, a list of
  two. `CodebookSearch` has three codewords, three subvectors, and lists of one
  and more.
- `CallManager` has no bounds other than one call: End is pressed at most once
  (it closes the activity) and the peer leaves at most once.

Deadlock is not checked where the system really may stop, that is, when
negotiation or the call is over or the bound on packets, reads or calls is
reached. It is checked in `redspeex`, whose parts never stop.

### Fairness

- `ZrtpHandshake!FairSpec`: each thread inside its loop keeps running;
  `receive()` waits for a millisecond at most. Nothing is assumed of the network.
- `ZrtpHandshake!PromptSpec` adds what `BothConnect` needs and no timer-free model
  can derive: datagrams travel faster than the 150 ms retransmit interval, the
  two sockets back off alike, and nobody hangs up. The losses are bounded, and
  the responder keeps sending audio, which is the only thing that stands in for
  a lost Conf2Ack.
- `CallManager!ThreadSpec`: the manager thread, the signalling worker and whoever
  is in `terminate()` keep running, and the main looper delivers the message
  that `notifyCallConnected()` waits for. The handshake ends by `NegotiationEnds`.
  `setHangup()` is one step, which assumes that the server answers or closes.
- `CallManager!FairSpec`: in addition the relay answers. User, peer and failures
  are never fair.
- `HandsetSpec`: the player keeps asking for frames, and the listener's thread
  runs. The server need not send; what has arrived can be read.
- `MCRedspeex!Spec`: the loops of `speex_bits_insert_terminator` and `time_scale`,
  which wait for nobody, go on.

### What the violations show

- `call_signaling_open`: the comment on `SignalingSocket` (line 82) says the
  signalling connection must stay open during a call; `CallManager.run` closes it
  as soon as the call is connected. The comment is out of date.
- `call_gives_up`: `NetworkConnector.makeConnection` announces a
  `SessionInitiationFailureException` ("Could not connect to server.") that its
  `while(true)` never lets happen. If the relay never answers, the manager thread
  never ends, even after the call was terminated.
- `call_hangup_sent`: when the user ends the call within the half second in which
  `shutdownQueue()`'s closing task is queued or about to run, the hangup is queued
  behind it and dropped by `shutdownNow()`. The peer learns of it only by timeout.
- `call_duplicate`: the branch "Duplicate incoming call signal, ignoring..." of
  `RedPhoneService` line 247 is never taken, because `SessionDescriptor.equals`
  compares `serverIP` with `==`: a second copy of an invitation is answered busy.
- `time_scale_output`: the bound on the output that `time_scale.h` documents, and
  `changeSpeed` tests against, is 294 samples where 320 may be written (the
  application's buffer holds 2048).

## 5. The proofs

TLAPS checks every proof to the last leaf; no step is left out.

| Module | Theorem | From |
|---|---|---|
| `ZrtpHandshakeProofs` | `TypeCorrect`, `KeysAgree`, `RetainedSecretsShared`, `ConnectedAreKeyed`, `InitiatorIsLast` | `BoundsAssumption`, `StaleAssumption`; `InitiatorIsLast` also from `NoStaleAnswer` |
| `CryptoProofs` | `S1Agreement`, `SecretsTyped`, `SecretSurvives`, `VerifiedRowsAreEarned`; `StreamTyped`, `AudioRecovered`, `KeystreamNotReused` | `SecretsAssumption`; `StreamAssumption` |
| `CallManagerProofs` | `AudioStaysOff` | nothing about the environment |
| `RedPhoneServiceProofs` | `PhoneComesToRest`, `CallsAreNotReplaced` | `ServiceAssumption`, `LockAssumption` |
| `HandsetProofs` | `PlaysInOrder`, `RateFollowsMode`, `FirstAnswerAlwaysWins`, `NoChallengeIsLost`, `SpeechAlwaysInOrder`, `MicIsAlwaysOff`, `SignalsAlwaysAsSent` | `ProviderAssumption`, `AddressesAssumption`, `MicrophoneAssumption`, `SignalReaderAssumption` |
| `RedspeexProofs` | `NoSampleLost`, `BufferIsBigEnough`, `PlayedByStamp`, `NeverOutsideBuffer`, `FieldsStayPacked`, `StreamImplementsQueue`, `GapsRepeatHistory`, `PitchesAlwaysBest` | `TimeScaleAssumption`, `PlayoutAssumption`, `BitStreamAssumption`, `PlcAssumption`, `PitchSearchAssumption` |
| `SpeexCodecProofs` | `DeliveredPacketDecodes`, `InterpolationAgrees`, `NoiseMeansSilence` | `SpeexCodecAssumption` |
| `CodebookSearchProofs` | `IndicesAlwaysFollow`, `ContinuationsAlwaysBest` | `CodebookSearchAssumption`, and `StaysBelow(step)` for some `step` |

The assumptions are those on the constants, stated in the module that declares
them; TLC evaluates them in every run. `NoStaleAnswer` is a hypothesis of one
theorem, not an assumption on the module: nothing left over from an earlier call
passes for a Conf2Ack. It is needed (an answer of an earlier call does complete
the initiator), and `zrtp_safety`, which checks the property, has no such packet.

**Handshake.** `KeyAgreement` is not inductive: it speaks of states, and `close()`
replaces a state by TERMINATED while a handler is still running, whose
`setState()` then brings a later state back. `IInv == TypeOK /\ Total /\ Core`
therefore also speaks of the packet being handled. `Core` says when a master
secret exists (`BeforeDH`, `AfterDH`: `handleDH` runs once), that whoever is past
the peer's Confirm agrees with the peer (`PastConfirm => Agreed`), and that the key
of any Confirm packet in the network, being handled or kept for retransmission is
the sender's or does not hash a packet of this call (`ConfirmKeyOK`). The one
assumption about stale packets is that the keys of earlier calls were made with
earlier key pairs. Losses, repetitions and reordering need no case of their own,
because the invariant is about every subset of what was sent.
`InitiatorIsLast` has an invariant of its own, `AnswerInv`: whatever the
initiator could take for an answer, be it in the network, kept for
retransmission or being handled, exists only when the responder is done, and a
responder that is done has no handler left that could undo it.
`ConnectedShareKey` says that a call which goes on to its audio holds the key the
peer holds and has stored it. It is not enough that a socket past a Confirm packet
agrees with its peer: a loop also ends in TERMINATED, without a key, and the callee
completes before it stores one. `KeyedInv` says that TERMINATED is only seen once
`terminated` is set, because `terminate()` sets it before it closes the socket, and
that a socket that has completed has no handler running and has stored its key or
is about to (`Stored`).

**Retained secrets.** `IInv` says how the rows relate to the history: what is
stored is ordered by call, a call both have stored is still in both rows while
neither has stored two alone (`SharedKept`), and what a row holds is trusted when
its mark says so, also for the row as it will be when the present call is stored
(`RowsTrusted`, `ContinuityTrusted`).

**SRTP.** `ConvertNextIsExact`: if a number differs from the current index by less
than half the range, `ConvertNext` finds it from its low bits. The invariant
keeps sender, receiver and every packet in transit within that distance.

**Jitter buffer.** Whatever `pullAudio` decodes is in the buffer
`discardStaleFrames` has left, hence not before the last frame played. Every way
out of the fast and the slow mode sets the speed together with the mode.

**Call.** Once `terminate()` has been past the audio, `terminated` is set; a
manager thread beyond its second test then had a `CallAudioManager` at that time,
which was told (`AudioKnowsEnd`), and one before it stops at the test.

**Service.** `RestIsClean` speaks of the moment when `terminate()` is over;
`Silenced` and `Cleared` say what its first steps have reached, and that nobody
but a late notification undoes it. `Window` says that a call with an idle phone
has a manager thread that is failing, which is what a new call needs to get past
`isBusy()`. The locks enter through lemmas about each operator of `LockManager`.

**Connector.** Until a scan ends the race, a channel is closed only because it was
refused (`ClosedWhenRefused`), and a key that was selected stays valid until it is
scanned (`SelectedAnswered`); so what is left open at the end is what answered.

**Registration.** The receiver is registered before the account is asked for
(`ListensWhileWaiting`), hence an SMS cannot come before it (`NotHeardBefore`), and
one that came is remembered until the wait finds it (`HeardIsKept`), unless the
user has left.

**Microphone.** An array is in one place at a time: the pool, the reader's hand, the
list, or the audio loop (`ArraysApart`). `ListInOrder` orders what these arrays
hold from the reader to the queue; without `ArraysApart` the reader could write
over a frame that waits. After `terminate()` the pool's promise is void, which is
why both parts end there. `Terminating` is the position of `terminate()` together
with what the reader can still do behind it.

**Signal reader.** `ReaderIInv` says that there is a stream of bytes, the signals sent
so far one behind the other, and a position in it, such that `baos` and the wire
hold what follows the position (`Follows`) and the listener's place among request
line, headers and body belongs to it (`Taken`). A read moves bytes from the wire
to `baos`, a line or a body moves the position. A CR LF in a body is no line
end, because no line is looked for before the position has passed the body.

**Time scaler.** Inside the loop the buffer is full (`FullInLoop`), so a pass copies
or drops whole periods, which fit (`PeriodFits`); the four counts then change
together.

**Play-out buffer.** A buffer that adapts sets its clock back by what it grows and
forward by what it shrinks. `ClockAhead`: clock and length together never fall behind
what they were when a frame was played, and the length of a fixed buffer does not
change. So what is stamped less than a frame length after that frame, less the
growth since, is late and is dropped; in a buffer that has not grown this includes
the same frame come twice.

**Bit packer.** `BitIInv` describes the writer (position and count agree, a byte of
zeros lies ahead), the reader (whole bytes only), the positions that
`speex_bits_write` puts back, and the contents: as long as no terminator was left
in an unfinished byte (`dirty`), what lies before the position is what was packed
and what lies behind it is zero, which is what makes `|=` write the bits. TLC
checked it on 2.2 million states of a larger instance before it was proved. For
the refinement every action is a step of `BitQueue` or leaves
`Unread \o Unwritten` as it is; the lemmas are about cutting and joining sequences.

**Loss concealer.** `Heard` says that the ring, read from its oldest sample, is what
was played last, for a clock that counts modulo `Wrap`; `GapTidy` ties the offset in
the period to the number of synthetic samples. A block longer than the ring, one
that crosses its end, and one that does not are three cases of one lemma.

**Pitch search.** `ShiftScales` is the lemma about `normalize16`: after as many
halvings as it takes, a value is at most the scale and, rounded down, at least
its negative minus one. So no product of the comparison leaves a short, and the
cast loses nothing (`Word16Exact`). `PitchIInv` then says what the list holds after
`i - 1` periods: entries of those periods, empty ones behind them (which every
period beats), in order, and every period that is not in the list is no better
than the last entry. The comparison is an order only because energies are
positive (`AtLeastTransitive`). The halvings are written with the recursive
function `Pow2`, which the provers can unfold; `2^s` they cannot.

**Induction over data.** A property of all numbers is proved by a least
counterexample (`NatMin`), which the library's theorem on well-founded sets gives
without an operator parameter: that is how `Pow2`, the largest value of a list, the
last frame of a queue and the lists of the codebook search are dealt with. Folds
take an operator as a parameter, and what they compute cannot be proved this way;
the two loops of the codebook search are therefore written as recursive functions.

**Codebook search.** `BestOf` says that the first `n` places of a list hold different
candidates, in order, and that one that is not among them is no better than the
last place of a full list; `InsertKeepsBest` is the lemma about one insertion that
`vq_nbest` and the merging loop share. `NBestFound` follows for the first, by the
number of codewords scanned, and `BeginningMerged` for the second, by the number of
entries merged. The merging loop has no count of its own: what is not filled yet is
marked by the distance `VERY_LARGE32`, and the loop stops at the first entry that is
not better than the last of the list. Both are right only if no path is as long as
that mark and if `vq_nbest` returns in order, which is why `StaysBelow(step)` (a
subvector adds at most `step`, and all subvectors together stay below the mark) is a
hypothesis of both theorems. The run's constants satisfy it with `step = 6`. The
invariant `SearchIInv` says of the beginnings that they are coded by their indices,
and of the list that it keeps the best continuations of the beginnings tried so far.

**Codec.** Three things written down separately have to agree: the widths the
quantizers pack, the widths the unquantizers read, and the decoder's table of layer
sizes. The proof follows the bits, in five groups of lemmas.

1. *Bits.* What a sequence of packed fields appends (`Holds`), what writing makes of
   it, and what a read at a place returns, with no field past the end.
2. *Frames.* `LowLen` and `LayerLen` give the length of a block for every submode;
   `FrameAt` says which bits of it are fixed: the wideband bit, the submode, and in
   submode 1 the four bits by which a decoder knows silence. The other fields may
   hold anything.
3. *Packets.* `Layout` names the place of each frame; the first follows either
   nothing or a stereo message. `Ends` describes the terminator. Behind each frame
   is a zero (`NextZero`), which a search for another layer takes for none.
4. *Reading.* At such a place the search of `nb_decode` skips a message, and for a
   narrowband decoder the layer of the frame before; the low band then ends where
   the layer begins (`BehindIn`), and `sb_decode` ends where the next frame does.
5. *Marks.* What an encoded and a decoded frame do to the flags of both sides.

`CodecIInv` is inductive, `PacketDecodes` is not: that frames are decoded as they
were encoded needs to know what the packet is at each phase and where the decoder
stands in it (`PacketOK`), which for a narrowband decoder depends on the layers
behind it (`Stands`). `OneSubmode` says why the application's packets, which have
no terminator, end with their last frame: each of its frames is 160 bits, a whole
number of bytes. `NarrowSent` says that no layer is expected where none was written.
`SilenceCounts` says that a frame taken for silence has no fields or the one by which
the decoder sees it. `SentChain` and `Agreement` compare the marks: the decoder's next
frame must follow the mark that `NextFresh` finds, in the encoder while nothing is
under way, in the frames of the packet otherwise, because the encoder is ahead of
the decoder by a packet. TLC checked `CodecIInv` on 168,249 states before it was
proved. `MaxLost` has to be positive, as `count_lost` in the code is without a bound:
a counter that stayed at zero would forget that a packet was lost.

**Only model-checked:** everything about liveness (`NegotiationEnds`, `BothConnect`,
`HeldFramesLeave`, `ManagerEnds`, `AudioIsReleased`, `CancelIsSignalled`,
`SignalsAreRead`, `WriteReturns`, `CallReturns`), which the prover cannot treat. Every
safety invariant and every action property of a passing run is stated by a theorem.

## 6. Not modelled, and why

- Packet layouts, CRCs, the legacy header variant and the choice between the two
  key agreements: fixed when both ends run this code.
- AES, HMAC, Diffie-Hellman, the words of the short authentication string: symbolic.
- The signal processing of the codec: filters, LPC and LSP arithmetic, windows,
  codebooks, gains, the echo canceller, the preprocessor and the FFT (the last
  three are under `jni/` but `Android.mk` does not compile them), and the spandsp
  headers without code. They compute numbers from numbers; the models take the
  results as inputs and keep the control around them.
- `RtpSocket`'s thread that opens a new datagram socket while no packet has
  arrived for 1 to 60 seconds, beyond the timeout it ends with; nothing says
  when it has to stop (see the hazard).
- Two readers on one `LineReader` (`setHangup()` while the listener waits), and
  messages without a length: the server's behaviour is not in the repository.
- Windows in which nothing is promised and which have no property: a listener
  whose server has closed the connection goes on asking; the connector's timeout
  leaves channels open; an SMS of an earlier attempt may be taken for the
  present one; a registration may be reported failed after `markAsVerified()`; a
  callee may deny a call before its `SignalManager` exists; a message may be put
  in the service's buffer behind the activity's back.
- Statistics, logging, call quality upload, directory download, activities,
  resources, generated protocol buffer code: no concurrency or protocol of their
  own that the properties are about.

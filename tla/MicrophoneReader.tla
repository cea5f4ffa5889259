--------------------------- MODULE MicrophoneReader --------------------------
(***************************************************************************)
(* audio/MicrophoneReader.java with util/Pool.java: a thread reads frames  *)
(* from the AudioRecord into a list; the audio loop of the call encodes    *)
(* them, and sends them in pairs (network/RtpAudioSender.java).  The       *)
(* arrays are used again.                                                  *)
(*                                                                         *)
(* A chunk is known by a number, its samples by the number of the read     *)
(* that filled them.  The singleThread preference is off, and nobody but   *)
(* terminate() stops the device.                                           *)
(***************************************************************************)
EXTENDS Integers, Sequences, SequencesExt

CONSTANTS Chunks,     \* objects the pool may come to hold
          Backlog,    \* 50: more frames than this in the list are dropped
          MaxReads    \* bound on the reads

audioChunksPerPacket == 2

ASSUME MicrophoneAssumption ==
  /\ Chunks \subseteq Nat \ {0} /\ Backlog \in Nat /\ MaxReads \in Nat

VARIABLES device,       \* audioSource: "new" (uninitialized), "ready", "recording", "released"
          micStarted, terminate,
          mic,          \* where the reader thread is
          samples,      \* of each chunk, the read that filled it last
          label,        \* of each chunk, its sequenceNumber
          pool, micAudioList,
          hand,         \* the chunk the reader thread fills; 0 is none
          reads,        \* sequenceNumber
          loop,         \* where the audio loop is
          taken,        \* the chunk it encodes
          encoded,      \* what it has encoded
          audioQueue,   \* frames to be sent: [samples, label]
          last,         \* samples of the last frame that was sent
          step,         \* statements of terminate() that are done
          met           \* terminate() has met the reader starting the device

devVars == <<device, micStarted, terminate, mic>>
chunkVars == <<samples, label, pool, micAudioList, hand, reads>>
loopVars == <<loop, taken, encoded, audioQueue, last>>
mvars == <<devVars, chunkVars, loopVars, step, met>>

MicInit ==
  /\ device \in {"new", "ready"}
  /\ micStarted = FALSE /\ terminate = FALSE /\ mic = "off"
  /\ samples = [c \in Chunks |-> 0] /\ label = [c \in Chunks |-> 0]
  /\ pool = <<>> /\ micAudioList = <<>> /\ hand = 0 /\ reads = 0
  /\ loop = "idle" /\ taken = 0 /\ encoded = 0 /\ audioQueue = <<>> /\ last = 0
  /\ step = 0 /\ met = FALSE

-----------------------------------------------------------------------------
(* The reader thread                                                        *)

\* run(): the flag is tested before each read.
TestFlag ==
  /\ mic = "loop"
  /\ mic' = IF terminate THEN "ended" ELSE IF micStarted THEN "check" ELSE "prepare"
  /\ micStarted' = IF terminate THEN micStarted ELSE TRUE
  /\ UNCHANGED <<device, terminate, chunkVars, loopVars, step, met>>

Initialized == device \in {"ready", "recording"}

\* waitForMicReady: a device that is not initialized is replaced by a new one,
\* until that succeeds or the reader gives up.
WaitForMicReady ==
  /\ mic = "prepare"
  /\ \/ Initialized /\ mic' = "start" /\ UNCHANGED <<device, terminate>>
     \/ ~Initialized /\ device' \in {"new", "ready"} /\ UNCHANGED <<mic, terminate>>
     \/ ~Initialized /\ mic' = "ended" /\ terminate' = TRUE /\ UNCHANGED device
  /\ UNCHANGED <<micStarted, chunkVars, loopVars, step, met>>

\* startRecording() of a device that was released meanwhile kills the process.
StartRecording ==
  /\ mic = "start"
  /\ IF Initialized THEN device' = "recording" /\ mic' = "check"
                    ELSE mic' = "killed" /\ UNCHANGED device
  /\ UNCHANGED <<micStarted, terminate, chunkVars, loopVars, step, met>>

\* A device that does not record is started again in the next round.
CheckRecording ==
  /\ mic = "check"
  /\ micStarted' = (device = "recording")
  /\ mic' = "read"
  /\ UNCHANGED <<device, terminate, chunkVars, loopVars, step, met>>

InUse == Range(pool) \cup Range(micAudioList) \cup {hand, taken}

\* getItem: a chunk of the pool, or a new one.
GetItem ==
  /\ mic = "read" /\ hand = 0
  /\ IF pool # <<>> THEN hand' = Head(pool) /\ pool' = Tail(pool)
                    ELSE /\ \E c \in Chunks \ InUse :
                              hand' = c /\ \A d \in Chunks \ InUse : c <= d
                         /\ UNCHANGED pool
  /\ UNCHANGED <<devVars, samples, label, micAudioList, reads, loopVars, step, met>>

\* read() and the number of the frame; a device that does not record leaves the
\* samples as they are.
ReadFrame ==
  /\ mic = "read" /\ hand # 0 /\ reads < MaxReads
  /\ reads' = reads + 1
  /\ samples' = IF device = "recording" THEN [samples EXCEPT ![hand] = reads + 1] ELSE samples
  /\ label' = [label EXCEPT ![hand] = reads + 1]
  /\ mic' = "add"
  /\ UNCHANGED <<device, micStarted, terminate, pool, micAudioList, hand, loopVars, step, met>>

AddChunk ==
  /\ mic = "add"
  /\ micAudioList' = Append(micAudioList, hand) /\ hand' = 0
  /\ mic' = "loop"
  /\ UNCHANGED <<device, micStarted, terminate, samples, label, pool, reads, loopVars, step, met>>

MicThread ==
  TestFlag \/ WaitForMicReady \/ StartRecording \/ CheckRecording
    \/ GetItem \/ ReadFrame \/ AddChunk

-----------------------------------------------------------------------------
(* The audio loop                                                           *)

\* go(): starts the thread the first time, drops a backlog.  When the reader
\* has given up it throws, which ends the loop.
Go ==
  /\ loop = "idle" /\ mic # "ended"
  /\ mic' = IF mic = "off" THEN "loop" ELSE mic
  /\ micAudioList' = IF Len(micAudioList) > Backlog THEN <<>> ELSE micAudioList
  /\ loop' = "take"
  /\ UNCHANGED <<device, micStarted, terminate, samples, label, pool, hand, reads,
                 taken, encoded, audioQueue, last, step, met>>

\* The oldest chunk, as long as a packet is not full.
TakeChunk ==
  /\ loop = "take"
  /\ IF micAudioList # <<>> /\ Len(audioQueue) < audioChunksPerPacket
     THEN /\ taken' = Head(micAudioList) /\ micAudioList' = Tail(micAudioList)
          /\ loop' = "encode"
     ELSE loop' = "send" /\ UNCHANGED <<taken, micAudioList>>
  /\ UNCHANGED <<devVars, samples, label, pool, hand, reads, encoded, audioQueue, last, step, met>>

\* Mutant: the chunk goes back to the pool before it is encoded.
ReturnedEarly(at) == at = "encode"

\* The chunk goes back to the pool behind codec.encode().
Returned(at) == at = "return"

AfterEncode(at) == IF at = "encode" THEN "return" ELSE "add"

\* codec.encode() and returnItem(), one after the other.
EncodeChunk ==
  /\ loop \in {"encode", "return"}
  /\ IF Returned(loop) THEN pool' = Append(pool, taken) /\ UNCHANGED encoded
                       ELSE encoded' = samples[taken] /\ UNCHANGED pool
  /\ loop' = AfterEncode(loop)
  /\ UNCHANGED <<devVars, samples, label, micAudioList, hand, reads, taken, audioQueue, last,
                 step, met>>

\* The number is read from a chunk that is back in the pool.
AddEncoded ==
  /\ loop = "add"
  /\ audioQueue' = Append(audioQueue, [samples |-> encoded, label |-> label[taken]])
  /\ taken' = 0 /\ encoded' = 0
  /\ loop' = "take"
  /\ UNCHANGED <<devVars, chunkVars, last, step, met>>

\* RtpAudioSender.go: both frames of a full packet.
SendPair ==
  /\ loop = "send"
  /\ IF Len(audioQueue) >= audioChunksPerPacket
     THEN /\ last' = audioQueue[audioChunksPerPacket].samples
          /\ audioQueue' = SubSeq(audioQueue, audioChunksPerPacket + 1, Len(audioQueue))
     ELSE UNCHANGED <<last, audioQueue>>
  /\ loop' = "idle"
  /\ UNCHANGED <<devVars, chunkVars, taken, encoded, step, met>>

\* The call has ended, or go() has thrown: the loop calls terminate().
EndLoop ==
  /\ loop = "idle" /\ loop' = "terminate"
  /\ UNCHANGED <<devVars, chunkVars, taken, encoded, audioQueue, last, step, met>>

\* Mutant: the device is released before the thread is told.
StatementsLate == <<"release", "flag">>

\* The statements of terminate().
Statements == <<"flag", "release">>

Starting == mic \in {"prepare", "start"}

\* One statement; a device that is not initialized is left as it is.
Terminate ==
  /\ loop = "terminate" /\ step < Len(Statements)
  /\ step' = step + 1
  /\ IF Statements[step + 1] = "flag"
     THEN terminate' = TRUE /\ UNCHANGED device
     ELSE device' = (IF Initialized THEN "released" ELSE device) /\ UNCHANGED terminate
  /\ met' = (met \/ Starting)
  /\ UNCHANGED <<micStarted, mic, chunkVars, loopVars>>

AudioLoop ==
  Go \/ TakeChunk \/ EncodeChunk \/ AddEncoded \/ SendPair \/ EndLoop \/ Terminate

MicNext == MicThread \/ AudioLoop

MicSpec == MicInit /\ [][MicNext]_mvars

-----------------------------------------------------------------------------
(* Properties                                                               *)

\* The frames in the queue follow the one that was sent last, in the order they
\* were spoken and none twice, although their arrays come from a pool that both
\* threads use and a backlog is dropped in between (go(), readFromMic()).
SpeechInOrder ==
  LET heard == <<last>> \o [k \in DOMAIN audioQueue |-> audioQueue[k].samples]
  IN \A k \in 1 .. Len(heard) - 1 : heard[k] < heard[k + 1]

\* After terminate() and the end of the reader thread the microphone is off,
\* unless terminate() met the thread between its test of micStarted and
\* startRecording().  It would be on again if the thread were told only after
\* the device was released.
MicIsOff ==
  loop = "terminate" /\ step = Len(Statements) /\ mic = "ended" /\ ~met =>
    device # "recording"
=============================================================================

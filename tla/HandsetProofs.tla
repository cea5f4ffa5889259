---------------------------- MODULE HandsetProofs ----------------------------
(***************************************************************************)
(* Five threads of the application that share no state with each other,    *)
(* each with its other side: the jitter buffer, for streams and buffers of *)
(* any size, the connector, for any set of addresses, the registration,    *)
(* for any number of attempts, the microphone, for any number of reads and *)
(* chunks and any backlog, and the listener for signals, for any bodies    *)
(* and any cuts of the stream.                                             *)
(***************************************************************************)
EXTENDS CallAudioProvider, LowLatencySocketConnector, RegistrationService, MicrophoneReader,
        SignalReader, SequenceTheorems, TLAPS

-----------------------------------------------------------------------------
(* The jitter buffer                                                        *)

(* The types the proof needs.                                              *)
FramesOK == audioFrames \subseteq Nat /\ lastGoodFrame \in Nat

(* pullAudio only sees frames that discardStaleFrames has left, so it      *)
(* plays none before the last one played.                                  *)
LEMMA PulledIsNotStale ==
  ASSUME FramesOK
  PROVE  LET p == Pulled(Discarded)
         IN  /\ p.frames \subseteq Nat
             /\ p.lastGood \in Nat
             /\ p.lastGood >= lastGoodFrame
<1> DEFINE d == Discarded
<1>1. d.frames \subseteq {f \in audioFrames : f >= lastGoodFrame}
  BY DEF Discarded, Newest, NotStale
<1>2. CASE Decodes(d)
  <2>1. PlayheadAt(d) \in d.frames
    BY <1>2 DEF Decodes
  <2>2. /\ Pulled(d).frames = d.frames \ {PlayheadAt(d)}
        /\ Pulled(d).lastGood = PlayheadAt(d)
    BY <1>2 DEF Pulled
  <2> HIDE DEF d
  <2>3. /\ Pulled(d).frames \subseteq Nat
        /\ Pulled(d).lastGood \in Nat
        /\ Pulled(d).lastGood >= lastGoodFrame
    BY <1>1, <2>1, <2>2 DEF FramesOK
  <2> QED BY <2>3 DEF d
<1>3. CASE ~Decodes(d)
  <2>1. Pulled(d).frames = d.frames /\ Pulled(d).lastGood = lastGoodFrame
    BY <1>3 DEF Pulled
  <2>2. lastGoodFrame \in Nat /\ lastGoodFrame >= lastGoodFrame /\ audioFrames \subseteq Nat
    BY DEF FramesOK
  <2> HIDE DEF d
  <2>3. /\ Pulled(d).frames \subseteq Nat
        /\ Pulled(d).lastGood \in Nat
        /\ Pulled(d).lastGood >= lastGoodFrame
    BY <1>1, <2>1, <2>2
  <2> QED BY <2>3 DEF d
<1> QED BY <1>2, <1>3

LEMMA NextFramesOK ==
  ASSUME FramesOK, [Next]_vars
  PROVE  FramesOK' /\ (lastGoodFrame' # lastGoodFrame => lastGoodFrame' >= lastGoodFrame)
<1>1. CASE GetFrame
  <2>1. audioFrames' = Pulled(Discarded).frames
        /\ lastGoodFrame' = Pulled(Discarded).lastGood
    BY <1>1 DEF GetFrame, Play
  <2> QED BY <2>1, PulledIsNotStale DEF FramesOK
<1>2. ASSUME NEW s \in 0..MaxSequence, AddFrame(s)
      PROVE  FramesOK' /\ lastGoodFrame' = lastGoodFrame
  BY <1>2, ProviderAssumption DEF AddFrame, FramesOK
<1>3. CASE UNCHANGED vars
  BY <1>3 DEF vars, playVars, FramesOK
<1> QED BY <1>1, <1>2, <1>3 DEF Next

(* CallAudioProvider plays in order whatever the network does, for every   *)
(* buffer size and gap length.                                             *)
THEOREM PlaysInOrder == Spec => PlayedInOrder
<1>1. Init => FramesOK
  BY DEF Init, FramesOK
<1>2. FramesOK /\ [Next]_vars => FramesOK'
  BY NextFramesOK
<1>3. FramesOK /\ [Next]_vars => [lastGoodFrame' >= lastGoodFrame]_vars
  BY NextFramesOK DEF FramesOK
<1> QED BY <1>1, <1>2, <1>3, PTL DEF Spec, PlayedInOrder

-----------------------------------------------------------------------------
(* Mode and rate, as one value.                                            *)
GoodRate(r) ==
  \/ r.mode = "RATE_NORMAL" /\ r.rate = 100
  \/ r.mode = "RATE_BIG" /\ r.rate = 50
  \/ r.mode = "RATE_LITTLE" /\ r.rate \in {95, 105}

LEMMA GoodRates ==
  /\ GoodRate(Rate("RATE_NORMAL", 100)) /\ GoodRate(Rate("RATE_BIG", 50))
  /\ GoodRate(Rate("RATE_LITTLE", 95)) /\ GoodRate(Rate("RATE_LITTLE", 105))
BY DEF GoodRate, Rate

(* Each condition of updatePlayRate replaces mode and rate together, or    *)
(* neither.                                                                *)
LEMMA UpdateIsGood ==
  ASSUME GoodRate(Rate(shiftMode, playRate)), NEW frameDelay, NEW desired, NEW average
  PROVE  GoodRate(UpdatePlayRate(frameDelay, desired, average))
<1> HIDE DEF GoodRate, Rate
<1> QED BY GoodRates DEF UpdatePlayRate, GlutOver

LEMMA GoodIsMatch == GoodRate(Rate(shiftMode, playRate)) => RateMatchesMode
<1> SUFFICES ASSUME GoodRate(Rate(shiftMode, playRate)) PROVE RateMatchesMode
  OBVIOUS
<1>1. \/ shiftMode = "RATE_NORMAL" /\ playRate = 100
      \/ shiftMode = "RATE_BIG" /\ playRate = 50
      \/ shiftMode = "RATE_LITTLE" /\ playRate \in {95, 105}
  BY DEF GoodRate, Rate
<1> QED BY <1>1 DEF RateMatchesMode

(* CallAudioProvider.updatePlayRate never leaves the rate of another mode, *)
(* whatever delays it meets.                                               *)
THEOREM RateFollowsMode == Spec => []RateMatchesMode
<1> DEFINE Inv == GoodRate(Rate(shiftMode, playRate))
<1>1. Init => Inv
  BY GoodRates DEF Init
<1>2. Inv /\ [Next]_vars => Inv'
  <2> SUFFICES ASSUME Inv, [Next]_vars PROVE Inv'
    OBVIOUS
  <2>1. CASE GetFrame
    <3>1. PICK delay, desired, average :
            /\ shiftMode' = UpdatePlayRate(delay, desired, average).mode
            /\ playRate' = UpdatePlayRate(delay, desired, average).rate
      BY <2>1 DEF GetFrame, AdjustRate
    <3>2. GoodRate(UpdatePlayRate(delay, desired, average))
      BY UpdateIsGood
    <3> QED BY <3>1, <3>2 DEF GoodRate, Rate
  <2>2. ASSUME NEW s \in 0..MaxSequence, AddFrame(s) PROVE Inv'
    BY <2>2 DEF AddFrame, rateVars, GoodRate, Rate
  <2>3. CASE UNCHANGED vars
    BY <2>3 DEF vars, rateVars, GoodRate, Rate
  <2> QED BY <2>1, <2>2, <2>3 DEF Next
<1>3. Inv => RateMatchesMode
  BY GoodIsMatch
<1> QED BY <1>1, <1>2, <1>3, PTL DEF Spec

-----------------------------------------------------------------------------
(* The connector                                                            *)

ConnectTypeOK ==
  /\ answer \in [Addresses -> {"none", "accepted", "refused"}]
  /\ valid \subseteq Addresses /\ open \subseteq Addresses /\ selected \subseteq Addresses
  /\ stage \in {"select", "scan", "done"}
  /\ result \in Addresses \cup {"none", "timeout", "failed"}

(* Until it is done, a channel is closed only because it was refused, and   *)
(* a key that was selected is valid until it is scanned.                    *)
ClosedWhenRefused ==
  stage # "done" =>
    /\ result = "none" /\ open = valid
    /\ \A a \in Addresses \ valid : answer[a] = "refused"

SelectedAnswered ==
  stage = "scan" => selected \subseteq valid /\ \A a \in selected : answer[a] # "none"

ConnectIInv ==
  ConnectTypeOK /\ ClosedWhenRefused /\ SelectedAnswered /\ FirstAnswerWins

LEMMA InitConnectIInv == ConnectInit => ConnectIInv
BY AddressesAssumption
   DEF ConnectInit, ConnectIInv, ConnectTypeOK, ClosedWhenRefused, SelectedAnswered,
       FirstAnswerWins

LEMMA NextConnectIInv ==
  ASSUME ConnectIInv, [ConnectNext]_connectVars
  PROVE  ConnectIInv'
<1> USE AddressesAssumption
    DEF ConnectIInv, ConnectTypeOK, ClosedWhenRefused, SelectedAnswered, FirstAnswerWins
<1>1. ASSUME NEW a \in Addresses, NEW how \in {"accepted", "refused"}, Answers(a, how)
      PROVE  ConnectIInv'
  BY <1>1 DEF Answers
<1>2. CASE Select
  BY <1>2 DEF Select, Finish
<1>3. ASSUME NEW a \in Addresses, Scan(a)
      PROVE  ConnectIInv'
  <2>1. CASE a \in valid /\ answer[a] = "accepted"
    BY <1>3, <2>1 DEF Scan, Finish, Closed
  <2>2. CASE a \in valid /\ answer[a] # "accepted"
    BY <1>3, <2>2 DEF Scan
  <2>3. CASE a \notin valid
    BY <1>3, <2>3 DEF Scan
  <2> QED BY <2>1, <2>2, <2>3
<1>4. CASE ScanEnds
  BY <1>4 DEF ScanEnds
<1>5. CASE UNCHANGED connectVars
  BY <1>5 DEF connectVars
<1> QED BY <1>1, <1>2, <1>3, <1>4, <1>5 DEF ConnectNext

(* The socket the connector returns is connected and the only one left      *)
(* open, and it fails only when every address has refused, for any set of   *)
(* addresses.                                                               *)
THEOREM FirstAnswerAlwaysWins == ConnectSpec => []FirstAnswerWins
<1>1. ConnectIInv => FirstAnswerWins
  BY DEF ConnectIInv
<1> QED BY InitConnectIInv, NextConnectIInv, <1>1, PTL DEF ConnectSpec

-----------------------------------------------------------------------------
(* The registration                                                         *)

RegTypeOK ==
  /\ task \in {"idle", "listen", "connect", "create", "wait", "verify", "finish",
               "timeout", "finally"}
  /\ receiver \in BOOLEAN /\ heard \in BOOLEAN /\ left \in BOOLEAN
  /\ challenge \in Nat

(* The receiver is registered before the account is asked for, and stays so *)
(* unless the user leaves.                                                  *)
ListensWhileWaiting ==
  task \in {"connect", "create", "wait"} => receiver \/ left

(* So the code of an SMS in time is kept, until the wait ends with it.      *)
NotHeardBefore == task \in {"listen", "connect"} => ~heard

HeardIsKept == task \in {"create", "wait"} /\ heard => challenge # 0 \/ left

RegIInv ==
  RegTypeOK /\ ListensWhileWaiting /\ NotHeardBefore /\ HeardIsKept /\ NoLostChallenge

(* What one step of handleRegistrationIntent follows another.               *)
LEMMA StepsInOrder ==
  ASSUME Continue
  PROVE  \/ task = "idle" /\ task' = "listen"
         \/ task = "listen" /\ task' = "connect"
         \/ task = "connect" /\ task' = "create"
         \/ task = "create" /\ task' = "wait"
         \/ task = "wait" /\ task' = "verify"
         \/ task = "verify" /\ task' = "finish"
<1>1. Len(Steps) = 7
  BY DEF Steps
<1>2. PICK k \in 1 .. 6 : task = Steps[k] /\ task' = Steps[k + 1]
  BY <1>1 DEF Continue
<1>3. k = 1 \/ k = 2 \/ k = 3 \/ k = 4 \/ k = 5 \/ k = 6
  OBVIOUS
<1>4. /\ Steps[1] = "idle" /\ Steps[2] = "listen" /\ Steps[3] = "connect"
      /\ Steps[4] = "create" /\ Steps[5] = "wait" /\ Steps[6] = "verify"
      /\ Steps[7] = "finish"
  BY DEF Steps
<1> QED BY <1>2, <1>3, <1>4

LEMMA InitRegIInv == RegistrationInit => RegIInv
<1> SUFFICES ASSUME RegistrationInit PROVE RegIInv
  OBVIOUS
<1>1. task = "idle" /\ receiver = FALSE /\ heard = FALSE /\ left = FALSE /\ challenge = 0
  BY DEF RegistrationInit
<1>2. RegTypeOK
  BY <1>1 DEF RegTypeOK
<1>3. ListensWhileWaiting /\ NotHeardBefore /\ HeardIsKept /\ NoLostChallenge
  BY <1>1 DEF ListensWhileWaiting, NotHeardBefore, HeardIsKept, NoLostChallenge
<1> QED BY <1>2, <1>3 DEF RegIInv

LEMMA NextRegIInv ==
  ASSUME RegIInv, [RegistrationNext]_regVars
  PROVE  RegIInv'
<1> USE AttemptsAssumption, StepsInOrder
    DEF RegIInv, RegTypeOK, ListensWhileWaiting, NotHeardBefore, HeardIsKept,
        NoLostChallenge, prefVars, outsideVars
<1>1. CASE onStartCommand
  BY <1>1 DEF onStartCommand
<1>2. CASE BeginAttempt
  BY <1>2 DEF BeginAttempt
<1>3. CASE initializeChallengeListener
  BY <1>3 DEF initializeChallengeListener
<1>4. CASE setConnecting
  BY <1>4 DEF setConnecting
<1>5. CASE ServerMakesAccount
  BY <1>5 DEF ServerMakesAccount
<1>6. CASE createAccount
  BY <1>6 DEF createAccount, Caught
<1>7. CASE waitForChallenge
  BY <1>7 DEF waitForChallenge
<1>8. CASE catchTimeout
  BY <1>8 DEF catchTimeout, Caught
<1>9. CASE verifyAccount
  BY <1>9 DEF verifyAccount, Caught
<1>10. CASE finishRegistration
  BY <1>10 DEF finishRegistration, Caught
<1>11. CASE endAttempt
  BY <1>11 DEF endAttempt
<1>12. ASSUME NEW c \in 1 .. MaxAttempts, SmsArrives(c)
       PROVE  RegIInv'
  BY <1>12 DEF SmsArrives
<1>13. ASSUME NEW c \in 1 .. MaxAttempts + 1, challengeReceived(c)
       PROVE  RegIInv'
  BY <1>13 DEF challengeReceived
<1>14. CASE shutdown
  BY <1>14 DEF shutdown
<1>15. CASE UNCHANGED regVars
  BY <1>15 DEF regVars
<1> QED BY <1>1, <1>2, <1>3, <1>4, <1>5, <1>6, <1>7, <1>8, <1>9, <1>10, <1>11,
           <1>12, <1>13, <1>14, <1>15 DEF RegistrationNext

(* No attempt times out whose SMS came in time, unless the user left it,    *)
(* for any number of attempts.                                              *)
THEOREM NoChallengeIsLost == RegistrationSpec => []NoLostChallenge
<1>1. RegIInv => NoLostChallenge
  BY DEF RegIInv
<1> QED BY InitRegIInv, NextRegIInv, <1>1, PTL DEF RegistrationSpec

-----------------------------------------------------------------------------
(* The microphone                                                           *)

Frames == [samples : Nat, label : Nat]

ThreadTypeOK ==
  /\ device \in {"new", "ready", "recording", "released"}
  /\ micStarted \in BOOLEAN /\ terminate \in BOOLEAN /\ met \in BOOLEAN
  /\ mic \in {"off", "loop", "prepare", "start", "check", "read", "add", "ended", "killed"}
  /\ loop \in {"idle", "take", "encode", "return", "add", "send", "terminate"}
  /\ step \in 0 .. 2

ArrayTypeOK ==
  /\ samples \in [Chunks -> Nat] /\ label \in [Chunks -> Nat] /\ reads \in Nat
  /\ pool \in Seq(Chunks) /\ micAudioList \in Seq(Chunks)
  /\ hand \in Chunks \cup {0} /\ taken \in Chunks \cup {0}
  /\ mic = "add" => hand # 0
  /\ loop \in {"encode", "return", "add"} => taken # 0

QueueTypeOK == audioQueue \in Seq(Frames) /\ last \in Nat /\ encoded \in Nat

MicTypeOK == ThreadTypeOK /\ ArrayTypeOK /\ QueueTypeOK

(* The statements of terminate() and what they leave: the reader starts the *)
(* device no more, unless it was about to.                                  *)
Terminating ==
  /\ step > 0 => loop = "terminate" /\ terminate
  /\ step > 0 /\ Starting => met
  /\ step = 2 /\ ~met => ~Initialized

(* As long as nobody releases the device it records when it is read.        *)
ReadsRecording ==
  /\ mic = "off" => ~micStarted
  /\ loop # "terminate" /\ mic \in {"check", "read", "add"} => device = "recording"
  /\ loop # "terminate" /\ mic = "loop" /\ micStarted => device = "recording"

(* An array is in one place at a time, from the pool and back.              *)
ArraysApart ==
  loop # "terminate" =>
    /\ \A i, j \in 1 .. Len(pool) : pool[i] = pool[j] => i = j
    /\ \A i \in 1 .. Len(pool), j \in 1 .. Len(micAudioList) : pool[i] # micAudioList[j]
    /\ \A i \in 1 .. Len(pool) : pool[i] # hand
    /\ \A j \in 1 .. Len(micAudioList) : micAudioList[j] # hand
    /\ loop \in {"encode", "return"} =>
         /\ taken # hand
         /\ \A i \in 1 .. Len(pool) : pool[i] # taken
         /\ \A j \in 1 .. Len(micAudioList) : micAudioList[j] # taken

(* The samples the audio loop has got last, and those it has queued last.   *)
Queued == IF audioQueue = <<>> THEN last ELSE audioQueue[Len(audioQueue)].samples

Latest ==
  IF loop = "encode" THEN samples[taken]
  ELSE IF loop \in {"return", "add"} THEN encoded ELSE Queued

PairAtMost ==
  /\ Len(audioQueue) <= 2
  /\ loop \in {"encode", "return", "add"} => Len(audioQueue) < 2

HeardInOrder ==
  /\ Len(audioQueue) > 0 => last < audioQueue[1].samples
  /\ Len(audioQueue) > 1 => audioQueue[1].samples < audioQueue[2].samples

(* Frames are in the order they were spoken, from the reader's hand through *)
(* the list and the encoder to the queue.                                   *)
ListInOrder ==
  loop # "terminate" =>
    /\ Latest <= reads
    /\ \A c \in Chunks : samples[c] <= reads
    /\ loop \in {"encode", "return", "add"} => Queued < Latest
    /\ \A i \in 1 .. Len(micAudioList) : Latest < samples[micAudioList[i]]
    /\ \A i, j \in 1 .. Len(micAudioList) :
         i < j => samples[micAudioList[i]] < samples[micAudioList[j]]
    /\ mic = "add" =>
         /\ Latest < samples[hand]
         /\ \A i \in 1 .. Len(micAudioList) : samples[micAudioList[i]] < samples[hand]

MicIInv ==
  /\ MicTypeOK /\ Terminating /\ ReadsRecording
  /\ ArraysApart /\ PairAtMost /\ HeardInOrder /\ ListInOrder

LEMMA StatementsOf ==
  /\ Len(Statements) = 2
  /\ Statements[1] = "flag" /\ Statements[2] = "release"
BY DEF Statements

LEMMA InitMicIInv == MicInit => MicIInv
<1> SUFFICES ASSUME MicInit PROVE MicIInv
  OBVIOUS
<1> USE MicrophoneAssumption DEF MicInit
<1>1. ThreadTypeOK
  <2>1. /\ device \in {"new", "ready"} /\ mic = "off" /\ loop = "idle" /\ step = 0
        /\ micStarted = FALSE /\ terminate = FALSE /\ met = FALSE
    OBVIOUS
  <2>2. step \in 0 .. 2
    BY <2>1
  <2> QED BY <2>1, <2>2 DEF ThreadTypeOK
<1>2. ArrayTypeOK
  BY DEF ArrayTypeOK
<1>3. QueueTypeOK
  BY DEF QueueTypeOK
<1>4. Terminating /\ ReadsRecording
  BY DEF Terminating, ReadsRecording, Starting
<1>5. ArraysApart /\ PairAtMost /\ HeardInOrder
  BY DEF ArraysApart, PairAtMost, HeardInOrder
<1>6. ListInOrder
  BY DEF ListInOrder, Latest, Queued
<1> QED BY <1>1, <1>2, <1>3, <1>4, <1>5, <1>6 DEF MicIInv, MicTypeOK

(* The threads and the device: types, terminate() and the device.           *)
LEMMA NextThreads ==
  ASSUME ThreadTypeOK, Terminating, ReadsRecording, [MicNext]_mvars
  PROVE  ThreadTypeOK' /\ Terminating' /\ ReadsRecording'
<1> USE DEF ThreadTypeOK, Terminating, ReadsRecording, Starting, Initialized,
            devVars, loopVars, chunkVars
<1>1. CASE TestFlag
  BY <1>1 DEF TestFlag
<1>2. CASE WaitForMicReady
  <2>1. CASE Initialized /\ mic' = "start" /\ UNCHANGED <<device, terminate>>
    BY <1>2, <2>1 DEF WaitForMicReady
  <2>2. CASE ~Initialized /\ device' \in {"new", "ready"} /\ UNCHANGED <<mic, terminate>>
    BY <1>2, <2>2 DEF WaitForMicReady
  <2>3. CASE ~Initialized /\ mic' = "ended" /\ terminate' = TRUE /\ UNCHANGED device
    BY <1>2, <2>3 DEF WaitForMicReady
  <2> QED BY <1>2, <2>1, <2>2, <2>3 DEF WaitForMicReady
<1>3. CASE StartRecording
  BY <1>3 DEF StartRecording
<1>4. CASE CheckRecording
  BY <1>4 DEF CheckRecording
<1>5. CASE GetItem
  BY <1>5 DEF GetItem
<1>6. CASE ReadFrame
  BY <1>6 DEF ReadFrame
<1>7. CASE AddChunk
  BY <1>7 DEF AddChunk
<1>8. CASE Go
  BY <1>8 DEF Go
<1>9. CASE TakeChunk
  BY <1>9 DEF TakeChunk
<1>10. CASE EncodeChunk
  BY <1>10 DEF EncodeChunk, AfterEncode
<1>11. CASE AddEncoded
  BY <1>11 DEF AddEncoded
<1>12. CASE SendPair
  BY <1>12 DEF SendPair
<1>13. CASE EndLoop
  BY <1>13 DEF EndLoop
<1>14. CASE Terminate
  <2>1. CASE step = 0
    <3>1. Statements[step + 1] = "flag" /\ step + 1 = 1
      BY <2>1, StatementsOf
    <3>2. /\ loop = "terminate" /\ step' = 1 /\ terminate' = TRUE /\ device' = device
          /\ met' = (met \/ Starting) /\ UNCHANGED <<micStarted, mic, loop>>
      BY <1>14, <3>1 DEF Terminate
    <3>3. step' \in 0 .. 2 /\ step' > 0 /\ step' # 2
      BY <3>2
    <3> QED BY <3>2, <3>3
  <2>2. CASE step = 1
    <3>1. Statements[step + 1] = "release" /\ step + 1 = 2
      BY <2>2, StatementsOf
    <3>2. /\ loop = "terminate" /\ step' = 2 /\ UNCHANGED terminate
          /\ device' = (IF Initialized THEN "released" ELSE device)
          /\ met' = (met \/ Starting) /\ UNCHANGED <<micStarted, mic, loop>>
      BY <1>14, <3>1 DEF Terminate
    <3>3. step' \in 0 .. 2 /\ step > 0
      BY <2>2, <3>2
    <3> QED BY <3>2, <3>3
  <2>3. step = 0 \/ step = 1
    BY <1>14, StatementsOf DEF Terminate
  <2> QED BY <2>1, <2>2, <2>3
<1>15. CASE UNCHANGED mvars
  BY <1>15 DEF mvars
<1> QED BY <1>1, <1>2, <1>3, <1>4, <1>5, <1>6, <1>7, <1>8, <1>9, <1>10, <1>11,
           <1>12, <1>13, <1>14, <1>15 DEF MicNext, MicThread, AudioLoop

(* The arrays are the pool's, and those in use are.                         *)
LEMMA NextArrayType ==
  ASSUME ThreadTypeOK, ArrayTypeOK, [MicNext]_mvars
  PROVE  ArrayTypeOK'
<1> USE MicrophoneAssumption DEF ArrayTypeOK, devVars, chunkVars, loopVars
<1>1. CASE TestFlag \/ WaitForMicReady \/ StartRecording \/ CheckRecording
  BY <1>1 DEF TestFlag, WaitForMicReady, StartRecording, CheckRecording
<1>2. CASE GetItem
  <2>1. CASE pool # <<>>
    <3>1. Head(pool) \in Chunks /\ Tail(pool) \in Seq(Chunks)
      BY <2>1
    <3> QED BY <1>2, <2>1, <3>1 DEF GetItem
  <2>2. CASE pool = <<>>
    BY <1>2, <2>2 DEF GetItem
  <2> QED BY <2>1, <2>2
<1>3. CASE ReadFrame
  BY <1>3 DEF ReadFrame
<1>4. CASE AddChunk
  <2>1. hand \in Chunks
    BY <1>4 DEF AddChunk
  <2> QED BY <1>4, <2>1 DEF AddChunk
<1>5. CASE Go
  BY <1>5 DEF Go
<1>6. CASE TakeChunk
  <2>1. CASE micAudioList # <<>>
    <3>1. Head(micAudioList) \in Chunks \ {0} /\ Tail(micAudioList) \in Seq(Chunks)
      BY <2>1
    <3> QED BY <1>6, <3>1 DEF TakeChunk
  <2>2. CASE micAudioList = <<>>
    BY <1>6, <2>2 DEF TakeChunk
  <2> QED BY <2>1, <2>2
<1>7. CASE EncodeChunk
  <2>1. taken \in Chunks
    BY <1>7 DEF EncodeChunk
  <2>2. Append(pool, taken) \in Seq(Chunks)
    BY <2>1
  <2> QED BY <1>7, <2>1, <2>2 DEF EncodeChunk, AfterEncode
<1>8. CASE AddEncoded \/ SendPair \/ EndLoop \/ Terminate
  BY <1>8 DEF AddEncoded, SendPair, EndLoop, Terminate
<1>9. CASE UNCHANGED mvars
  BY <1>9 DEF mvars
<1> QED BY <1>1, <1>2, <1>3, <1>4, <1>5, <1>6, <1>7, <1>8, <1>9
        DEF MicNext, MicThread, AudioLoop

LEMMA HeadTail ==
  ASSUME NEW S, NEW q \in Seq(S), q # <<>>
  PROVE  /\ Head(q) = q[1] /\ 1 \in 1 .. Len(q)
         /\ Tail(q) \in Seq(S) /\ Len(Tail(q)) = Len(q) - 1
         /\ \A i \in 1 .. Len(Tail(q)) : i + 1 \in 1 .. Len(q) /\ Tail(q)[i] = q[i + 1]
OBVIOUS

LEMMA AppendAt ==
  ASSUME NEW S, NEW q \in Seq(S), NEW e \in S
  PROVE  /\ Append(q, e) \in Seq(S) /\ Len(Append(q, e)) = Len(q) + 1
         /\ Append(q, e)[Len(q) + 1] = e
         /\ \A i \in 1 .. Len(q) : Append(q, e)[i] = q[i]
         /\ \A i \in 1 .. Len(q) + 1 : i \in 1 .. Len(q) \/ i = Len(q) + 1
OBVIOUS

(* An array that is new is nowhere in use.                                  *)
LEMMA NewIsUnused ==
  ASSUME ArrayTypeOK, NEW c \in Chunks \ InUse
  PROVE  /\ c # taken
         /\ \A i \in 1 .. Len(pool) : pool[i] # c
         /\ \A j \in 1 .. Len(micAudioList) : micAudioList[j] # c
<1>1. DOMAIN pool = 1 .. Len(pool) /\ DOMAIN micAudioList = 1 .. Len(micAudioList)
  BY DEF ArrayTypeOK
<1>2. c \notin Range(pool) /\ c \notin Range(micAudioList) /\ c # taken
  BY DEF InUse
<1> QED BY <1>1, <1>2 DEF Range

LEMMA NextArraysApart ==
  ASSUME ThreadTypeOK, ArrayTypeOK, ArraysApart, ListInOrder, [MicNext]_mvars
  PROVE  ArraysApart'
<1> USE DEF devVars, chunkVars, loopVars
<1>1. CASE TestFlag \/ WaitForMicReady \/ StartRecording \/ CheckRecording
  BY <1>1 DEF TestFlag, WaitForMicReady, StartRecording, CheckRecording, ArraysApart
<1>2. CASE GetItem
  <2>1. CASE pool # <<>>
    <3>1. hand' = pool[1] /\ pool' = Tail(pool) /\ UNCHANGED <<micAudioList, loop, taken>>
      BY <1>2, <2>1, HeadTail DEF GetItem, ArrayTypeOK
    <3>2. /\ 1 \in 1 .. Len(pool)
          /\ \A i \in 1 .. Len(pool') : i + 1 \in 1 .. Len(pool) /\ pool'[i] = pool[i + 1]
                                        /\ i + 1 # 1
      BY <2>1, <3>1, HeadTail DEF ArrayTypeOK
    <3>3. \A i, j \in 1 .. Len(pool') : i + 1 = j + 1 => i = j
      OBVIOUS
    <3>4. loop # "terminate" =>
            /\ \A i, j \in 1 .. Len(pool') : pool'[i] = pool'[j] => i = j
            /\ \A i \in 1 .. Len(pool') : pool'[i] # hand'
      BY <3>1, <3>2, <3>3, SMTT(30) DEF ArraysApart
    <3>5. loop # "terminate" =>
            \A i \in 1 .. Len(pool'), j \in 1 .. Len(micAudioList') : pool'[i] # micAudioList'[j]
      BY <3>1, <3>2, SMTT(30) DEF ArraysApart
    <3> QED BY <3>1, <3>2, <3>4, <3>5, SMTT(30) DEF ArraysApart
  <2>2. CASE pool = <<>>
    <3>1. hand' \in Chunks \ InUse /\ UNCHANGED <<pool, micAudioList, loop, taken>>
      BY <1>2, <2>2 DEF GetItem
    <3> QED BY <3>1, NewIsUnused DEF ArraysApart
  <2> QED BY <2>1, <2>2
<1>3. CASE ReadFrame
  BY <1>3 DEF ReadFrame, ArraysApart
<1>4. CASE AddChunk
  <2>1. hand \in Chunks /\ 0 \notin Chunks
    BY <1>4, MicrophoneAssumption DEF AddChunk, ArrayTypeOK
  <2>2. /\ micAudioList' = Append(micAudioList, hand) /\ hand' = 0
        /\ UNCHANGED <<pool, loop, taken>>
    BY <1>4 DEF AddChunk
  <2>3. \A j \in 1 .. Len(micAudioList') :
          \/ micAudioList'[j] = hand
          \/ \E i \in 1 .. Len(micAudioList) : micAudioList'[j] = micAudioList[i]
    BY <2>1, <2>2, AppendAt DEF ArrayTypeOK
  <2>4. \A j \in 1 .. Len(micAudioList') : micAudioList'[j] # 0
    <3>1. \A i \in 1 .. Len(micAudioList) : micAudioList[i] \in Chunks
      BY DEF ArrayTypeOK
    <3> QED BY <2>1, <2>3, <3>1
  <2>5. \A i \in 1 .. Len(pool) : pool[i] # 0
    BY <2>1 DEF ArrayTypeOK
  <2>6. loop \in {"encode", "return"} => taken # 0
    BY DEF ArrayTypeOK
  <2> QED BY <2>2, <2>3, <2>4, <2>5, <2>6 DEF ArraysApart
<1>5. CASE Go
  BY <1>5 DEF Go, ArraysApart
<1>6. CASE TakeChunk
  <2>1. CASE loop' = "encode"
    <3>1. /\ micAudioList # <<>> /\ taken' = Head(micAudioList)
          /\ micAudioList' = Tail(micAudioList) /\ loop = "take" /\ UNCHANGED <<pool, hand>>
      BY <1>6, <2>1 DEF TakeChunk
    <3>2. /\ 1 \in 1 .. Len(micAudioList) /\ taken' = micAudioList[1]
          /\ \A j \in 1 .. Len(micAudioList') :
               /\ j + 1 \in 1 .. Len(micAudioList)
               /\ micAudioList'[j] = micAudioList[j + 1] /\ 1 < j + 1
      BY <3>1, HeadTail DEF ArrayTypeOK
    <3>3. \A j \in 1 .. Len(micAudioList') :
            samples[micAudioList[1]] < samples[micAudioList[j + 1]]
      BY <3>1, <3>2 DEF ListInOrder
    <3>4. \A c \in Chunks : ~(samples[c] < samples[c])
      BY DEF ArrayTypeOK
    <3>5. taken' \in Chunks
      BY <3>2 DEF ArrayTypeOK
    <3>6. \A j \in 1 .. Len(micAudioList') : micAudioList'[j] # taken'
      BY <3>2, <3>3, <3>4, <3>5
    <3> QED BY <3>1, <3>2, <3>6 DEF ArraysApart
  <2>2. CASE loop' # "encode"
    BY <1>6, <2>2 DEF TakeChunk, ArraysApart
  <2> QED BY <2>1, <2>2
<1>7. CASE EncodeChunk
  <2>1. CASE loop = "encode"
    BY <1>7, <2>1 DEF EncodeChunk, Returned, AfterEncode, ArraysApart
  <2>2. CASE loop = "return"
    <3>1. pool' = Append(pool, taken) /\ loop' = "add" /\ UNCHANGED <<micAudioList, hand, taken>>
      BY <1>7, <2>2 DEF EncodeChunk, Returned, AfterEncode
    <3>2. taken \in Chunks
      BY <2>2 DEF ArrayTypeOK
    <3>3. /\ \A i \in 1 .. Len(pool) : i \in 1 .. Len(pool') /\ pool'[i] = pool[i]
          /\ \A i \in 1 .. Len(pool') : i \in 1 .. Len(pool) \/ i = Len(pool) + 1
          /\ pool'[Len(pool) + 1] = taken
      BY <3>1, <3>2, AppendAt DEF ArrayTypeOK
    <3> QED BY <2>2, <3>1, <3>3 DEF ArraysApart
  <2> QED BY <1>7, <2>1, <2>2 DEF EncodeChunk
<1>8. CASE AddEncoded \/ SendPair \/ EndLoop \/ Terminate
  BY <1>8 DEF AddEncoded, SendPair, EndLoop, Terminate, ArraysApart
<1>9. CASE UNCHANGED mvars
  BY <1>9 DEF mvars, ArraysApart
<1> QED BY <1>1, <1>2, <1>3, <1>4, <1>5, <1>6, <1>7, <1>8, <1>9
        DEF MicNext, MicThread, AudioLoop

LEMMA QueueFrames ==
  ASSUME QueueTypeOK
  PROVE  /\ DOMAIN audioQueue = 1 .. Len(audioQueue) /\ Len(audioQueue) \in Nat
         /\ \A k \in 1 .. Len(audioQueue) :
              audioQueue[k] \in Frames /\ audioQueue[k].samples \in Nat
<1>1. audioQueue \in Seq(Frames)
  BY DEF QueueTypeOK
<1>2. \A k \in 1 .. Len(audioQueue) : audioQueue[k] \in Frames
  BY <1>1
<1>3. \A f \in Frames : f.samples \in Nat
  BY DEF Frames
<1> QED BY <1>1, <1>2, <1>3

(* The queue: a pair at most, in order.                                     *)
LEMMA QueueSent ==
  ASSUME QueueTypeOK, PairAtMost, HeardInOrder
  PROVE  SpeechInOrder
<1> DEFINE queued == [k \in DOMAIN audioQueue |-> audioQueue[k].samples]
           heard2 == <<last>> \o queued
<1>1. DOMAIN audioQueue = 1 .. Len(audioQueue) /\ Len(audioQueue) \in Nat
  BY QueueFrames
<1>2. queued \in Seq(Nat) /\ Len(queued) = Len(audioQueue)
  <2>1. queued \in [1 .. Len(audioQueue) -> Nat]
    BY QueueFrames
  <2> QED BY <1>1, <2>1
<1>3. /\ Len(heard2) = Len(audioQueue) + 1 /\ heard2[1] = last
      /\ \A k \in 1 .. Len(audioQueue) : heard2[k + 1] = audioQueue[k].samples
  BY <1>1, <1>2 DEF QueueTypeOK
<1>4. ASSUME NEW k \in 1 .. Len(heard2) - 1
      PROVE  heard2[k] < heard2[k + 1]
  <2>1. k = 1 \/ k = 2
    BY <1>3, <1>4, <1>1 DEF PairAtMost
  <2>2. CASE k = 1
    <3>1. heard2[2] = audioQueue[1].samples /\ Len(audioQueue) > 0
      BY <1>1, <1>3, <2>2
    <3> QED BY <1>3, <2>2, <3>1 DEF HeardInOrder
  <2>3. CASE k = 2
    <3>1. /\ heard2[2] = audioQueue[1].samples /\ heard2[3] = audioQueue[2].samples
          /\ Len(audioQueue) > 1
      BY <1>1, <1>3, <2>3
    <3> QED BY <2>3, <3>1 DEF HeardInOrder
  <2> QED BY <2>1, <2>2, <2>3
<1> HIDE DEF heard2
<1>5. \A k \in 1 .. Len(heard2) - 1 : heard2[k] < heard2[k + 1]
  BY <1>4
<1> QED BY <1>5 DEF SpeechInOrder, heard2

LEMMA NextQueue ==
  ASSUME ThreadTypeOK, ArrayTypeOK, QueueTypeOK, PairAtMost, HeardInOrder, ListInOrder,
         [MicNext]_mvars
  PROVE  QueueTypeOK' /\ PairAtMost' /\ HeardInOrder'
<1> USE DEF QueueTypeOK, PairAtMost, HeardInOrder, devVars, chunkVars, loopVars,
            audioChunksPerPacket
<1>1. CASE MicThread
  BY <1>1 DEF MicThread, TestFlag, WaitForMicReady, StartRecording, CheckRecording,
              GetItem, ReadFrame, AddChunk
<1>2. CASE Go \/ EndLoop \/ Terminate
  BY <1>2 DEF Go, EndLoop, Terminate
<1>3. CASE TakeChunk
  BY <1>3 DEF TakeChunk
<1>4. CASE EncodeChunk
  <2>1. taken \in Chunks /\ samples[taken] \in Nat
    BY <1>4 DEF EncodeChunk, ArrayTypeOK
  <2> QED BY <1>4, <2>1 DEF EncodeChunk, AfterEncode
<1>5. CASE AddEncoded
  <2> DEFINE frame == [samples |-> encoded, label |-> label[taken]]
  <2>1. frame \in Frames /\ frame.samples = encoded
    BY <1>5 DEF AddEncoded, ArrayTypeOK, Frames
  <2>2. /\ audioQueue' = Append(audioQueue, frame)
        /\ last' = last /\ loop' = "take" /\ encoded' = 0
    BY <1>5 DEF AddEncoded
  <2>3. Queued < encoded
    BY <1>5 DEF AddEncoded, ListInOrder, Latest
  <2>4. Len(audioQueue) = 0 \/ Len(audioQueue) = 1
    BY <1>5, QueueFrames DEF AddEncoded
  <2> HIDE DEF frame
  <2>5. CASE Len(audioQueue) = 0
    <3>1. audioQueue = <<>> /\ last < encoded
      BY <2>3, <2>5 DEF Queued
    <3> QED BY <2>1, <2>2, <3>1
  <2>6. CASE Len(audioQueue) = 1
    <3>1. audioQueue # <<>> /\ audioQueue[1].samples < encoded
      <4>1. audioQueue # <<>>
        BY <2>6
      <4> QED BY <2>3, <2>6, <4>1 DEF Queued
    <3>2. /\ Append(audioQueue, frame) \in Seq(Frames)
          /\ Len(Append(audioQueue, frame)) = 2
          /\ Append(audioQueue, frame)[1] = audioQueue[1]
          /\ Append(audioQueue, frame)[2] = frame
      <4>1. Len(audioQueue) + 1 = 2 /\ 1 \in 1 .. Len(audioQueue)
        BY <2>6
      <4> QED BY <2>1, <4>1, AppendAt
    <3>3. last < audioQueue[1].samples
      BY <2>6
    <3> QED BY <2>1, <2>2, <3>1, <3>2, <3>3
  <2> QED BY <2>4, <2>5, <2>6
<1>6. CASE SendPair
  <2>1. CASE Len(audioQueue) >= 2
    <3>1. Len(audioQueue) = 2 /\ audioQueue[2] \in Frames
      BY <2>1, QueueFrames
    <3>2. last' \in Nat /\ audioQueue' = SubSeq(audioQueue, 3, 2)
      BY <1>6, <3>1 DEF SendPair, Frames
    <3>3. audioQueue' = <<>>
      BY <3>2
    <3> QED BY <1>6, <3>2, <3>3 DEF SendPair
  <2>2. CASE Len(audioQueue) < 2
    BY <1>6, <2>2 DEF SendPair
  <2> QED BY <2>1, <2>2
<1>7. CASE UNCHANGED mvars
  BY <1>7 DEF mvars
<1> QED BY <1>1, <1>2, <1>3, <1>4, <1>5, <1>6, <1>7 DEF MicNext, AudioLoop

LEMMA LatestIsNat ==
  ASSUME ArrayTypeOK, QueueTypeOK
  PROVE  Latest \in Nat /\ Queued \in Nat
<1>1. Queued \in Nat
  <2>1. CASE audioQueue = <<>>
    BY <2>1 DEF Queued, QueueTypeOK
  <2>2. CASE audioQueue # <<>>
    <3>1. Len(audioQueue) \in 1 .. Len(audioQueue)
      BY <2>2, QueueFrames DEF QueueTypeOK
    <3> QED BY <2>2, <3>1, QueueFrames DEF Queued
  <2> QED BY <2>1, <2>2
<1>2. loop = "encode" => taken \in Chunks
  BY DEF ArrayTypeOK
<1> QED BY <1>1, <1>2 DEF Latest, ArrayTypeOK, QueueTypeOK

(* The audio loop hands the samples it has got last on to the queue.        *)
LEMMA LatestHandedOn ==
  ASSUME ThreadTypeOK, ArrayTypeOK, QueueTypeOK, PairAtMost, ListInOrder,
         loop # "terminate",
         Go \/ EncodeChunk \/ AddEncoded \/ SendPair
  PROVE  /\ Latest' = Latest
         /\ loop' \in {"encode", "return", "add"} => Queued' = Queued
                                                     /\ loop \in {"encode", "return", "add"}
         /\ samples' = samples /\ reads' = reads /\ hand' = hand
         /\ mic' = "add" => mic = "add"
         /\ micAudioList' = micAudioList \/ micAudioList' = <<>>
<1> USE DEF devVars, chunkVars, loopVars
<1>1. CASE Go
  BY <1>1 DEF Go, Latest, Queued
<1>2. CASE EncodeChunk
  BY <1>2 DEF EncodeChunk, Returned, AfterEncode, Latest, Queued
<1>3. CASE AddEncoded
  <2>1. /\ loop = "add" /\ loop' = "take" /\ UNCHANGED chunkVars /\ mic' = mic
        /\ audioQueue' = Append(audioQueue, [samples |-> encoded, label |-> label[taken]])
    BY <1>3 DEF AddEncoded
  <2>2. [samples |-> encoded, label |-> label[taken]] \in Frames
    BY <2>1 DEF ArrayTypeOK, QueueTypeOK, Frames
  <2>3. /\ audioQueue' # <<>>
        /\ audioQueue'[Len(audioQueue')] = [samples |-> encoded, label |-> label[taken]]
    BY <2>1, <2>2, AppendAt, QueueFrames DEF QueueTypeOK
  <2>4. Queued' = encoded
    BY <2>3 DEF Queued
  <2> QED BY <2>1, <2>4 DEF Latest
<1>4. CASE SendPair
  <2>1. CASE Len(audioQueue) >= 2
    <3>1. Len(audioQueue) = 2 /\ audioQueue # <<>>
      BY <2>1, QueueFrames DEF PairAtMost
    <3>2. /\ last' = audioQueue[2].samples /\ audioQueue' = SubSeq(audioQueue, 3, 2)
          /\ loop = "send" /\ loop' = "idle" /\ UNCHANGED chunkVars /\ mic' = mic
      BY <1>4, <3>1 DEF SendPair, audioChunksPerPacket
    <3>3. audioQueue' = <<>>
      BY <3>2 DEF QueueTypeOK
    <3>4. Queued' = Queued
      BY <3>1, <3>2, <3>3 DEF Queued
    <3> QED BY <3>2, <3>4 DEF Latest
  <2>2. CASE ~(Len(audioQueue) >= 2)
    BY <1>4, <2>2 DEF SendPair, audioChunksPerPacket, Latest, Queued
  <2> QED BY <2>1, <2>2
<1> QED BY <1>1, <1>2, <1>3, <1>4

LEMMA NextListInOrder ==
  ASSUME ThreadTypeOK, ArrayTypeOK, QueueTypeOK, PairAtMost, ReadsRecording,
         ArraysApart, ListInOrder, [MicNext]_mvars, loop' # "terminate"
  PROVE  ListInOrder'
<1>0. loop # "terminate"
  BY DEF MicNext, MicThread, AudioLoop, TestFlag, WaitForMicReady, StartRecording,
         CheckRecording, GetItem, ReadFrame, AddChunk, Go, TakeChunk, EncodeChunk,
         AddEncoded, SendPair, EndLoop, Terminate, mvars, devVars, chunkVars, loopVars
<1> USE <1>0 DEF devVars, chunkVars, loopVars
<1>1. CASE TestFlag \/ WaitForMicReady \/ StartRecording \/ CheckRecording \/ GetItem
  BY <1>1 DEF TestFlag, WaitForMicReady, StartRecording, CheckRecording, GetItem,
              ListInOrder, Latest, Queued
<1>2. CASE ReadFrame
  <2>1. /\ hand \in Chunks /\ hand' = hand /\ reads' = reads + 1
        /\ UNCHANGED <<micAudioList, loop, taken, encoded, audioQueue, last>>
    BY <1>2 DEF ReadFrame, ArrayTypeOK
  <2>2. samples' = [samples EXCEPT ![hand] = reads + 1]
    BY <1>2 DEF ReadFrame, ReadsRecording
  <2>3. /\ samples'[hand] = reads + 1
        /\ \A c \in Chunks : c # hand => samples'[c] = samples[c]
    BY <2>1, <2>2 DEF ArrayTypeOK
  <2>4. Latest' = Latest /\ Queued' = Queued
    <3>1. Queued' = Queued
      BY <2>1 DEF Queued
    <3>2. loop = "encode" => taken \in Chunks /\ taken # hand
      BY DEF ArrayTypeOK, ArraysApart
    <3> QED BY <2>1, <2>3, <3>1, <3>2 DEF Latest
  <2>5. \A i \in 1 .. Len(micAudioList) :
          micAudioList[i] \in Chunks /\ micAudioList[i] # hand
    BY DEF ArrayTypeOK, ArraysApart
  <2>6. \A i \in 1 .. Len(micAudioList) :
          samples'[micAudioList[i]] = samples[micAudioList[i]]
    BY <2>3, <2>5
  <2>7. Latest \in Nat /\ reads \in Nat /\ \A c \in Chunks : samples[c] \in Nat
    BY LatestIsNat DEF ArrayTypeOK
  <2>8. Latest' < samples'[hand] /\ Latest' <= reads'
    BY <2>1, <2>3, <2>4, <2>7 DEF ListInOrder
  <2>9. \A c \in Chunks : samples'[c] <= reads'
    BY <2>1, <2>3, <2>7 DEF ListInOrder
  <2>10. \A i \in 1 .. Len(micAudioList) : samples'[micAudioList[i]] < samples'[hand]
    BY <2>3, <2>5, <2>6, <2>7 DEF ListInOrder
  <2> QED BY <2>1, <2>4, <2>6, <2>8, <2>9, <2>10 DEF ListInOrder
<1>3. CASE AddChunk
  <2>1. /\ mic = "add" /\ mic' = "loop" /\ hand \in Chunks
        /\ micAudioList' = Append(micAudioList, hand)
        /\ UNCHANGED <<samples, reads, loop, taken, encoded, audioQueue, last>>
    BY <1>3 DEF AddChunk, ArrayTypeOK
  <2>2. Latest' = Latest /\ Queued' = Queued
    BY <2>1 DEF Latest, Queued
  <2>3. /\ Len(micAudioList') = Len(micAudioList) + 1 /\ Len(micAudioList) \in Nat
        /\ micAudioList'[Len(micAudioList) + 1] = hand
        /\ \A i \in 1 .. Len(micAudioList) : micAudioList'[i] = micAudioList[i]
    BY <2>1, AppendAt DEF ArrayTypeOK
  <2>4. \A i \in 1 .. Len(micAudioList') : Latest < samples[micAudioList'[i]]
    <3>1. \A i \in 1 .. Len(micAudioList') :
            i \in 1 .. Len(micAudioList) \/ i = Len(micAudioList) + 1
      BY <2>3
    <3> QED BY <2>1, <2>3, <3>1 DEF ListInOrder
  <2>5. \A i, j \in 1 .. Len(micAudioList') :
          i < j => samples[micAudioList'[i]] < samples[micAudioList'[j]]
    <3>1. \A i, j \in 1 .. Len(micAudioList') :
            i < j => /\ i \in 1 .. Len(micAudioList)
                     /\ j \in 1 .. Len(micAudioList) \/ j = Len(micAudioList) + 1
      BY <2>3
    <3> QED BY <2>1, <2>3, <3>1 DEF ListInOrder
  <2> QED BY <2>1, <2>2, <2>4, <2>5 DEF ListInOrder
<1>4. CASE Go \/ EncodeChunk \/ AddEncoded \/ SendPair
  <2>1. CASE micAudioList' = micAudioList
    BY <1>4, <2>1, LatestHandedOn DEF ListInOrder
  <2>2. CASE micAudioList' = <<>>
    BY <1>4, <2>2, LatestHandedOn DEF ListInOrder
  <2> QED BY <1>4, <2>1, <2>2, LatestHandedOn
<1>5. CASE TakeChunk
  <2>1. CASE loop' = "encode"
    <3>1. /\ micAudioList # <<>> /\ loop = "take"
          /\ taken' = Head(micAudioList) /\ micAudioList' = Tail(micAudioList)
          /\ UNCHANGED <<mic, samples, reads, hand, audioQueue, last>>
      BY <1>5, <2>1 DEF TakeChunk
    <3>2. /\ 1 \in 1 .. Len(micAudioList) /\ taken' = micAudioList[1]
          /\ \A i \in 1 .. Len(micAudioList') :
               /\ i \in Nat /\ i + 1 \in 1 .. Len(micAudioList)
               /\ micAudioList'[i] = micAudioList[i + 1]
      BY <3>1, HeadTail DEF ArrayTypeOK
    <3>3. Latest' = samples[micAudioList[1]] /\ Queued' = Queued /\ Latest = Queued
      BY <2>1, <3>1, <3>2 DEF Latest, Queued
    <3>4. micAudioList[1] \in Chunks
      BY <3>2 DEF ArrayTypeOK
    <3>5. Latest' <= reads' /\ Queued' < Latest'
      BY <3>1, <3>2, <3>3, <3>4 DEF ListInOrder
    <3>6. \A i \in 1 .. Len(micAudioList') : Latest' < samples[micAudioList'[i]]
      <4>1. \A i \in 1 .. Len(micAudioList') : 1 < i + 1
        BY <3>2
      <4> QED BY <3>2, <3>3, <4>1 DEF ListInOrder
    <3>7. \A i, j \in 1 .. Len(micAudioList') :
            i < j => samples[micAudioList'[i]] < samples[micAudioList'[j]]
      <4>1. \A i, j \in 1 .. Len(micAudioList') : i < j => i + 1 < j + 1
        BY <3>2
      <4> QED BY <3>2, <4>1 DEF ListInOrder
    <3>8. mic' = "add" =>
            /\ Latest' < samples[hand]
            /\ \A i \in 1 .. Len(micAudioList') : samples[micAudioList'[i]] < samples[hand]
      BY <3>1, <3>2, <3>3 DEF ListInOrder
    <3> QED BY <3>1, <3>5, <3>6, <3>7, <3>8 DEF ListInOrder
  <2>2. CASE loop' # "encode"
    BY <1>5, <2>2 DEF TakeChunk, ListInOrder, Latest, Queued
  <2> QED BY <2>1, <2>2
<1>6. CASE EndLoop \/ Terminate
  BY <1>6 DEF EndLoop, Terminate
<1>7. CASE UNCHANGED mvars
  BY <1>7 DEF mvars, ListInOrder, Latest, Queued
<1> QED BY <1>1, <1>2, <1>3, <1>4, <1>5, <1>6, <1>7 DEF MicNext, MicThread, AudioLoop

LEMMA NextMicIInv ==
  ASSUME MicIInv, [MicNext]_mvars
  PROVE  MicIInv'
<1> USE DEF MicIInv, MicTypeOK
<1>1. ThreadTypeOK' /\ Terminating' /\ ReadsRecording'
  BY NextThreads
<1>2. ArrayTypeOK' /\ ArraysApart'
  BY NextArrayType, NextArraysApart
<1>3. QueueTypeOK' /\ PairAtMost' /\ HeardInOrder'
  BY NextQueue
<1>4. ListInOrder'
  <2>1. loop' = "terminate" => ListInOrder'
    BY DEF ListInOrder
  <2> QED BY <2>1, NextListInOrder
<1> QED BY <1>1, <1>2, <1>3, <1>4

(* The frames in the queue follow the one that was sent last, in the order  *)
(* they were spoken and none twice, for any number of arrays and reads and  *)
(* any backlog: an array is in one place at a time, and the reader fills    *)
(* one that the loop does not hold.                                         *)
THEOREM SpeechAlwaysInOrder == MicSpec => []SpeechInOrder
<1>1. MicIInv => SpeechInOrder
  BY QueueSent DEF MicIInv, MicTypeOK
<1> QED BY InitMicIInv, NextMicIInv, <1>1, PTL DEF MicSpec

(* After terminate() the microphone is off, unless it met the reader while  *)
(* this was starting the device.                                            *)
THEOREM MicIsAlwaysOff == MicSpec => []MicIsOff
<1>1. MicIInv => MicIsOff
  BY StatementsOf DEF MicIInv, Terminating, Initialized, MicIsOff
<1> QED BY InitMicIInv, NextMicIInv, <1>1, PTL DEF MicSpec

-----------------------------------------------------------------------------
(* The listener                                                             *)

Answer == [request : Int, body : Seq(Int)]

ReaderTypeOK ==
  /\ sent \in Seq(Bodies) /\ Len(sent) <= MaxSignals /\ closed \in BOOLEAN
  /\ wire \in Seq(Int) /\ baos \in Seq(Int) /\ buffer \in Seq(Int)
  /\ at \in {"wait", "request", "headers", "buffered", "body", "failed"}
  /\ request \in Int /\ length \in Int
  /\ got \in Seq(Answer)

(* The bytes of all the signals, and where each of them begins.             *)
Stream(bytes, start) ==
  /\ bytes \in Seq(Int) /\ start \in [1 .. Len(sent) + 1 -> Nat]
  /\ start[1] = 0 /\ start[Len(sent) + 1] = Len(bytes)
  /\ \A k \in 1 .. Len(sent) :
       /\ start[k + 1] = start[k] + (8 + Len(sent[k]))
       /\ start[k + 1] <= Len(bytes)
       /\ bytes[start[k] + 1] = Request(k)
       /\ bytes[start[k] + 2] = CR /\ bytes[start[k] + 3] = LF
       /\ bytes[start[k] + 4] = ContentLength(Len(sent[k]))
       /\ bytes[start[k] + 5] = CR /\ bytes[start[k] + 6] = LF
       /\ bytes[start[k] + 7] = CR /\ bytes[start[k] + 8] = LF
       /\ \A j \in 1 .. Len(sent[k]) : bytes[(start[k] + 8) + j] = sent[k][j]

(* What the buffer holds and what is under way are the bytes behind the p   *)
(* that were taken, in order, up to the end unless the connection is lost.  *)
Follows(bytes, p) ==
  /\ p + (Len(baos) + Len(wire)) <= Len(bytes)
  /\ ~closed => p + (Len(baos) + Len(wire)) = Len(bytes)
  /\ \A j \in 1 .. Len(baos) : baos[j] = bytes[p + j]
  /\ \A j \in 1 .. Len(wire) : wire[j] = bytes[(p + Len(baos)) + j]

(* The bytes that were taken are the signals that were read and the part of *)
(* the present one that the state of the listener says.                     *)
Taken(start, p) ==
  LET k == Len(got) + 1 IN
  /\ Len(got) <= Len(sent)
  /\ at \in {"wait", "request"} => p = start[k]
  /\ at \in {"headers", "buffered", "body"} => k <= Len(sent) /\ request = Request(k)
  /\ at = "headers" => p = start[k] + 3 \/ (p = start[k] + 6 /\ length = Len(sent[k]))
  /\ at = "buffered" => p = start[k] + 8 /\ length = Len(sent[k])
  /\ at = "body" =>
       /\ length = Len(sent[k]) /\ Len(buffer) <= length
       /\ p = (start[k] + 8) + Len(buffer)
       /\ Len(buffer) < length => baos = <<>>
       /\ \A j \in 1 .. Len(buffer) : buffer[j] = sent[k][j]

ReaderIInv ==
  /\ ReaderTypeOK /\ SignalsAsSent
  /\ \E bytes, start : Stream(bytes, start) /\ \E p \in Nat : Follows(bytes, p) /\ Taken(start, p)

LEMMA BodiesAreBytes ==
  ASSUME ReaderTypeOK
  PROVE  \A k \in 1 .. Len(sent) : sent[k] \in Seq(Int) /\ Len(sent[k]) \in Nat
<1> SUFFICES ASSUME NEW k \in 1 .. Len(sent)
             PROVE  sent[k] \in Seq(Int) /\ Len(sent[k]) \in Nat
  OBVIOUS
<1>1. sent[k] \in Bodies
  BY DEF ReaderTypeOK
<1>2. sent[k] \in Seq(0 .. 99)
  BY <1>1, SignalReaderAssumption
<1>3. 0 .. 99 \subseteq Int
  OBVIOUS
<1>4. sent[k] \in Seq(Int)
  BY <1>2, <1>3, SeqMonotonic
<1> QED BY <1>4

LEMMA Numbers ==
  ASSUME ReaderTypeOK
  PROVE  /\ Len(sent) \in Nat /\ Len(wire) \in Nat /\ Len(baos) \in Nat
         /\ Len(buffer) \in Nat /\ Len(got) \in Nat /\ MaxSignals \in Nat
BY SignalReaderAssumption DEF ReaderTypeOK

(* The place of the first line's end, when all bytes in front of it differ  *)
(* from CR: the line is seen once its LF has arrived.                       *)
LEMMA NewlineAt ==
  ASSUME NEW b \in Seq(Int), NEW m \in Nat \ {0},
         \A j \in 1 .. Len(b) : j < m => b[j] # CR,
         m <= Len(b) => b[m] = CR,
         m + 1 <= Len(b) => b[m + 1] = LF
  PROVE  findNewline(b) = IF m < Len(b) THEN m ELSE 0
<1> DEFINE ends == {j \in 1 .. Len(b) - 1 : b[j] = CR /\ b[j + 1] = LF}
<1>1. Len(b) \in Nat
  OBVIOUS
<1>2. \A j \in ends : j \in Int /\ m <= j
  BY <1>1
<1>3. CASE m < Len(b)
  <2>1. m \in ends
    BY <1>1, <1>3
  <2>2. Min(ends) = m
    <3> HIDE DEF ends
    <3>1. PICK x : x \in ends /\ (\A y \in ends : x <= y) /\ x = Min(ends)
      BY <1>2, <2>1 DEF Min
    <3>2. x \in Int /\ m <= x /\ x <= m
      BY <1>2, <2>1, <3>1
    <3> QED BY <3>1, <3>2
  <2> QED BY <1>3, <2>1, <2>2 DEF findNewline
<1>4. CASE ~(m < Len(b))
  <2>1. ends = {}
    BY <1>1, <1>4
  <2> QED BY <1>4, <2>1 DEF findNewline
<1> QED BY <1>3, <1>4

LEMMA Cut ==
  ASSUME NEW s \in Seq(Int), NEW n \in 0 .. Len(s)
  PROVE  /\ SubSeq(s, 1, n) \in Seq(Int) /\ Len(SubSeq(s, 1, n)) = n
         /\ \A j \in 1 .. n : SubSeq(s, 1, n)[j] = s[j]
         /\ SubSeq(s, n + 1, Len(s)) \in Seq(Int) /\ Len(SubSeq(s, n + 1, Len(s))) = Len(s) - n
         /\ \A j \in 1 .. Len(s) - n : SubSeq(s, n + 1, Len(s))[j] = s[n + j]
<1>1. Len(s) \in Nat /\ n \in Int
  OBVIOUS
<1>2. \A j \in 1 .. n : s[j] \in Int
  OBVIOUS
<1>3. \A j \in n + 1 .. Len(s) : s[j] \in Int
  OBVIOUS
<1>4. /\ SubSeq(s, 1, n) \in Seq(Int) /\ Len(SubSeq(s, 1, n)) = n
      /\ \A j \in 1 .. n : SubSeq(s, 1, n)[j] = s[j]
  BY <1>1, <1>2, SubSeqProperties
<1>5. /\ SubSeq(s, n + 1, Len(s)) \in Seq(Int)
      /\ Len(SubSeq(s, n + 1, Len(s))) = Len(s) - n
      /\ \A j \in 1 .. Len(s) - n : SubSeq(s, n + 1, Len(s))[j] = s[n + j]
  BY <1>1, <1>3, SubSeqProperties
<1> QED BY <1>4, <1>5

LEMMA Joined ==
  ASSUME NEW s \in Seq(Int), NEW t \in Seq(Int)
  PROVE  /\ s \o t \in Seq(Int) /\ Len(s \o t) = Len(s) + Len(t)
         /\ \A j \in 1 .. Len(s) : (s \o t)[j] = s[j]
         /\ \A j \in 1 .. Len(t) : (s \o t)[Len(s) + j] = t[j]
<1>1. Len(s) \in Nat /\ Len(t) \in Nat
  OBVIOUS
<1>2. /\ s \o t \in Seq(Int) /\ Len(s \o t) = Len(s) + Len(t)
      /\ \A j \in 1 .. Len(s) + Len(t) :
           (s \o t)[j] = IF j <= Len(s) THEN s[j] ELSE t[j - Len(s)]
  BY ConcatProperties
<1>3. ASSUME NEW j \in 1 .. Len(t) PROVE (s \o t)[Len(s) + j] = t[j]
  <2>1. Len(s) + j \in 1 .. Len(s) + Len(t) /\ ~(Len(s) + j <= Len(s))
        /\ (Len(s) + j) - Len(s) = j
    BY <1>1
  <2> QED BY <1>2, <2>1
<1> QED BY <1>1, <1>2, <1>3

-----------------------------------------------------------------------------
LEMMA InitReader == ReaderInit => ReaderIInv
<1> SUFFICES ASSUME ReaderInit PROVE ReaderIInv
  OBVIOUS
<1>1. /\ sent = <<>> /\ closed = FALSE /\ wire = <<>> /\ baos = <<>> /\ at = "wait"
      /\ request = 0 /\ length = 0 /\ buffer = <<>> /\ got = <<>>
  BY DEF ReaderInit
<1>2. ReaderTypeOK /\ SignalsAsSent
  <2>1. \A S : <<>> \in Seq(S) /\ Len(<<>>) = 0 /\ DOMAIN <<>> = {}
    BY EmptySeq
  <2>2. SignalsAsSent
    BY <1>1, <2>1 DEF SignalsAsSent
  <2>3. sent \in Seq(Bodies) /\ got \in Seq(Answer)
    BY <1>1, <2>1
  <2>4. wire \in Seq(Int) /\ baos \in Seq(Int) /\ buffer \in Seq(Int)
    BY <1>1, <2>1
  <2>5. Len(sent) <= MaxSignals
    BY <1>1, <2>1, SignalReaderAssumption
  <2>6. at \in {"wait"} /\ request \in Int /\ length \in Int
    BY <1>1
  <2>7. closed \in BOOLEAN
    BY <1>1, Zenon
  <2>8. ReaderTypeOK
    BY <2>3, <2>4, <2>5, <2>6, <2>7 DEF ReaderTypeOK
  <2> QED BY <2>2, <2>8
<1> DEFINE start == [k \in 1 .. Len(sent) + 1 |-> 0]
<1>3. Len(sent) = 0 /\ start \in [1 .. Len(sent) + 1 -> Nat] /\ start[1] = 0
  BY <1>1
<1> HIDE DEF start
<1>4. Stream(<<>>, start)
  BY <1>3, EmptySeq DEF Stream
<1>5. Follows(<<>>, 0) /\ Taken(start, 0)
  BY <1>1, <1>3 DEF Follows, Taken
<1> QED BY <1>2, <1>4, <1>5 DEF ReaderIInv

(* Bytes that are read from the socket move from what is under way to the   *)
(* buffer.                                                                  *)
LEMMA Arrival ==
  ASSUME NEW bytes, NEW p \in Nat, NEW n \in 1 .. Len(wire),
         ReaderTypeOK, Follows(bytes, p), bytes \in Seq(Int),
         Read(n), baos' = baos \o SubSeq(wire, 1, n), closed' = closed
  PROVE  Follows(bytes, p)' /\ baos' \in Seq(Int) /\ wire' \in Seq(Int)
<1> DEFINE s == SubSeq(wire, 1, n)
<1>1. wire \in Seq(Int) /\ baos \in Seq(Int) /\ n \in 0 .. Len(wire)
      /\ Len(wire) \in Nat /\ Len(baos) \in Nat /\ Len(bytes) \in Nat
  BY DEF ReaderTypeOK
<1>2. /\ s \in Seq(Int) /\ Len(s) = n
      /\ \A j \in 1 .. n : s[j] = wire[j]
  BY <1>1, Cut
<1>3. /\ wire' \in Seq(Int) /\ Len(wire') = Len(wire) - n
      /\ \A j \in 1 .. Len(wire) - n : wire'[j] = wire[n + j]
  BY <1>1, Cut DEF Read
<1> HIDE DEF s
<1>4. /\ baos' \in Seq(Int) /\ Len(baos') = Len(baos) + n
      /\ \A j \in 1 .. Len(baos) : baos'[j] = baos[j]
      /\ \A j \in 1 .. n : baos'[Len(baos) + j] = s[j]
  <2>1. baos' = baos \o s
    BY DEF s
  <2> QED BY <1>1, <1>2, <2>1, Joined, SMTT(30)
<1>5. ASSUME NEW j \in 1 .. Len(baos') PROVE baos'[j] = bytes[p + j]
  <2>1. CASE j <= Len(baos)
    BY <1>1, <1>4, <2>1 DEF Follows
  <2>2. CASE j > Len(baos)
    <3> DEFINE l == j - Len(baos)
    <3>1. l \in 1 .. n /\ l \in 1 .. Len(wire) /\ Len(baos) + l = j
      BY <1>1, <1>4, <2>2
    <3>2. (p + Len(baos)) + l = p + j
      BY <1>1, <3>1
    <3> HIDE DEF l
    <3>3. baos'[j] = wire[l]
      BY <1>2, <1>4, <3>1
    <3>4. wire[l] = bytes[(p + Len(baos)) + l]
      BY <3>1 DEF Follows
    <3> QED BY <3>2, <3>3, <3>4
  <2> QED BY <1>1, <1>4, <2>1, <2>2, SMTT(30)
<1>6. ASSUME NEW j \in 1 .. Len(wire') PROVE wire'[j] = bytes[(p + Len(baos')) + j]
  <2>1. n + j \in 1 .. Len(wire) /\ (p + Len(baos)) + (n + j) = (p + Len(baos')) + j
        /\ j \in 1 .. Len(wire) - n
    BY <1>1, <1>3, <1>4
  <2> QED BY <1>3, <2>1 DEF Follows
<1>7. Len(baos') + Len(wire') = Len(baos) + Len(wire)
  BY <1>1, <1>3, <1>4
<1> QED BY <1>3, <1>4, <1>5, <1>6, <1>7 DEF Follows

(* What is taken from the front of the buffer.                              *)
TakeFront(n) ==
  baos' = SubSeq(baos, n + 1, Len(baos)) /\ wire' = wire /\ closed' = closed

(* Bytes that are taken from the front of the buffer.                       *)
LEMMA TakenFromBuffer ==
  ASSUME NEW bytes, NEW p \in Nat, NEW n \in 0 .. Len(baos),
         ReaderTypeOK, Follows(bytes, p), bytes \in Seq(Int),
         TakeFront(n)
  PROVE  /\ Follows(bytes, p + n)' /\ baos' \in Seq(Int) /\ Len(baos') = Len(baos) - n
         /\ \A j \in 1 .. n : SubSeq(baos, 1, n)[j] = bytes[p + j]
<1>1. wire \in Seq(Int) /\ baos \in Seq(Int)
      /\ Len(wire) \in Nat /\ Len(baos) \in Nat /\ Len(bytes) \in Nat
  BY DEF ReaderTypeOK
<1>2. /\ baos' \in Seq(Int) /\ Len(baos') = Len(baos) - n
      /\ \A j \in 1 .. Len(baos) - n : baos'[j] = baos[n + j]
      /\ \A j \in 1 .. n : SubSeq(baos, 1, n)[j] = baos[j]
  BY <1>1, Cut DEF TakeFront
<1>3. ASSUME NEW j \in 1 .. Len(baos') PROVE baos'[j] = bytes[(p + n) + j]
  <2>1. n + j \in 1 .. Len(baos) /\ p + (n + j) = (p + n) + j /\ j \in 1 .. Len(baos) - n
    BY <1>1, <1>2, SMTT(30)
  <2> QED BY <1>2, <2>1 DEF Follows
<1>4. (p + n) + (Len(baos') + Len(wire)) = p + (Len(baos) + Len(wire))
      /\ (p + n) + Len(baos') = p + Len(baos)
  BY <1>1, <1>2
<1>5. \A j \in 1 .. n : SubSeq(baos, 1, n)[j] = bytes[p + j]
  BY <1>1, <1>2 DEF Follows
<1>6. wire' = wire /\ closed' = closed
  BY DEF TakeFront
<1>7. Follows(bytes, p + n)'
  BY <1>3, <1>4, <1>6 DEF Follows
<1> QED BY <1>2, <1>5, <1>7

(* What of the position does not change when nothing is taken.              *)
LEMMA SameStream ==
  ASSUME NEW bytes, NEW start, Stream(bytes, start), sent' = sent
  PROVE  Stream(bytes, start)'
BY DEF Stream

LEMMA SendReader ==
  ASSUME ReaderIInv, NEW body \in Bodies, ServerSends(body)
  PROVE  ReaderIInv'
<1>1. PICK bytes, start : Stream(bytes, start) /\ \E p \in Nat : Follows(bytes, p) /\ Taken(start, p)
  BY DEF ReaderIInv
<1>2. PICK p \in Nat : Follows(bytes, p) /\ Taken(start, p)
  BY <1>1
<1>m. PICK m \in Nat : m = Len(sent)
  BY Numbers DEF ReaderIInv
<1> DEFINE signal == Signal(m + 1, body)
           all == bytes \o signal
           starts == [k \in 1 .. m + 2 |-> IF k <= m + 1 THEN start[k] ELSE Len(all)]
<1>3. ReaderTypeOK /\ SignalsAsSent
  BY DEF ReaderIInv
<1>4. /\ ~closed /\ m < MaxSignals /\ sent' = Append(sent, body) /\ wire' = wire \o signal
      /\ UNCHANGED <<closed, baos, at, request, length, buffer, got>>
  BY <1>m DEF ServerSends, parserVars
<1>5. /\ m \in Nat /\ m = Len(sent) /\ Len(wire) \in Nat /\ Len(baos) \in Nat /\ Len(got) \in Nat
      /\ bytes \in Seq(Int) /\ Len(bytes) \in Nat /\ MaxSignals \in Nat
  BY <1>1, <1>3, <1>m, Numbers DEF Stream
<1>6. body \in Seq(Int) /\ Len(body) \in Nat
  <2>1. body \in Seq(0 .. 99) /\ 0 .. 99 \subseteq Int
    BY SignalReaderAssumption
  <2>2. body \in Seq(Int)
    BY <2>1, SeqMonotonic
  <2> QED BY <2>2
<1> DEFINE head == <<Request(m + 1), CR, LF, ContentLength(Len(body)), CR, LF, CR, LF>>
<1>7. /\ head \in Seq(Int) /\ Len(head) = 8
      /\ head[1] = Request(m + 1) /\ head[2] = CR /\ head[3] = LF
      /\ head[4] = ContentLength(Len(body)) /\ head[5] = CR /\ head[6] = LF
      /\ head[7] = CR /\ head[8] = LF
  <2>1. Request(m + 1) \in Int /\ CR \in Int /\ LF \in Int /\ ContentLength(Len(body)) \in Int
    BY <1>5, <1>6 DEF Request, CR, LF, ContentLength
  <2> QED BY <2>1
<1>8. signal = head \o body
  BY DEF Signal
<1> HIDE DEF head
<1>9. /\ signal \in Seq(Int) /\ Len(signal) = 8 + Len(body)
      /\ \A j \in 1 .. 8 : signal[j] = head[j]
      /\ \A j \in 1 .. Len(body) : signal[8 + j] = body[j]
  <2> HIDE DEF signal
  <2>1. /\ head \o body \in Seq(Int) /\ Len(head \o body) = Len(head) + Len(body)
        /\ \A j \in 1 .. Len(head) : (head \o body)[j] = head[j]
        /\ \A j \in 1 .. Len(body) : (head \o body)[Len(head) + j] = body[j]
    BY <1>6, <1>7, Joined
  <2> QED BY <1>7, <1>8, <2>1
<1> HIDE DEF signal
<1>10. /\ all \in Seq(Int) /\ Len(all) = Len(bytes) + (8 + Len(body))
       /\ \A j \in 1 .. Len(bytes) : all[j] = bytes[j]
       /\ \A j \in 1 .. 8 + Len(body) : all[Len(bytes) + j] = signal[j]
  <2>1. /\ bytes \o signal \in Seq(Int) /\ Len(bytes \o signal) = Len(bytes) + Len(signal)
        /\ \A j \in 1 .. Len(bytes) : (bytes \o signal)[j] = bytes[j]
        /\ \A j \in 1 .. Len(signal) : (bytes \o signal)[Len(bytes) + j] = signal[j]
    BY <1>5, <1>9, Joined
  <2>2. all = bytes \o signal
    OBVIOUS
  <2> HIDE DEF all
  <2> QED BY <1>9, <2>1, <2>2
<1>11. /\ wire' \in Seq(Int) /\ Len(wire') = Len(wire) + (8 + Len(body))
       /\ \A j \in 1 .. Len(wire) : wire'[j] = wire[j]
       /\ \A j \in 1 .. 8 + Len(body) : wire'[Len(wire) + j] = signal[j]
  <2>1. wire \in Seq(Int) /\ wire' = wire \o signal
    BY <1>3, <1>4 DEF ReaderTypeOK
  <2>2. /\ wire \o signal \in Seq(Int) /\ Len(wire \o signal) = Len(wire) + Len(signal)
        /\ \A j \in 1 .. Len(wire) : (wire \o signal)[j] = wire[j]
        /\ \A j \in 1 .. Len(signal) : (wire \o signal)[Len(wire) + j] = signal[j]
    BY <1>9, <2>1, Joined
  <2> QED BY <1>9, <2>1, <2>2
<1> HIDE DEF all
<1>12. /\ sent' \in Seq(Bodies) /\ Len(sent') = m + 1 /\ sent'[m + 1] = body
       /\ \A k \in 1 .. m : sent'[k] = sent[k]
  <2>1. sent \in Seq(Bodies) /\ sent' = Append(sent, body) /\ m = Len(sent)
    BY <1>3, <1>4, <1>5 DEF ReaderTypeOK
  <2> QED BY <2>1
<1> DEFINE x == Len(body)
           y == Len(bytes)
           v == Len(baos)
           q == Len(wire)
<1>n. /\ x \in Nat /\ y \in Nat /\ v \in Nat /\ q \in Nat /\ m \in Nat
      /\ Len(all) = y + (8 + x) /\ Len(all) \in Nat
      /\ Len(wire') = q + (8 + x) /\ Len(wire') \in Nat
      /\ Len(sent') = m + 1
  BY <1>5, <1>6, <1>10, <1>11, <1>12
<1>l. /\ x = Len(body) /\ y = Len(bytes) /\ v = Len(baos) /\ q = Len(wire)
  OBVIOUS
<1> HIDE DEF x, y, v, q
<1>13. ReaderTypeOK'
  <2>1. Len(sent') <= MaxSignals
    BY <1>4, <1>5, <1>12
  <2> QED BY <1>3, <1>4, <1>11, <1>12, <2>1 DEF ReaderTypeOK
<1>14. SignalsAsSent'
  <2>1. \A k \in DOMAIN got : k <= Len(sent) /\ k \in 1 .. m
    BY <1>3, <1>5 DEF SignalsAsSent, ReaderTypeOK
  <2>2. ASSUME NEW k \in DOMAIN got'
        PROVE  k <= Len(sent') /\ got'[k] = [request |-> Request(k), body |-> sent'[k]]
    <3>1. got' = got /\ k \in 1 .. m /\ k <= Len(sent')
      BY <1>4, <1>5, <1>12, <2>1
    <3>2. got[k] = [request |-> Request(k), body |-> sent[k]]
      BY <1>3, <3>1 DEF SignalsAsSent
    <3> QED BY <1>12, <3>1, <3>2
  <2> QED BY <1>3, <1>4, <2>2 DEF SignalsAsSent
<1>15. starts \in [1 .. Len(sent') + 1 -> Nat] /\ starts[m + 2] = Len(all)
       /\ \A k \in 1 .. m + 1 : starts[k] = start[k] /\ start[k] \in Nat
  <2>1. start \in [1 .. m + 1 -> Nat]
    BY <1>1, <1>5 DEF Stream
  <2>2. Len(sent') + 1 = m + 2 /\ ~(m + 2 <= m + 1) /\ m + 2 \in 1 .. m + 2
    BY <1>n
  <2>3. \A k \in 1 .. m + 1 : k \in 1 .. m + 2 /\ k <= m + 1 /\ start[k] \in Nat
    BY <1>n, <2>1
  <2>4. starts[m + 2] = Len(all) /\ \A k \in 1 .. m + 1 : starts[k] = start[k]
    BY <2>2, <2>3
  <2>5. starts \in [1 .. m + 2 -> Nat]
    <3>1. ASSUME NEW k \in 1 .. m + 2
          PROVE  (IF k <= m + 1 THEN start[k] ELSE Len(all)) \in Nat
      <4>1. k <= m + 1 => k \in 1 .. m + 1
        BY <1>n
      <4> QED BY <1>n, <2>1, <4>1
    <3> QED BY <3>1
  <2> HIDE DEF starts
  <2> QED BY <2>2, <2>3, <2>4, <2>5
<1> HIDE DEF starts
<1>16. ASSUME NEW k \in 1 .. Len(sent')
       PROVE  /\ starts[k + 1] = starts[k] + (8 + Len(sent'[k]))
              /\ starts[k + 1] <= Len(all)
              /\ all[starts[k] + 1] = Request(k)
              /\ all[starts[k] + 2] = CR /\ all[starts[k] + 3] = LF
              /\ all[starts[k] + 4] = ContentLength(Len(sent'[k]))
              /\ all[starts[k] + 5] = CR /\ all[starts[k] + 6] = LF
              /\ all[starts[k] + 7] = CR /\ all[starts[k] + 8] = LF
              /\ \A j \in 1 .. Len(sent'[k]) : all[(starts[k] + 8) + j] = sent'[k][j]
  <2>1. CASE k <= m
    <3>1. /\ k \in 1 .. m /\ sent'[k] = sent[k] /\ Len(sent[k]) \in Nat
          /\ starts[k] = start[k] /\ starts[k + 1] = start[k + 1] /\ start[k] \in Nat
      <4>1. k \in 1 .. m /\ k \in 1 .. Len(sent) /\ k \in 1 .. m + 1 /\ k + 1 \in 1 .. m + 1
        BY <1>5, <1>n, <2>1
      <4>2. Len(sent[k]) \in Nat
        BY <1>3, <4>1, BodiesAreBytes
      <4> QED BY <1>12, <1>15, <4>1, <4>2
    <3>0. k \in 1 .. Len(sent)
      BY <1>5, <3>1
    <3>2. /\ start[k + 1] = start[k] + (8 + Len(sent[k]))
          /\ start[k + 1] <= Len(bytes)
      BY <1>1, <3>0 DEF Stream
    <3> DEFINE c == start[k]
               z == Len(sent[k])
    <3>c. c \in Nat /\ z \in Nat /\ c + (8 + z) <= y
      BY <1>l, <3>1, <3>2
    <3>3. \A j \in 1 .. 8 + Len(sent[k]) : start[k] + j \in 1 .. Len(bytes)
      <4>1. z = Len(sent[k]) /\ c = start[k]
        OBVIOUS
      <4> HIDE DEF c, z
      <4>2. \A j \in 1 .. 8 + z : c + j \in 1 .. y
        BY <1>n, <3>c
      <4> QED BY <1>l, <4>1, <4>2
    <3> HIDE DEF c, z
    <3>4. \A j \in 1 .. 8 + Len(sent[k]) : all[start[k] + j] = bytes[start[k] + j]
      BY <1>10, <3>3
    <3>5. /\ bytes[start[k] + 1] = Request(k)
          /\ bytes[start[k] + 2] = CR /\ bytes[start[k] + 3] = LF
          /\ bytes[start[k] + 4] = ContentLength(Len(sent[k]))
          /\ bytes[start[k] + 5] = CR /\ bytes[start[k] + 6] = LF
          /\ bytes[start[k] + 7] = CR /\ bytes[start[k] + 8] = LF
          /\ \A j \in 1 .. Len(sent[k]) : bytes[(start[k] + 8) + j] = sent[k][j]
      BY <1>1, <3>0 DEF Stream
    <3>6. ASSUME NEW j \in 1 .. Len(sent[k])
          PROVE  all[(start[k] + 8) + j] = sent[k][j]
      <4>1. 8 + j \in 1 .. 8 + Len(sent[k]) /\ start[k] + (8 + j) = (start[k] + 8) + j
        BY <3>1, SMTT(30)
      <4> QED BY <3>4, <3>5, <4>1
    <3>7. \A j \in 1 .. 8 : all[start[k] + j] = bytes[start[k] + j]
      <4>1. \A j \in 1 .. 8 : j \in 1 .. 8 + Len(sent[k])
        BY <3>1
      <4> QED BY <3>4, <4>1
    <3>8. /\ all[start[k] + 1] = Request(k)
          /\ all[start[k] + 2] = CR /\ all[start[k] + 3] = LF
          /\ all[start[k] + 4] = ContentLength(Len(sent[k]))
          /\ all[start[k] + 5] = CR /\ all[start[k] + 6] = LF
          /\ all[start[k] + 7] = CR /\ all[start[k] + 8] = LF
      BY <3>5, <3>7
    <3>9. starts[k + 1] <= Len(all)
      <4>1. Len(bytes) <= Len(all)
        BY <1>l, <1>n
      <4>2. start[k + 1] \in Nat /\ Len(bytes) \in Nat /\ Len(all) \in Nat
        BY <1>l, <1>n, <3>1, <3>2, SMTT(30)
      <4> QED BY <3>1, <3>2, <4>1, <4>2
    <3> QED BY <3>1, <3>2, <3>6, <3>8, <3>9
  <2>2. CASE ~(k <= m)
    <3>1. k = m + 1 /\ k + 1 = m + 2
      BY <1>5, <1>12, <2>2
    <3>2. starts[k] = Len(bytes) /\ sent'[k] = body /\ starts[k + 1] = Len(all)
      BY <1>1, <1>5, <1>12, <1>15, <3>1 DEF Stream
    <3>3. /\ starts[k + 1] = starts[k] + (8 + Len(sent'[k]))
          /\ starts[k + 1] <= Len(all)
      BY <1>5, <1>6, <1>10, <3>2
    <3>4. \A j \in 1 .. 8 : all[Len(bytes) + j] = head[j]
      <4>1. \A j \in 1 .. 8 : j \in 1 .. 8 + Len(body)
        BY <1>6
      <4> QED BY <1>9, <1>10, <4>1
    <3>5. ASSUME NEW j \in 1 .. Len(body)
          PROVE  all[(Len(bytes) + 8) + j] = body[j]
      <4>1. 8 + j \in 1 .. 8 + Len(body) /\ Len(bytes) + (8 + j) = (Len(bytes) + 8) + j
        BY <1>5, <1>6
      <4> QED BY <1>9, <1>10, <4>1
    <3>6. /\ all[Len(bytes) + 1] = Request(k)
          /\ all[Len(bytes) + 2] = CR /\ all[Len(bytes) + 3] = LF
          /\ all[Len(bytes) + 4] = ContentLength(Len(body))
          /\ all[Len(bytes) + 5] = CR /\ all[Len(bytes) + 6] = LF
          /\ all[Len(bytes) + 7] = CR /\ all[Len(bytes) + 8] = LF
      <4>1. /\ 1 \in 1 .. 8 /\ 2 \in 1 .. 8 /\ 3 \in 1 .. 8 /\ 4 \in 1 .. 8
            /\ 5 \in 1 .. 8 /\ 6 \in 1 .. 8 /\ 7 \in 1 .. 8 /\ 8 \in 1 .. 8
        OBVIOUS
      <4>2. /\ all[Len(bytes) + 1] = head[1] /\ all[Len(bytes) + 2] = head[2]
            /\ all[Len(bytes) + 3] = head[3] /\ all[Len(bytes) + 4] = head[4]
        BY <3>4, <4>1
      <4>3. /\ all[Len(bytes) + 5] = head[5] /\ all[Len(bytes) + 6] = head[6]
            /\ all[Len(bytes) + 7] = head[7] /\ all[Len(bytes) + 8] = head[8]
        BY <3>4, <4>1
      <4> HIDE DEF all, head
      <4> QED BY <1>7, <3>1, <4>2, <4>3
    <3> QED BY <3>2, <3>3, <3>5, <3>6
  <2> QED BY <2>1, <2>2
<1>17. Stream(all, starts)'
  <2>1. starts[1] = 0
    BY <1>1, <1>5, <1>15 DEF Stream
  <2>2. Len(sent') + 1 = m + 2
    BY <1>n
  <2>3. starts[Len(sent') + 1] = Len(all) /\ starts \in [1 .. Len(sent') + 1 -> Nat]
    BY <1>15, <2>2
  <2> QED BY <1>10, <1>16, <2>1, <2>3 DEF Stream
<1>18. Follows(all, p)'
  <2>1. p + (Len(baos) + Len(wire)) = Len(bytes)
    BY <1>2, <1>4 DEF Follows
  <2>2. ASSUME NEW j \in 1 .. Len(baos) PROVE baos[j] = all[p + j]
    <3>1. p + j \in 1 .. Len(bytes)
      BY <1>5, <2>1
    <3> QED BY <1>2, <1>10, <3>1 DEF Follows
  <2>3. ASSUME NEW j \in 1 .. Len(wire') PROVE wire'[j] = all[(p + Len(baos)) + j]
    <3>1. CASE j <= Len(wire)
      <4>1. j \in 1 .. Len(wire) /\ (p + Len(baos)) + j \in 1 .. Len(bytes)
        BY <1>5, <2>1, <3>1
      <4> QED BY <1>2, <1>10, <1>11, <4>1 DEF Follows
    <3>2. CASE j > Len(wire)
      <4> DEFINE l == j - Len(wire)
      <4>1. l \in 1 .. 8 + Len(body) /\ Len(wire) + l = j
            /\ Len(bytes) + l = (p + Len(baos)) + j
        BY <1>l, <1>n, <2>1, <3>2, SMTT(30)
      <4> HIDE DEF l
      <4>2. wire'[j] = signal[l] /\ all[Len(bytes) + l] = signal[l]
        BY <1>10, <1>11, <4>1
      <4> QED BY <4>1, <4>2
    <3> QED BY <1>5, <1>6, <1>11, <3>1, <3>2
  <2>4. p + (Len(baos) + Len(wire')) = Len(all) /\ Len(all) <= Len(all)
    BY <1>l, <1>n, <2>1
  <2>5. baos' = baos
    BY <1>4
  <2>6. p + (Len(baos') + Len(wire')) <= Len(all) /\ p + (Len(baos') + Len(wire')) = Len(all)
    BY <1>n, <2>4, <2>5
  <2>7. /\ \A j \in 1 .. Len(baos') : baos'[j] = all[p + j]
        /\ \A j \in 1 .. Len(wire') : wire'[j] = all[(p + Len(baos')) + j]
    BY <2>2, <2>3, <2>5
  <2> QED BY <2>6, <2>7 DEF Follows
<1>19. Taken(starts, p)'
  <2> DEFINE k == Len(got) + 1
  <2>1. Len(got) <= m /\ k \in 1 .. m + 1 /\ starts[k] = start[k] /\ Len(got) <= Len(sent')
    BY <1>2, <1>5, <1>12, <1>15 DEF Taken
  <2>2. ASSUME k <= m PROVE sent'[k] = sent[k] /\ k <= Len(sent')
    BY <1>5, <1>12, <2>1, <2>2
  <2>3. /\ at' = at /\ request' = request /\ length' = length /\ got' = got
        /\ buffer' = buffer /\ baos' = baos
    BY <1>4
  <2>4. at \in {"headers", "buffered", "body"} => k <= m /\ request = Request(k)
    BY <1>2, <1>5 DEF Taken
  <2> QED BY <1>2, <2>1, <2>2, <2>3, <2>4 DEF Taken
<1> QED BY <1>13, <1>14, <1>17, <1>18, <1>19 DEF ReaderIInv

(* The invariant, for the bytes, the beginnings and the place it is about.  *)
Reading(bytes, start, p) ==
  ReaderTypeOK /\ SignalsAsSent /\ Stream(bytes, start) /\ Follows(bytes, p) /\ Taken(start, p)

LEMMA WhileReading ==
  ASSUME NEW bytes, NEW start, NEW p \in Nat, Reading(bytes, start, p)'
  PROVE  ReaderIInv'
BY DEF Reading, ReaderIInv

LEMMA ReadingNumbers ==
  ASSUME NEW bytes, NEW start, NEW p \in Nat, Reading(bytes, start, p)
  PROVE  /\ Len(sent) \in Nat /\ Len(wire) \in Nat /\ Len(baos) \in Nat
         /\ Len(buffer) \in Nat /\ Len(got) \in Nat
         /\ bytes \in Seq(Int) /\ Len(bytes) \in Nat
         /\ \A k \in 1 .. Len(sent) + 1 : start[k] \in Nat
         /\ \A k \in 1 .. Len(sent) : sent[k] \in Seq(Int) /\ Len(sent[k]) \in Nat
<1>1. /\ Len(sent) \in Nat /\ Len(wire) \in Nat /\ Len(baos) \in Nat
      /\ Len(buffer) \in Nat /\ Len(got) \in Nat
  BY Numbers DEF Reading
<1>2. \A k \in 1 .. Len(sent) : sent[k] \in Seq(Int) /\ Len(sent[k]) \in Nat
  BY BodiesAreBytes DEF Reading
<1>3. /\ bytes \in Seq(Int) /\ Len(bytes) \in Nat
      /\ \A k \in 1 .. Len(sent) + 1 : start[k] \in Nat
  <2>1. bytes \in Seq(Int) /\ start \in [1 .. Len(sent) + 1 -> Nat]
    BY DEF Reading, Stream
  <2> QED BY <2>1
<1> QED BY <1>1, <1>2, <1>3

LEMMA SameSignals ==
  ASSUME SignalsAsSent, sent' = sent, got' = got, at' # "failed" \/ closed'
  PROVE  SignalsAsSent'
BY DEF SignalsAsSent

LEMMA CloseReader ==
  ASSUME NEW bytes, NEW start, NEW p \in Nat, Reading(bytes, start, p), ServerCloses
  PROVE  Reading(bytes, start, p)'
<1>1. /\ closed' = TRUE
      /\ UNCHANGED <<sent, baos, at, request, length, buffer, got>>
  BY DEF ServerCloses, parserVars
<1>2. PICK n \in 0 .. Len(wire) : wire' = SubSeq(wire, 1, n)
  BY DEF ServerCloses
<1>3. /\ Len(wire) \in Nat /\ Len(baos) \in Nat /\ wire \in Seq(Int) /\ Len(bytes) \in Nat
  BY ReadingNumbers DEF Reading, ReaderTypeOK
<1>4. /\ wire' \in Seq(Int) /\ Len(wire') = n
      /\ \A j \in 1 .. n : wire'[j] = wire[j]
  BY <1>2, <1>3, Cut
<1>5. closed' \in BOOLEAN
  BY <1>1, Zenon
<1>6. ReaderTypeOK'
  BY <1>1, <1>4, <1>5 DEF Reading, ReaderTypeOK
<1>7. SignalsAsSent' /\ Stream(bytes, start)'
  BY <1>1, SameSignals, SameStream DEF Reading
<1>8. p + (Len(baos) + n) <= Len(bytes)
  BY <1>3 DEF Reading, Follows
<1>9. ASSUME NEW j \in 1 .. n PROVE wire'[j] = bytes[(p + Len(baos)) + j]
  <2>1. j \in 1 .. Len(wire)
    BY <1>3
  <2> QED BY <1>4, <2>1 DEF Reading, Follows
<1>10. Follows(bytes, p)'
  BY <1>1, <1>4, <1>8, <1>9 DEF Reading, Follows
<1>11. Taken(start, p)'
  BY <1>1 DEF Reading, Taken
<1> QED BY <1>6, <1>7, <1>10, <1>11 DEF Reading

(* More bytes arrive while the listener waits or looks for a line.          *)
LEMMA MoreReader ==
  ASSUME NEW bytes, NEW start, NEW p \in Nat, Reading(bytes, start, p),
         waitForAvailable \/ FillLine
  PROVE  Reading(bytes, start, p)'
<1>1. UNCHANGED <<sent, closed, request, length, buffer, got>>
  BY DEF waitForAvailable, FillLine, parserVars
<1>2. Stream(bytes, start)' /\ bytes \in Seq(Int) /\ ReaderTypeOK /\ Follows(bytes, p)
  BY <1>1, SameStream, ReadingNumbers DEF Reading
<1>3. ASSUME NEW n \in 1 .. Len(wire), Read(n), baos' = baos \o SubSeq(wire, 1, n),
             at \in {"wait", "request", "headers"}, at' \in {"request", "headers"},
             at \in {"request", "headers"} => at' = at, at = "wait" => at' = "request"
      PROVE  Reading(bytes, start, p)'
  <2>1. Follows(bytes, p)' /\ baos' \in Seq(Int) /\ wire' \in Seq(Int)
    BY <1>1, <1>2, <1>3, Arrival
  <2>2. ReaderTypeOK'
    BY <1>1, <1>2, <1>3, <2>1 DEF ReaderTypeOK
  <2>3. SignalsAsSent'
    BY <1>1, <1>3, SameSignals DEF Reading
  <2>4. Taken(start, p)'
    BY <1>1, <1>3 DEF Reading, Taken
  <2> QED BY <1>2, <2>1, <2>2, <2>3, <2>4 DEF Reading
<1>4. CASE waitForAvailable
  BY <1>3, <1>4 DEF waitForAvailable
<1>5. CASE FillLine
  <2>1. CASE \E n \in 1 .. Len(wire) :
               Read(n) /\ baos' = baos \o SubSeq(wire, 1, n) /\ at' = at
    BY <1>3, <1>5, <2>1 DEF FillLine
  <2>2. CASE closed /\ at' = "failed" /\ wire' = wire /\ baos' = baos
    <3>1. ReaderTypeOK'
      BY <1>1, <1>2, <2>2 DEF ReaderTypeOK
    <3>2. SignalsAsSent'
      BY <1>1, <2>2, SameSignals DEF Reading
    <3>3. Follows(bytes, p)' /\ Taken(start, p)'
      BY <1>1, <2>2 DEF Reading, Follows, Taken
    <3> QED BY <1>2, <3>1, <3>2, <3>3 DEF Reading
  <2> QED BY <1>5, <2>1, <2>2 DEF FillLine
<1> QED BY <1>4, <1>5

(* A line is taken from the front of the buffer.                            *)
LEMMA LineTaken ==
  ASSUME NEW bytes, NEW start, NEW p \in Nat, Reading(bytes, start, p),
         NEW m \in {1, 2}, HasLine,
         m = 2 => bytes[p + 1] # CR, bytes[p + m] = CR, bytes[p + (m + 1)] = LF,
         baos' = Rest(baos), UNCHANGED <<wire, closed>>
  PROVE  /\ Line = SubSeq(baos, 1, m - 1) /\ m - 1 \in 0 .. Len(baos)
         /\ m = 2 => Line # <<>> /\ Line[1] = bytes[p + 1] /\ Line[1] \in Int
         /\ m = 1 => Line = <<>>
         /\ Follows(bytes, p + (m + 1))' /\ baos' \in Seq(Int)
<1>1. baos \in Seq(Int) /\ Len(baos) \in Nat /\ m \in Nat \ {0} /\ bytes \in Seq(Int)
  BY ReadingNumbers DEF Reading, ReaderTypeOK
<1>2. \A j \in 1 .. Len(baos) : baos[j] = bytes[p + j]
  BY DEF Reading, Follows
<1>3. \A j \in 1 .. Len(baos) : j < m => baos[j] # CR
  BY <1>1, <1>2, SMTT(30)
<1>4. /\ m <= Len(baos) => baos[m] = CR
      /\ m + 1 <= Len(baos) => baos[m + 1] = LF
  <2>1. /\ m <= Len(baos) => m \in 1 .. Len(baos)
        /\ m + 1 <= Len(baos) => m + 1 \in 1 .. Len(baos)
    BY <1>1
  <2> QED BY <1>2, <2>1
<1>5. findNewline(baos) = IF m < Len(baos) THEN m ELSE 0
  BY <1>1, <1>3, <1>4, NewlineAt
<1>6. findNewline(baos) = m /\ m < Len(baos)
  BY <1>1, <1>5 DEF HasLine
<1>7. Line = SubSeq(baos, 1, m - 1) /\ baos' = SubSeq(baos, (m + 1) + 1, Len(baos))
  <2>1. m + 2 = (m + 1) + 1
    BY <1>1
  <2> QED BY <1>6, <2>1 DEF Line, Rest
<1>8. m - 1 \in 0 .. Len(baos) /\ m + 1 \in 0 .. Len(baos)
  BY <1>1, <1>6
<1>9. /\ SubSeq(baos, 1, m - 1) \in Seq(Int) /\ Len(SubSeq(baos, 1, m - 1)) = m - 1
      /\ \A j \in 1 .. m - 1 : SubSeq(baos, 1, m - 1)[j] = baos[j]
  BY <1>1, <1>8, Cut
<1>10. TakeFront(m + 1)
  BY <1>7 DEF TakeFront
<1>11. Follows(bytes, p + (m + 1))' /\ baos' \in Seq(Int)
  BY <1>1, <1>8, <1>10, TakenFromBuffer DEF Reading
<1>12. ASSUME m = 2 PROVE Line # <<>> /\ Line[1] = bytes[p + 1] /\ Line[1] \in Int
  <2>1. Len(Line) = 1 /\ Line[1] = baos[1] /\ Line \in Seq(Int)
    BY <1>7, <1>9, <1>12
  <2>2. 1 \in 1 .. Len(baos)
    BY <1>1, <1>6
  <2>3. baos[1] = bytes[p + 1] /\ baos[1] \in Int
    BY <1>1, <1>2, <2>2
  <2>4. Line # <<>>
    BY <2>1, EmptySeq
  <2> QED BY <2>1, <2>3, <2>4
<1>13. ASSUME m = 1 PROVE Line = <<>>
  <2>1. Len(Line) = 0 /\ Line \in Seq(Int)
    BY <1>7, <1>9, <1>13
  <2> QED BY <2>1, EmptySeq
<1> QED BY <1>7, <1>8, <1>11, <1>12, <1>13

(* The bytes of the signal the listener is at, if there is one.             *)
LEMMA SignalBytes ==
  ASSUME NEW bytes, NEW start, NEW p \in Nat, Reading(bytes, start, p),
         NEW k, k = Len(got) + 1, k <= Len(sent)
  PROVE  /\ k \in 1 .. Len(sent) /\ k + 1 \in 1 .. Len(sent) + 1
         /\ start[k] \in Nat /\ Len(sent[k]) \in Nat /\ sent[k] \in Seq(Int)
         /\ start[k + 1] = start[k] + (8 + Len(sent[k]))
         /\ bytes[start[k] + 1] = Request(k) /\ Request(k) # CR /\ Request(k) \in Int
         /\ bytes[start[k] + 2] = CR /\ bytes[start[k] + 3] = LF
         /\ bytes[start[k] + 4] = ContentLength(Len(sent[k]))
         /\ ContentLength(Len(sent[k])) # CR
         /\ ContentLength(Len(sent[k])) - ContentLength(0) = Len(sent[k])
         /\ bytes[start[k] + 5] = CR /\ bytes[start[k] + 6] = LF
         /\ bytes[start[k] + 7] = CR /\ bytes[start[k] + 8] = LF
         /\ \A j \in 1 .. Len(sent[k]) : bytes[(start[k] + 8) + j] = sent[k][j]
<1>1. k \in 1 .. Len(sent) /\ k \in 1 .. Len(sent) + 1 /\ k + 1 \in 1 .. Len(sent) + 1
  BY ReadingNumbers
<1>2. start[k] \in Nat /\ Len(sent[k]) \in Nat /\ sent[k] \in Seq(Int)
  BY <1>1, ReadingNumbers
<1>3. Request(k) # CR /\ Request(k) \in Int
  BY <1>1 DEF Request, CR
<1>4. /\ ContentLength(Len(sent[k])) # CR
      /\ ContentLength(Len(sent[k])) - ContentLength(0) = Len(sent[k])
  BY <1>2 DEF ContentLength, CR
<1>5. Stream(bytes, start)
  BY DEF Reading
<1> QED BY <1>1, <1>2, <1>3, <1>4, <1>5 DEF Stream

LEMMA RequestReader ==
  ASSUME NEW bytes, NEW start, NEW p \in Nat, Reading(bytes, start, p), readSignalRequest
  PROVE  Reading(bytes, start, p + 3)'
<1> DEFINE k == Len(got) + 1
<1>1. /\ at = "request" /\ HasLine /\ at' = "headers" /\ request' = Line[1]
      /\ baos' = Rest(baos) /\ length' = 0 /\ buffer' = <<>>
      /\ UNCHANGED <<sent, closed, wire, got>>
  BY DEF readSignalRequest
<1>2. p = start[k] /\ Len(got) <= Len(sent)
  BY <1>1 DEF Reading, Taken
<1>3. k <= Len(sent)
  <2> SUFFICES ASSUME ~(k <= Len(sent)) PROVE FALSE
    OBVIOUS
  <2>1. k = Len(sent) + 1
    BY <1>2, ReadingNumbers
  <2>2. p = Len(bytes)
    BY <1>2, <2>1 DEF Reading, Stream
  <2>3. Len(baos) = 0
    BY <2>2, ReadingNumbers DEF Reading, Follows
  <2>4. baos \in Seq(Int)
    BY DEF Reading, ReaderTypeOK
  <2>5. findNewline(baos) = 0
    <3>1. /\ 1 \in Nat \ {0} /\ ~(1 < Len(baos))
          /\ \A j \in 1 .. Len(baos) : j < 1 => baos[j] # CR
          /\ 1 <= Len(baos) => baos[1] = CR
          /\ 1 + 1 <= Len(baos) => baos[1 + 1] = LF
      BY <2>3
    <3>2. findNewline(baos) = IF 1 < Len(baos) THEN 1 ELSE 0
      BY <2>4, <3>1, NewlineAt
    <3> QED BY <3>1, <3>2
  <2> QED BY <1>1, <2>5 DEF HasLine
<1>4. /\ bytes[p + 1] = Request(k) /\ Request(k) # CR
      /\ bytes[p + 2] = CR /\ bytes[p + 3] = LF
  <2>1. /\ bytes[start[k] + 1] = Request(k) /\ Request(k) # CR
        /\ bytes[start[k] + 2] = CR /\ bytes[start[k] + 3] = LF
    <3>1. PICK l : l = Len(got) + 1
      OBVIOUS
    <3>2. l <= Len(sent)
      BY <1>3, <3>1
    <3> HIDE DEF k
    <3>3. /\ bytes[start[l] + 1] = Request(l) /\ Request(l) # CR
          /\ bytes[start[l] + 2] = CR /\ bytes[start[l] + 3] = LF
      BY <3>1, <3>2, SignalBytes, SMTT(30)
    <3> QED BY <3>1, <3>3 DEF k
  <2> QED BY <1>2, <2>1
<1>5. /\ Line[1] = bytes[p + 1] /\ Line[1] \in Int
      /\ Follows(bytes, p + (2 + 1))' /\ baos' \in Seq(Int)
  <2>1. 2 + 1 = 3 /\ 2 \in {1, 2}
    OBVIOUS
  <2> QED BY <1>1, <1>4, <2>1, LineTaken
<1>6. Follows(bytes, p + 3)'
  BY <1>5
<1>7. ReaderTypeOK'
  <2>1. request' \in Int /\ length' \in Int /\ buffer' \in Seq(Int)
    BY <1>1, <1>5
  <2> QED BY <1>1, <1>5, <2>1 DEF Reading, ReaderTypeOK
<1>8. SignalsAsSent' /\ Stream(bytes, start)'
  BY <1>1, SameSignals, SameStream DEF Reading
<1>9. Taken(start, p + 3)'
  BY <1>1, <1>2, <1>3, <1>4, <1>5 DEF Taken
<1> QED BY <1>6, <1>7, <1>8, <1>9 DEF Reading

LEMMA HeadersReader ==
  ASSUME NEW bytes, NEW start, NEW p \in Nat, Reading(bytes, start, p), readSignalHeaders
  PROVE  \E q \in Nat : Reading(bytes, start, q)'
<1> DEFINE k == Len(got) + 1
<1>1. /\ at = "headers" /\ HasLine /\ baos' = Rest(baos)
      /\ IF Line # <<>> THEN length' = Line[1] - ContentLength(0) /\ at' = at
                        ELSE at' = "buffered" /\ length' = length
      /\ UNCHANGED <<sent, closed, wire, request, buffer, got>>
  BY DEF readSignalHeaders
<1>2. /\ k <= Len(sent) /\ request = Request(k) /\ Len(got) <= Len(sent)
      /\ p = start[k] + 3 \/ (p = start[k] + 6 /\ length = Len(sent[k]))
  BY <1>1 DEF Reading, Taken
<1>3. /\ start[k] \in Nat /\ Len(sent[k]) \in Nat
      /\ bytes[start[k] + 4] = ContentLength(Len(sent[k]))
      /\ ContentLength(Len(sent[k])) # CR
      /\ ContentLength(Len(sent[k])) - ContentLength(0) = Len(sent[k])
      /\ bytes[start[k] + 5] = CR /\ bytes[start[k] + 6] = LF
      /\ bytes[start[k] + 7] = CR /\ bytes[start[k] + 8] = LF
  BY <1>2, SignalBytes
<1>4. Stream(bytes, start)'
  BY <1>1, SameStream DEF Reading
<1>5. CASE p = start[k] + 3
  <2>1. p + 1 = start[k] + 4 /\ p + 2 = start[k] + 5 /\ p + (2 + 1) = start[k] + 6
        /\ 2 \in {1, 2}
    BY <1>3, <1>5
  <2>2. /\ Line # <<>> /\ Line[1] = bytes[p + 1]
        /\ Follows(bytes, p + (2 + 1))' /\ baos' \in Seq(Int)
    BY <1>1, <1>3, <2>1, LineTaken
  <2>3. at' = "headers" /\ length' = Len(sent[k])
    BY <1>1, <1>3, <2>1, <2>2
  <2>4. ReaderTypeOK'
    BY <1>1, <1>3, <2>2, <2>3 DEF Reading, ReaderTypeOK
  <2>5. SignalsAsSent'
    BY <1>1, <2>3, SameSignals DEF Reading
  <2>6. Taken(start, p + (2 + 1))'
    BY <1>1, <1>2, <2>1, <2>3 DEF Taken
  <2>7. Reading(bytes, start, p + (2 + 1))'
    BY <1>4, <2>2, <2>4, <2>5, <2>6 DEF Reading
  <2>8. p + (2 + 1) \in Nat
    OBVIOUS
  <2> QED BY <2>7, <2>8
<1>6. CASE p = start[k] + 6 /\ length = Len(sent[k])
  <2>1. p + 1 = start[k] + 7 /\ p + (1 + 1) = start[k] + 8 /\ 1 \in {1, 2}
    BY <1>3, <1>6
  <2>2. /\ Line = <<>>
        /\ Follows(bytes, p + (1 + 1))' /\ baos' \in Seq(Int)
    BY <1>1, <1>3, <2>1, LineTaken
  <2>3. at' = "buffered" /\ length' = Len(sent[k])
    BY <1>1, <1>6, <2>2
  <2>4. ReaderTypeOK'
    BY <1>1, <1>3, <2>2, <2>3 DEF Reading, ReaderTypeOK
  <2>5. SignalsAsSent'
    BY <1>1, <2>3, SameSignals DEF Reading
  <2>6. Taken(start, p + (1 + 1))'
    BY <1>1, <1>2, <2>1, <2>3 DEF Taken
  <2>7. Reading(bytes, start, p + (1 + 1))'
    BY <1>4, <2>2, <2>4, <2>5, <2>6 DEF Reading
  <2>8. p + (1 + 1) \in Nat
    OBVIOUS
  <2> QED BY <2>7, <2>8
<1> QED BY <1>2, <1>5, <1>6

LEMMA Smaller ==
  ASSUME NEW m \in Nat, NEW n \in Nat
  PROVE  /\ Min({m, n}) \in {m, n} /\ Min({m, n}) <= m /\ Min({m, n}) <= n
         /\ Min({m, n}) \in Nat
<1>1. \E x \in {m, n} : \A y \in {m, n} : x <= y
  <2>1. CASE m <= n
    BY <2>1
  <2>2. CASE ~(m <= n)
    <3>1. n <= m /\ n <= n
      BY <2>2
    <3> QED BY <3>1
  <2> QED BY <2>1, <2>2
<1>2. Min({m, n}) \in {m, n} /\ \A y \in {m, n} : Min({m, n}) <= y
  BY <1>1 DEF Min
<1> QED BY <1>2

LEMMA BufferedReader ==
  ASSUME NEW bytes, NEW start, NEW p \in Nat, Reading(bytes, start, p), TakeBuffered
  PROVE  \E q \in Nat : Reading(bytes, start, q)'
<1> DEFINE k == Len(got) + 1
<1>0. PICK f : f = FromBuffer(length)
  OBVIOUS
<1>1. /\ at = "buffered" /\ buffer' = SubSeq(baos, 1, f)
      /\ baos' = SubSeq(baos, f + 1, Len(baos)) /\ at' = "body"
      /\ UNCHANGED <<sent, closed, wire, request, length, got>>
  BY <1>0 DEF TakeBuffered
<1>2. /\ k <= Len(sent) /\ request = Request(k) /\ Len(got) <= Len(sent)
      /\ p = start[k] + 8 /\ length = Len(sent[k])
  BY <1>1 DEF Reading, Taken
<1>3. /\ start[k] \in Nat /\ Len(sent[k]) \in Nat
      /\ \A j \in 1 .. Len(sent[k]) : bytes[(start[k] + 8) + j] = sent[k][j]
  BY <1>2, SignalBytes
<1>4. baos \in Seq(Int) /\ Len(baos) \in Nat /\ bytes \in Seq(Int)
  BY ReadingNumbers DEF Reading, ReaderTypeOK
<1>5. f \in {length, Len(baos)} /\ f <= length /\ f <= Len(baos) /\ f \in Nat
  BY <1>0, <1>2, <1>3, <1>4, Smaller DEF FromBuffer
<1>6. f \in 0 .. Len(baos) /\ TakeFront(f)
  BY <1>1, <1>4, <1>5 DEF TakeFront
<1>7. /\ Follows(bytes, p + f)' /\ baos' \in Seq(Int) /\ Len(baos') = Len(baos) - f
      /\ \A j \in 1 .. f : buffer'[j] = bytes[p + j]
  BY <1>1, <1>4, <1>6, TakenFromBuffer DEF Reading
<1>8. buffer' \in Seq(Int) /\ Len(buffer') = f
  BY <1>1, <1>4, <1>6, Cut
<1>9. ReaderTypeOK'
  BY <1>1, <1>7, <1>8 DEF Reading, ReaderTypeOK
<1>10. SignalsAsSent' /\ Stream(bytes, start)'
  BY <1>1, SameSignals, SameStream DEF Reading
<1>11. ASSUME f < length PROVE baos' = <<>>
  <2>1. f = Len(baos) /\ Len(baos') = 0
    BY <1>2, <1>3, <1>4, <1>5, <1>7, <1>11
  <2> QED BY <1>7, <2>1, EmptySeq
<1>12. ASSUME NEW j \in 1 .. f PROVE buffer'[j] = sent[k][j]
  <2>1. j \in 1 .. Len(sent[k])
    BY <1>2, <1>3, <1>5
  <2> QED BY <1>2, <1>3, <1>7, <2>1
<1>13. Taken(start, p + f)'
  BY <1>1, <1>2, <1>5, <1>8, <1>11, <1>12 DEF Taken
<1>14. Reading(bytes, start, p + f)'
  BY <1>7, <1>9, <1>10, <1>13 DEF Reading
<1>15. p + f \in Nat
  BY <1>5
<1> QED BY <1>14, <1>15

LEMMA FillReader ==
  ASSUME NEW bytes, NEW start, NEW p \in Nat, Reading(bytes, start, p), FillBody
  PROVE  \E q \in Nat : Reading(bytes, start, q)'
<1> DEFINE k == Len(got) + 1
<1>1. /\ at = "body" /\ Len(buffer) < length
      /\ UNCHANGED <<sent, closed, baos, request, length, got>>
  BY DEF FillBody
<1>2. /\ k <= Len(sent) /\ request = Request(k) /\ Len(got) <= Len(sent)
      /\ length = Len(sent[k]) /\ p = (start[k] + 8) + Len(buffer) /\ baos = <<>>
      /\ \A j \in 1 .. Len(buffer) : buffer[j] = sent[k][j]
  BY <1>1 DEF Reading, Taken
<1>3. /\ start[k] \in Nat /\ Len(sent[k]) \in Nat
      /\ \A j \in 1 .. Len(sent[k]) : bytes[(start[k] + 8) + j] = sent[k][j]
  BY <1>2, SignalBytes
<1>4. /\ wire \in Seq(Int) /\ Len(wire) \in Nat /\ bytes \in Seq(Int) /\ Len(bytes) \in Nat
      /\ buffer \in Seq(Int) /\ Len(buffer) \in Nat /\ Len(baos) = 0
  BY <1>2, EmptySeq, ReadingNumbers DEF Reading, ReaderTypeOK
<1>c. PICK c \in Nat, z \in Nat, b \in Nat :
        c = start[k] /\ z = Len(sent[k]) /\ b = Len(buffer)
  BY <1>3, <1>4
<1>p. length = z /\ p = (c + 8) + b /\ b <= z
  BY <1>1, <1>2, <1>c
<1>5. Stream(bytes, start)'
  BY <1>1, SameStream DEF Reading
<1>6. ASSUME NEW n \in 1 .. Min({length - Len(buffer), Len(wire)}),
             Read(n), buffer' = buffer \o SubSeq(wire, 1, n), at' = at
      PROVE  Reading(bytes, start, p + n)' /\ p + n \in Nat
  <2>1. n \in 1 .. Len(wire) /\ n \in 0 .. Len(wire) /\ n \in Nat
        /\ Len(buffer) + n <= length /\ p + n \in Nat
    <3>1. length - Len(buffer) \in Nat
      BY <1>1, <1>2, <1>3, <1>4
    <3>2. /\ Min({length - Len(buffer), Len(wire)}) <= length - Len(buffer)
          /\ Min({length - Len(buffer), Len(wire)}) <= Len(wire)
          /\ Min({length - Len(buffer), Len(wire)}) \in Nat
      BY <1>4, <3>1, Smaller
    <3>3. n \in Nat /\ 1 <= n /\ n <= length - Len(buffer) /\ n <= Len(wire)
      BY <1>4, <3>1, <3>2
    <3>4. length \in Nat
      BY <1>2, <1>3
    <3> QED BY <1>4, <3>3, <3>4
  <2>2. /\ SubSeq(wire, 1, n) \in Seq(Int) /\ Len(SubSeq(wire, 1, n)) = n
        /\ \A j \in 1 .. n : SubSeq(wire, 1, n)[j] = wire[j]
        /\ wire' \in Seq(Int) /\ Len(wire') = Len(wire) - n
        /\ \A j \in 1 .. Len(wire) - n : wire'[j] = wire[n + j]
    BY <1>4, <1>6, <2>1, Cut DEF Read
  <2>3. /\ buffer' \in Seq(Int) /\ Len(buffer') = Len(buffer) + n
        /\ \A j \in 1 .. Len(buffer) : buffer'[j] = buffer[j]
        /\ \A j \in 1 .. n : buffer'[Len(buffer) + j] = SubSeq(wire, 1, n)[j]
    <3>1. PICK piece : piece = SubSeq(wire, 1, n)
      OBVIOUS
    <3>2. /\ buffer \o piece \in Seq(Int) /\ Len(buffer \o piece) = Len(buffer) + Len(piece)
          /\ \A j \in 1 .. Len(buffer) : (buffer \o piece)[j] = buffer[j]
          /\ \A j \in 1 .. Len(piece) : (buffer \o piece)[Len(buffer) + j] = piece[j]
      BY <1>4, <2>2, <3>1, Joined
    <3>3. Len(piece) = n /\ buffer' = buffer \o piece
      BY <1>6, <2>2, <3>1
    <3> QED BY <3>1, <3>2, <3>3
  <2>4. ReaderTypeOK'
    BY <1>1, <1>6, <2>2, <2>3 DEF Reading, ReaderTypeOK
  <2>5. SignalsAsSent'
    BY <1>1, <1>6, SameSignals DEF Reading
  <2>6. \A j \in 1 .. Len(wire) : wire[j] = bytes[p + j]
    <3>1. \A j \in 1 .. Len(wire) : (p + Len(baos)) + j = p + j
      BY <1>4
    <3> QED BY <3>1 DEF Reading, Follows
  <2>7. ASSUME NEW j \in 1 .. Len(wire') PROVE wire'[j] = bytes[(p + n) + j]
    <3>0. j \in 1 .. Len(wire) - n /\ n \in Nat /\ p \in Nat
      BY <2>1, <2>2
    <3>1. n + j \in 1 .. Len(wire) /\ p + (n + j) = (p + n) + j
      BY <1>4, <3>0
    <3> QED BY <2>2, <3>0, <2>6, <3>1
  <2>8. /\ (p + n) + (Len(baos) + Len(wire')) = p + (Len(baos) + Len(wire))
        /\ (p + n) + Len(baos) = p + n
    BY <1>4, <2>1, <2>2
  <2>9. Follows(bytes, p + n)'
    BY <1>1, <1>4, <2>7, <2>8 DEF Reading, Follows
  <2>10. ASSUME NEW j \in 1 .. Len(buffer') PROVE buffer'[j] = sent[k][j]
    <3>1. CASE j <= Len(buffer)
      <4>1. j \in 1 .. Len(buffer)
        BY <1>4, <3>1
      <4> QED BY <1>2, <2>3, <4>1
    <3>2. CASE j > Len(buffer)
      <4> DEFINE l == j - Len(buffer)
      <4>1. /\ l \in 1 .. n /\ l \in 1 .. Len(wire) /\ Len(buffer) + l = j
            /\ j \in 1 .. Len(sent[k])
        <5>1. j \in 1 .. b + n /\ j > b /\ b + n <= z
          BY <1>c, <1>p, <2>1, <2>3, <3>2
        <5>2. j - b \in 1 .. n /\ b + (j - b) = j /\ j \in 1 .. z
          BY <2>1, <5>1
        <5>3. \A x \in 1 .. n : x \in 1 .. Len(wire)
          BY <1>4, <2>1
        <5> QED BY <1>c, <5>2, <5>3
      <4>2. (start[k] + 8) + j = p + l
        <5>1. j \in Int /\ l = j - b
          BY <1>c, <4>1
        <5>2. (c + 8) + j = ((c + 8) + b) + (j - b)
          BY <5>1
        <5> QED BY <1>c, <1>p, <5>1, <5>2
      <4> HIDE DEF l
      <4>3. buffer'[j] = wire[l]
        BY <2>2, <2>3, <4>1
      <4>4. wire[l] = bytes[p + l]
        BY <2>6, <4>1
      <4>5. bytes[(start[k] + 8) + j] = sent[k][j]
        BY <1>3, <4>1
      <4> QED BY <4>2, <4>3, <4>4, <4>5
    <3> QED BY <1>4, <2>1, <2>3, <3>1, <3>2
  <2>11. /\ Len(buffer') <= length
         /\ p + n = (start[k] + 8) + Len(buffer')
    <3>1. ((c + 8) + b) + n = (c + 8) + (b + n)
      BY <2>1
    <3>2. Len(buffer') = b + n /\ b + n <= length
      BY <1>c, <2>1, <2>3
    <3> QED BY <1>c, <1>p, <3>1, <3>2
  <2>12. Taken(start, p + n)'
    BY <1>1, <1>2, <1>6, <2>10, <2>11 DEF Taken
  <2> QED BY <1>5, <2>1, <2>4, <2>5, <2>9, <2>12 DEF Reading
<1>7. CASE \E n \in 1 .. Min({length - Len(buffer), Len(wire)}) :
             Read(n) /\ buffer' = buffer \o SubSeq(wire, 1, n) /\ at' = at
  BY <1>6, <1>7
<1>8. CASE closed /\ at' = "failed" /\ wire' = wire /\ buffer' = buffer
  <2>1. ReaderTypeOK'
    BY <1>1, <1>8 DEF Reading, ReaderTypeOK
  <2>2. SignalsAsSent'
    BY <1>1, <1>8, SameSignals DEF Reading
  <2>3. Follows(bytes, p)' /\ Taken(start, p)'
    BY <1>1, <1>8 DEF Reading, Follows, Taken
  <2> QED BY <1>5, <2>1, <2>2, <2>3 DEF Reading
<1> QED BY <1>1, <1>7, <1>8 DEF FillBody

LEMMA HandleReader ==
  ASSUME NEW bytes, NEW start, NEW p \in Nat, Reading(bytes, start, p), HandleSignal
  PROVE  Reading(bytes, start, p)'
<1> DEFINE k == Len(got) + 1
           signal == [request |-> request, body |-> buffer]
<1>1. /\ at = "body" /\ Len(buffer) = length /\ got' = Append(got, signal) /\ at' = "wait"
      /\ UNCHANGED <<sent, closed, wire, baos, request, length, buffer>>
  BY DEF HandleSignal
<1>2. /\ k <= Len(sent) /\ request = Request(k)
      /\ length = Len(sent[k]) /\ p = (start[k] + 8) + Len(buffer)
      /\ \A j \in 1 .. Len(buffer) : buffer[j] = sent[k][j]
  BY <1>1 DEF Reading, Taken
<1>3. /\ start[k] \in Nat /\ Len(sent[k]) \in Nat /\ sent[k] \in Seq(Int)
      /\ start[k + 1] = start[k] + (8 + Len(sent[k]))
  <2>1. /\ k \in 1 .. Len(sent) /\ start[k] \in Nat /\ Len(sent[k]) \in Nat
        /\ sent[k] \in Seq(Int)
    BY <1>2, SignalBytes
  <2>2. start[k + 1] = start[k] + (8 + Len(sent[k]))
    BY <2>1 DEF Reading, Stream
  <2> QED BY <2>1, <2>2
<1>4. buffer \in Seq(Int) /\ got \in Seq(Answer) /\ request \in Int
  BY DEF Reading, ReaderTypeOK
<1>5. buffer = sent[k]
  BY <1>1, <1>2, <1>3, <1>4, SeqEqual
<1>6. signal \in Answer
  BY <1>4 DEF Answer
<1>7. signal = [request |-> Request(k), body |-> sent[k]]
  BY <1>2, <1>5
<1> HIDE DEF signal
<1>8. /\ got' \in Seq(Answer) /\ Len(got') = k /\ got'[k] = signal
      /\ \A j \in 1 .. Len(got) : got'[j] = got[j]
  BY <1>1, <1>4, <1>6
<1>9. ReaderTypeOK'
  BY <1>1, <1>8 DEF Reading, ReaderTypeOK
<1>10. ASSUME NEW j \in DOMAIN got'
       PROVE  j <= Len(sent) /\ got'[j] = [request |-> Request(j), body |-> sent[j]]
  <2>1. j \in 1 .. k /\ (j = k \/ j \in 1 .. Len(got))
    BY <1>4, <1>8
  <2>2. CASE j = k
    BY <1>2, <1>7, <1>8, <2>2
  <2>3. CASE j \in 1 .. Len(got)
    <3>1. j \in DOMAIN got
      BY <1>4, <2>3
    <3> QED BY <1>8, <2>3, <3>1 DEF Reading, SignalsAsSent
  <2> QED BY <2>1, <2>2, <2>3
<1>11. SignalsAsSent'
  BY <1>1, <1>10 DEF SignalsAsSent
<1>12. Stream(bytes, start)' /\ Follows(bytes, p)'
  BY <1>1, SameStream DEF Reading, Follows
<1>13. p = start[k + 1]
  <2>1. Len(buffer) = Len(sent[k])
    BY <1>1, <1>2
  <2>2. \A c, z \in Nat : (c + 8) + z = c + (8 + z)
    OBVIOUS
  <2> QED BY <1>2, <1>3, <2>1, <2>2
<1>14. Taken(start, p)'
  BY <1>1, <1>2, <1>8, <1>13 DEF Taken
<1> QED BY <1>9, <1>11, <1>12, <1>14 DEF Reading

LEMMA NextReader ==
  ASSUME ReaderIInv, [ReaderNext]_readerVars
  PROVE  ReaderIInv'
<1>1. CASE UNCHANGED readerVars
  <2>1. PICK bytes, start : Stream(bytes, start) /\ \E p \in Nat : Follows(bytes, p) /\ Taken(start, p)
    BY DEF ReaderIInv
  <2>2. PICK p \in Nat : Follows(bytes, p) /\ Taken(start, p)
    BY <2>1
  <2>3. UNCHANGED <<sent, closed, wire, baos, at, request, length, buffer, got>>
    BY <1>1 DEF readerVars
  <2>4. ReaderTypeOK' /\ SignalsAsSent'
    BY <2>3 DEF ReaderIInv, ReaderTypeOK, SignalsAsSent
  <2>5. Stream(bytes, start)'
    BY <2>1, <2>3, SameStream
  <2>6. Follows(bytes, p)'
    BY <2>2, <2>3 DEF Follows
  <2>7. Taken(start, p)'
    BY <2>2, <2>3 DEF Taken
  <2> QED BY <2>4, <2>5, <2>6, <2>7 DEF ReaderIInv
<1>2. CASE \E body \in Bodies : ServerSends(body)
  BY <1>2, SendReader
<1>3. CASE ServerCloses \/ Listener
  <2>1. PICK bytes, start : Stream(bytes, start) /\ \E p \in Nat : Follows(bytes, p) /\ Taken(start, p)
    BY DEF ReaderIInv
  <2>2. PICK p \in Nat : Follows(bytes, p) /\ Taken(start, p)
    BY <2>1
  <2>3. Reading(bytes, start, p)
    BY <2>1, <2>2 DEF Reading, ReaderIInv
  <2>4. CASE ServerCloses
    BY <2>3, <2>4, CloseReader, WhileReading
  <2>5. CASE waitForAvailable \/ FillLine
    BY <2>3, <2>5, MoreReader, WhileReading
  <2>6. CASE readSignalRequest
    <3>1. Reading(bytes, start, p + 3)' /\ p + 3 \in Nat
      BY <2>3, <2>6, RequestReader
    <3> QED BY <3>1, WhileReading
  <2>7. CASE readSignalHeaders
    BY <2>3, <2>7, HeadersReader, WhileReading
  <2>8. CASE TakeBuffered
    BY <2>3, <2>8, BufferedReader, WhileReading
  <2>9. CASE FillBody
    BY <2>3, <2>9, FillReader, WhileReading
  <2>10. CASE HandleSignal
    BY <2>3, <2>10, HandleReader, WhileReading
  <2> QED BY <1>3, <2>4, <2>5, <2>6, <2>7, <2>8, <2>9, <2>10 DEF Listener
<1> QED BY <1>1, <1>2, <1>3 DEF ReaderNext

(* However the stream is cut into pieces, the listener reads the signals    *)
(* that were sent, each once, in order and with its own body (LineReader,   *)
(* SignalReader).                                                           *)
THEOREM SignalsAlwaysAsSent == ReaderSpec => []SignalsAsSent
<1>1. ReaderIInv => SignalsAsSent
  BY DEF ReaderIInv
<1> QED BY InitReader, NextReader, <1>1, PTL DEF ReaderSpec
=============================================================================

-------------------------- MODULE CallAudioProvider --------------------------
(***************************************************************************)
(* audio/CallAudioProvider: the jitter buffer between the network and the  *)
(* speaker.  The audio thread stores the frames that RtpAudioReader queued *)
(* (late, duplicated or never, as the network delivers them) and asks for  *)
(* the next frame to play whenever the speaker runs low; a frame that is   *)
(* missing is concealed, and the playhead waits for it for a while.        *)
(*                                                                         *)
(* A frame is its sequence number.  The delay that                         *)
(* DesiredCallAudioDelayChooser wants, and the running average of the      *)
(* delay, are floating-point estimates of timing: each getFrame meets any  *)
(* value of the first and any relation of the second to it.                *)
(***************************************************************************)
EXTENDS Integers, FiniteSetsExt

CONSTANTS MaxSequence,    \* largest sequence number of a frame
          MaxArrivals,    \* frames that arrive in a behaviour
          MaxPlayhead,    \* where an idle playhead stops, see GetFrame
          MaxBuffer,      \* maxBuffer (25)
          MaxGap,         \* maxGap (1)
          BigStart,       \* bigStart (10)
          DesiredDelays   \* values of getDesFrameDelay

ASSUME ProviderAssumption ==
  /\ MaxSequence \in Nat /\ MaxArrivals \in Nat /\ MaxGap \in Nat
  /\ MaxBuffer \in Nat \ {0} /\ BigStart \in Nat /\ DesiredDelays \subseteq Nat
  /\ MaxPlayhead > MaxSequence + MaxGap + 1

VARIABLES audioFrames,             \* keys of the TreeMap
          streamPlayheadPosition,
          lastGoodFrame,
          gapLength,               \* modulo 2: all that the code looks at
          shiftMode,
          playRate,                \* in percent
          arrivals                 \* frames that have arrived

playVars == <<audioFrames, streamPlayheadPosition, lastGoodFrame, gapLength>>
rateVars == <<shiftMode, playRate>>
vars == <<playVars, rateVars, arrivals>>

Init ==
  /\ audioFrames = {}
  /\ streamPlayheadPosition = 0
  /\ lastGoodFrame = 0
  /\ gapLength = 0
  /\ shiftMode = "RATE_NORMAL"
  /\ playRate = 100
  /\ arrivals = 0

AddFrame(s) ==
  /\ arrivals < MaxArrivals
  /\ audioFrames' = audioFrames \cup {s}
  /\ arrivals' = arrivals + 1
  /\ UNCHANGED <<streamPlayheadPosition, lastGoodFrame, gapLength, rateVars>>

(* discardStaleFrames: first the frames before the last one played, then   *)
(* the oldest ones beyond maxBuffer.  The mutant keeps the stale frames.   *)
NotStaleAny(frames) == frames
NotStale(frames) == {f \in frames : f >= lastGoodFrame}
Newest(frames) ==
  {f \in frames : Cardinality({g \in frames : g > f}) < MaxBuffer}

(* The state discardStaleFrames leaves to pullAudio.                       *)
Discarded ==
  LET fresh == NotStale(audioFrames)
      kept  == Newest(fresh)
  IN  [frames   |-> kept,
       playhead |-> IF kept # fresh THEN Min(kept) ELSE streamPlayheadPosition]

(* pullAudio, when the first frame is more than maxGap behind the playhead. *)
VeryLate(d) == d.frames # {} /\ Min(d.frames) < d.playhead - MaxGap

(* Where the playhead is when pullAudio decides, and whether it decodes.   *)
PlayheadAt(d) == IF VeryLate(d) THEN Min(d.frames) ELSE d.playhead
Decodes(d) == PlayheadAt(d) \in d.frames

(* A concealed frame: at every second call the playhead goes back by what  *)
(* getFrame then adds.  The mutant goes back at every call.                *)
ConcealedStays(at) == at - 1
ConcealedAt(at) == IF gapLength = 0 THEN at - 1 ELSE at

(* After pullAudio: the decoded frame is removed, or the gap concealed.    *)
Pulled(d) ==
  LET at == PlayheadAt(d)
  IN  IF Decodes(d)
        THEN [frames |-> d.frames \ {at}, playhead |-> at,
              lastGood |-> at, gap |-> 0]
        ELSE [frames |-> d.frames,
              playhead |-> ConcealedAt(at),
              lastGood |-> lastGoodFrame, gap |-> 1 - gapLength]

(* updatePlayRate, one condition after the other.                          *)
Rate(mode, rate) == [mode |-> mode, rate |-> rate]
GlutOver(r) == Rate("RATE_NORMAL", 100)

UpdatePlayRate(frameDelay, desired, average) ==
  LET r0 == Rate(shiftMode, playRate)
      r1 == IF frameDelay > desired + BigStart /\ r0.mode # "RATE_BIG"
              THEN Rate("RATE_BIG", 50) ELSE r0
      ended == frameDelay <= desired /\ r1.mode = "RATE_BIG"
      r2 == IF ended THEN GlutOver(r1) ELSE r1
      avg == IF ended THEN desired ELSE average
      r3 == IF avg > desired + 3 /\ r2.mode = "RATE_NORMAL"
              THEN Rate("RATE_LITTLE", 95) ELSE r2
      r4 == IF avg < desired /\ r3.mode = "RATE_LITTLE" /\ r3.rate < 100
              THEN Rate("RATE_NORMAL", 100) ELSE r3
      r5 == IF avg < desired - 2 /\ r4.mode = "RATE_NORMAL"
              THEN Rate("RATE_LITTLE", 105) ELSE r4
  IN  IF avg > desired /\ r5.mode = "RATE_LITTLE" /\ r5.rate > 100
        THEN Rate("RATE_NORMAL", 100) ELSE r5

(* frameDelay, taken before getFrame advances the playhead.                *)
FrameDelay(frames, lastGood, playhead) ==
  (IF frames # {} THEN Max(frames) ELSE lastGood) - playhead

(* The part of getFrame that plays: discard, pull, advance.  Past          *)
(* MaxPlayhead the buffer is empty and another concealed frame would only  *)
(* move the playhead further.                                              *)
Play ==
  /\ audioFrames # {} \/ streamPlayheadPosition < MaxPlayhead
  /\ LET p == Pulled(Discarded)
     IN  /\ audioFrames' = p.frames
         /\ streamPlayheadPosition' = p.playhead + 1
         /\ lastGoodFrame' = p.lastGood
         /\ gapLength' = p.gap

AdjustRate ==
  \E desired \in DesiredDelays :
    \E average \in {desired - 3, desired - 1, desired + 1, desired + 4} :
      LET r == UpdatePlayRate(FrameDelay(audioFrames', lastGoodFrame',
                                         streamPlayheadPosition' - 1),
                              desired, average)
      IN  shiftMode' = r.mode /\ playRate' = r.rate

GetFrame == Play /\ AdjustRate /\ UNCHANGED arrivals

Next == GetFrame \/ \E s \in 0..MaxSequence : AddFrame(s)

Spec == Init /\ [][Next]_vars

(* LatencyMinimizingAudioPlayer asks for frames as the speaker plays them, *)
(* in the loop of CallAudioManager.doRun; a call of getFrame never blocks. *)
FairSpec == Spec /\ WF_playVars(Play)

-----------------------------------------------------------------------------
(* Properties.                                                             *)

(* Frames are played in order, whatever the order they arrive in and       *)
(* although pullAudio moves the playhead back for a late frame.            *)
PlayedInOrder == [][lastGoodFrame' >= lastGoodFrame]_vars

(* The speed of playback is the one its mode stands for: audio is not left *)
(* sped up or slowed down in normal mode (updatePlayRate).                 *)
RateMatchesMode ==
  playRate \in CASE shiftMode = "RATE_NORMAL" -> {100}
                 [] shiftMode = "RATE_BIG"    -> {50}
                 [] shiftMode = "RATE_LITTLE" -> {95, 105}

(* A frame in the buffer is played or discarded in the end: the playhead   *)
(* neither stops in a gap nor passes a frame for good (pullAudio).         *)
HeldFramesLeave ==
  \A s \in 0..MaxSequence : s \in audioFrames ~> s \notin audioFrames
=============================================================================

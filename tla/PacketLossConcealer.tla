------------------------- MODULE PacketLossConcealer -------------------------
(***************************************************************************)
(* Packet loss concealment (jni/plc.c behind rx and fillIn in              *)
(* jni/PacketLossConcealer.cpp): the recent output is kept in a ring; when *)
(* a block is missing, one pitch period of it is repeated and faded out.   *)
(*                                                                         *)
(* A sample is known by its number in the stream, modulo Wrap; what was    *)
(* before the first sample counts as silence with negative numbers (the    *)
(* structure is cleared).  The pitch that amdf_pitch measures is any       *)
(* allowed period.                                                         *)
(***************************************************************************)
EXTENDS Integers, Sequences

CONSTANTS PLC_HISTORY_LEN,   \* 280 in plc.h
          PLC_PITCH_MAX,     \* the shortest period (40)
          PLC_PITCH_MIN,     \* the longest period (120)
          Fade,              \* samples until the volume is zero: 1 / ATTENUATION_INCREMENT
          Blocks             \* lengths of the blocks

ASSUME PlcAssumption ==
  /\ PLC_PITCH_MAX \in Nat /\ 4 <= PLC_PITCH_MAX /\ PLC_PITCH_MAX <= PLC_PITCH_MIN
  /\ 5 * PLC_PITCH_MIN <= 4 * PLC_HISTORY_LEN
  /\ PLC_PITCH_MIN \in Nat /\ PLC_HISTORY_LEN \in Nat /\ Fade \in Nat \ {0}
  \* A block is at least as long as the overlap that plc_fillin writes untested.
  /\ \A n \in Blocks : n \in Nat \ {0} /\ 4 * n >= PLC_PITCH_MIN

VARIABLES history,          \* the ring, by offset
          buf_ptr,          \* the oldest sample of the ring
          missing_samples,  \* length of the gap so far, up to a bound (see Gap)
          pitch,            \* the period that is repeated
          pitch_offset,     \* next sample of the period
          clock,            \* samples played, modulo Wrap
          synthetic,        \* synthetic samples played since the gap began, up to a bound
          lead              \* samples of the gap that the first overlap played

pvars == <<history, buf_ptr, missing_samples, pitch, pitch_offset, clock, synthetic, lead>>

Wrap == 2 * PLC_HISTORY_LEN
Offsets == 0 .. PLC_HISTORY_LEN - 1
Overlap(p) == p \div 4
AtMost(a, b) == IF a < b THEN a ELSE b

\* Only whether the volume has reached zero matters from a certain gap on.
Gap(n) == AtMost(n, 2 * Fade)

PlcInit ==
  /\ history = [k \in Offsets |-> (k - PLC_HISTORY_LEN) % Wrap]
  /\ buf_ptr = 0 /\ missing_samples = 0 /\ pitch = 0 /\ pitch_offset = 0
  /\ clock = 0 /\ synthetic = 0 /\ lead = 0

\* The last samples of the block replace the oldest of the ring: all of them,
\* in two sections, or in one.
save_history(h, at, len) ==
  IF len >= PLC_HISTORY_LEN
  THEN /\ history' = [k \in Offsets |-> (clock + len - PLC_HISTORY_LEN + k) % Wrap]
       /\ buf_ptr' = 0
  ELSE /\ history' = [k \in Offsets |->
            IF at + len > PLC_HISTORY_LEN
            THEN CASE k >= at -> (clock + k - at) % Wrap
                   [] k < at + len - PLC_HISTORY_LEN -> (clock + PLC_HISTORY_LEN - at + k) % Wrap
                   [] OTHER -> h[k]
            ELSE IF k >= at /\ k < at + len THEN (clock + k - at) % Wrap ELSE h[k]]
       /\ buf_ptr' = IF at + len > PLC_HISTORY_LEN THEN at + len - PLC_HISTORY_LEN ELSE at + len

\* Mutant: the ring is used as it is.
HistoryNotTurned == history

\* The ring is turned so that the oldest sample comes first.
normalise_history == [k \in Offsets |-> history[(buf_ptr + k) % PLC_HISTORY_LEN]]

\* A received block; behind a gap its start is blended with the period.
plc_rx(len) ==
  /\ pitch_offset' = IF missing_samples # 0
                     THEN (pitch_offset + AtMost(Overlap(pitch), len)) % pitch ELSE pitch_offset
  /\ missing_samples' = 0 /\ synthetic' = 0 /\ lead' = 0
  /\ save_history(history, buf_ptr, len)
  /\ clock' = (clock + len) % Wrap
  /\ UNCHANGED pitch

\* Samples of a block that are played before the volume reaches zero: the
\* overlap at the start of a gap is played at full volume.
Played(len, start, at) ==
  LET loud == IF Fade > at THEN Fade - at ELSE 0
  IN AtMost(len, start + loud)

\* The first block of a gap: the ring is turned, a period is cut out of it.
FillinFirst(p, len) ==
  LET n == Played(len, Overlap(p), 0)
  IN /\ missing_samples = 0
     /\ pitch' = p
     /\ pitch_offset' = n % p
     /\ synthetic' = n /\ lead' = Overlap(p)
     /\ missing_samples' = Gap(len)
     /\ save_history(normalise_history, 0, len)
     /\ clock' = (clock + len) % Wrap

\* A further block of the gap goes on with the period, the volume fallen by
\* the length of the gap.
FillinNext(len) ==
  LET n == Played(len, 0, missing_samples)
  IN /\ missing_samples # 0
     /\ pitch_offset' = (pitch_offset + n) % pitch
     /\ synthetic' = synthetic + n
     /\ missing_samples' = Gap(missing_samples + len)
     /\ save_history(history, buf_ptr, len)
     /\ clock' = (clock + len) % Wrap
     /\ UNCHANGED <<pitch, lead>>

PlcNext ==
  \/ \E len \in Blocks : plc_rx(len)
  \/ \E p \in PLC_PITCH_MAX .. PLC_PITCH_MIN, len \in Blocks : FillinFirst(p, len)
  \/ \E len \in Blocks : FillinNext(len)

PlcSpec == PlcInit /\ [][PlcNext]_pvars

-----------------------------------------------------------------------------
(* Properties                                                               *)

\* A gap is filled with the end of what was heard.  From buf_ptr on, once around,
\* the ring holds the last PLC_HISTORY_LEN samples that were played, oldest first,
\* whatever the lengths of the blocks and however often the ring was turned; and
\* the period cut out of it is repeated from its start, without a jump between
\* blocks, for no longer than the fade and the first overlap (plc.h: the volume is
\* zero after 50 ms).
GapRepeatsHistory ==
  /\ \A k \in Offsets :
       history[(buf_ptr + k) % PLC_HISTORY_LEN] = (clock + k - PLC_HISTORY_LEN) % Wrap
  /\ missing_samples # 0 =>
       synthetic <= Fade + lead /\ pitch_offset = synthetic % pitch
=============================================================================

------------------------------ MODULE TimeScale ------------------------------
(***************************************************************************)
(* The time scaler of the jitter buffer (jni/time_scale.c behind           *)
(* changeSpeed in jni/PacketLossConcealer.cpp): samples go in, more or     *)
(* fewer come out, the rest waits in a buffer of two pitch periods.        *)
(*                                                                         *)
(* Samples are counted, not kept.  The pitch that amdf_pitch measures is   *)
(* any period between the shortest and the longest.  A rate other than 1   *)
(* is [fast, comp]: comp is rcomp to the nearest integer, so that comp     *)
(* periods of the input are played for every period dropped (fast) or      *)
(* inserted (slow).  The call of time_scale is a loop, one pass of which   *)
(* is a step here.                                                         *)
(***************************************************************************)
EXTENDS Integers

CONSTANTS ShortestPeriod,  \* max_pitch: sample_rate / 250
          LongestPeriod,   \* min_pitch: sample_rate / 60
          Comps,           \* values of rcomp (1, 19 and 20 in the application)
          Lengths          \* lengths of the input

ASSUME TimeScaleAssumption ==
  /\ ShortestPeriod \in Nat \ {0, 1} /\ LongestPeriod \in Nat
  /\ ShortestPeriod <= LongestPeriod
  /\ Comps \subseteq Nat \ {0} /\ Lengths \subseteq Nat

VARIABLES rate,      \* "normal", or [fast, comp]
          fill,      \* samples in the buffer
          lcp,       \* samples to copy before the next period is changed
          len,       \* input of the call
          in_len,    \* what the call consumed of it
          out_len,   \* what it wrote
          running,   \* the call has not returned
          held,      \* samples in the buffer when the call began
          dropped,   \* samples this call dropped
          inserted   \* samples this call inserted

tvars == <<rate, fill, lcp, len, in_len, out_len, running, held, dropped, inserted>>

Periods == ShortestPeriod .. LongestPeriod
buf_len == 2 * LongestPeriod

Rates == {[fast |-> f, comp |-> c] : f \in BOOLEAN, c \in Comps}
Normal == [fast |-> FALSE, comp |-> 0]

\* time_scale_max_output_len: the length scaled by the rate, and a period.
time_scale_max_output_len(r, n) ==
  (CASE r = Normal -> n
     [] r # Normal /\ r.fast -> (n * r.comp) \div (r.comp + 1)
     [] OTHER -> (n * (r.comp + 1)) \div r.comp) + LongestPeriod + 1

TimeScaleInit ==
  /\ rate = Normal /\ fill = 0 /\ lcp = 0
  /\ len = 0 /\ in_len = 0 /\ out_len = 0 /\ running = FALSE
  /\ held = 0 /\ dropped = 0 /\ inserted = 0

\* time_scale at normal speed flushes the buffer; time_scale_rate has cleared lcp.
Straight(n) ==
  /\ out_len' = n + fill /\ in_len' = n
  /\ fill' = 0 /\ lcp' = 0 /\ running' = FALSE

\* Mutant: a buffer that was just filled is left alone.
TopUpLate(n) ==
  /\ IF fill + n <= buf_len
     THEN fill' = fill + n /\ in_len' = n /\ running' = FALSE
     ELSE fill' = buf_len /\ in_len' = buf_len - fill /\ running' = TRUE
  /\ out_len' = 0
  /\ UNCHANGED lcp

\* Otherwise the buffer is topped up; the loop runs when it is full.
TopUp(n) ==
  /\ IF fill + n < buf_len
     THEN fill' = fill + n /\ in_len' = n /\ running' = FALSE
     ELSE fill' = buf_len /\ in_len' = buf_len - fill /\ running' = TRUE
  /\ out_len' = 0
  /\ UNCHANGED lcp

\* changeSpeed sets the rate and scales one block.
ChangeSpeed(r, n) ==
  /\ ~running
  /\ rate' = r /\ len' = n
  /\ held' = fill /\ dropped' = 0 /\ inserted' = 0
  /\ IF r = Normal THEN Straight(n) ELSE TopUp(n)

Left == len - in_len

\* A whole buffer is copied and refilled, as far as the input goes.
CopyBuffer ==
  /\ running /\ lcp >= buf_len
  /\ out_len' = out_len + buf_len
  /\ lcp' = lcp - buf_len
  /\ IF Left < buf_len
     THEN fill' = Left /\ in_len' = len /\ running' = FALSE
     ELSE in_len' = in_len + buf_len /\ UNCHANGED <<fill, running>>
  /\ UNCHANGED <<rate, len, held, dropped, inserted>>

\* Mutants: the end of the input is not kept; the loop waits for more input.
CopyRestLosesEnd ==
  /\ running /\ lcp > 0 /\ lcp < buf_len
  /\ out_len' = out_len + lcp
  /\ lcp' = 0
  /\ IF Left < lcp
     THEN fill' = buf_len - lcp /\ in_len' = len /\ running' = FALSE
     ELSE in_len' = in_len + lcp /\ UNCHANGED <<fill, running>>
  /\ UNCHANGED <<rate, len, held, dropped, inserted>>
CopyRestWaits ==
  /\ running /\ lcp > 0 /\ lcp < buf_len
  /\ IF Left < lcp THEN UNCHANGED <<out_len, lcp, in_len>>
     ELSE out_len' = out_len + lcp /\ lcp' = 0 /\ in_len' = in_len + lcp
  /\ UNCHANGED <<rate, fill, len, running, held, dropped, inserted>>

\* The rest of the stretch is copied and the buffer shifted.
CopyRest ==
  /\ running /\ lcp > 0 /\ lcp < buf_len
  /\ out_len' = out_len + lcp
  /\ lcp' = 0
  /\ IF Left < lcp
     THEN fill' = buf_len - lcp + Left /\ in_len' = len /\ running' = FALSE
     ELSE in_len' = in_len + lcp /\ UNCHANGED <<fill, running>>
  /\ UNCHANGED <<rate, len, held, dropped, inserted>>

\* The stretch to copy next: rcomp is a float next to an integer (18.99999 at
\* rate 0.95), and the fraction carried over may add or take a sample.
NextStretch(pitch) == {pitch * rate.comp + d : d \in -1 .. 1}

\* Speed up: two periods become one.
DropPeriod(pitch) ==
  /\ running /\ lcp = 0 /\ rate.fast
  /\ lcp' \in NextStretch(pitch)
  /\ dropped' = dropped + pitch
  /\ IF Left < pitch
     THEN fill' = fill + Left - pitch /\ in_len' = len /\ running' = FALSE
     ELSE in_len' = in_len + pitch /\ UNCHANGED <<fill, running>>
  /\ UNCHANGED <<rate, len, out_len, held, inserted>>

\* Slow down: a period is written and stays in the buffer.
InsertPeriod(pitch) ==
  /\ running /\ lcp = 0 /\ ~rate.fast
  /\ lcp' \in NextStretch(pitch)
  /\ out_len' = out_len + pitch
  /\ inserted' = inserted + pitch
  /\ UNCHANGED <<rate, fill, len, in_len, running, held, dropped>>

TimeScaleNext ==
  \/ \E r \in Rates \cup {Normal}, n \in Lengths : ChangeSpeed(r, n)
  \/ CopyBuffer
  \/ CopyRest
  \/ \E pitch \in Periods : DropPeriod(pitch)
  \/ \E pitch \in Periods : InsertPeriod(pitch)

TimeScaleSpec == TimeScaleInit /\ [][TimeScaleNext]_tvars

-----------------------------------------------------------------------------
(* Properties                                                               *)

\* Every sample is accounted for: what a call took in and had in the buffer is
\* what it wrote and left there, up to the periods it dropped or inserted.
SamplesConserved ==
  held + in_len + inserted = out_len + fill + dropped

\* The loop ends only when the input is used up, and never leaves a buffer
\* that is over-full, or full (the next call would not find room for a sample
\* before its first pass).
BufferHolds ==
  /\ fill \in 0 .. buf_len /\ in_len \in 0 .. len
  /\ ~running => in_len = len /\ fill < buf_len

\* spandsp/time_scale.h: "The output buffer must be big enough to hold the
\* maximum number of samples which could result from the data in the input
\* buffer, which is: input_len*playout_rate + sample_rate/TIME_SCALE_MIN_PITCH
\* + 1"; changeSpeed tests its output buffer against this number.
OutputBounded == out_len <= time_scale_max_output_len(rate, len)

\* Every call returns.
CallReturns == running ~> ~running
=============================================================================

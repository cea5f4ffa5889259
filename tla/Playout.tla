------------------------------- MODULE Playout -------------------------------
(***************************************************************************)
(* The play-out buffer of the native library (jni/playout.c): frames       *)
(* arrive out of order, late, twice or never, and are played at the times  *)
(* their sender stamped them with.                                         *)
(*                                                                         *)
(* All speech frames have the same length, SenderLen, and stamps are       *)
(* multiples of it.  The two leaky integrators that watch how many frames  *)
(* come late or just in time are left out: their verdict ("late", "early"  *)
(* or "fine") is an input of a get on a dynamic buffer; so are the         *)
(* statistics, which nothing reads.  since_last_step is an int that starts *)
(* at its largest value, and wraps when it is counted up from there.       *)
(***************************************************************************)
EXTENDS Integers, Sequences

CONSTANTS SenderLen,    \* length of a speech frame
          Stamps,       \* sender's stamps
          BufferLengths, \* pairs <<min_length, max_length>> of playout_init
          MaxQueue,     \* bound on the frames in the buffer
          MaxDue,       \* bound on the stamp that is due
          MaxRewind,    \* bound on how far a growing buffer falls behind
          StepMax,      \* largest value of since_last_step (0x7FFFFFFF)
          SoonAfter,    \* 10: a step this soon after the last one is big
          LongAfter     \* 500: no shrinking before

ASSUME PlayoutAssumption ==
  /\ SenderLen \in Nat \ {0}
  /\ \A t \in Stamps : t \in Nat
  /\ \A l \in BufferLengths : l[1] \in Nat /\ l[2] \in Nat
  /\ MaxQueue \in Nat /\ MaxDue \in Nat /\ MaxRewind \in Nat
  /\ SoonAfter \in Nat /\ LongAfter \in Nat /\ StepMax \in Nat
  /\ SoonAfter <= LongAfter /\ LongAfter < StepMax

PLAYOUT_TYPE_CONTROL == 0
PLAYOUT_TYPE_SPEECH == 2

VARIABLES first,        \* the queue, from first_frame to last_frame: [type, stamp]
          started,      \* ~start
          conf,         \* [dynamic, min_length, max_length]
          target,       \* target_buffer_length
          last,         \* last_speech_sender_stamp
          last_len,     \* last_speech_sender_len
          since,        \* since_last_step
          result,       \* what the last call gave
          played        \* the last speech frame given with PLAYOUT_OK, and
                        \* target_buffer_length when it was asked for (history)

yvars == <<first, started, conf, target, last, last_len, since, result, played>>

Never == [stamp |-> -1, length |-> 0]
Nothing == [code |-> "none"]

\* playout_restart on a cleared structure; frames still queued are forgotten.
Restarted(l) ==
  /\ first' = <<>> /\ started' = FALSE /\ last' = 0 /\ last_len' = 0
  /\ conf' = [dynamic |-> l[1] < l[2], min_length |-> l[1],
              max_length |-> IF l[2] > l[1] THEN l[2] ELSE l[1]]
  /\ target' = (conf'.max_length - conf'.min_length) \div 2
  /\ since' = StepMax
  /\ result' = Nothing /\ played' = Never

playout_restart(l) == Restarted(l)

PlayoutInit ==
  \E l \in BufferLengths :
    /\ first = <<>> /\ started = FALSE /\ last = 0 /\ last_len = 0
    /\ conf = [dynamic |-> l[1] < l[2], min_length |-> l[1],
               max_length |-> IF l[2] > l[1] THEN l[2] ELSE l[1]]
    /\ target = (conf.max_length - conf.min_length) \div 2
    /\ since = StepMax
    /\ result = Nothing /\ played = Never

-----------------------------------------------------------------------------
(* Arrivals                                                                 *)

\* Where a frame goes: behind the last one that is not later.  The walk stops
\* at the first frame without looking at it, so a frame that belongs between
\* the first and the second is put in front of both.
Place(stamp) ==
  IF first = <<>> \/ stamp >= first[Len(first)].stamp
  THEN Len(first)
  ELSE LET behind == {i \in 2 .. Len(first) : first[i].stamp <= stamp}
       IN IF behind = {} THEN 0 ELSE CHOOSE i \in behind : \A j \in behind : j <= i

playout_put(type, stamp) ==
  LET frame == [type |-> type, stamp |-> stamp]
      at == Place(stamp)
      starts == ~started /\ type = PLAYOUT_TYPE_SPEECH
  IN /\ Len(first) < MaxQueue
     /\ first' = SubSeq(first, 1, at) \o <<frame>> \o SubSeq(first, at + 1, Len(first))
     /\ last' = IF starts THEN stamp - SenderLen - conf.min_length ELSE last
     /\ last_len' = IF starts THEN SenderLen ELSE last_len
     /\ started' = (started \/ type = PLAYOUT_TYPE_SPEECH)
     /\ result' = Nothing
     /\ UNCHANGED <<conf, target, since, played>>

-----------------------------------------------------------------------------
(* Playing                                                                  *)

\* queue_get looks at the first frame only.
queue_get(due) == first # <<>> /\ due >= Head(first).stamp

playout_get_unconditional ==
  /\ first # <<>>
  /\ first' = Tail(first)
  /\ result' = Nothing
  /\ UNCHANGED <<started, conf, target, last, last_len, since, played>>

\* Nothing is due: the caller fills in.
GetNothing ==
  LET due == last + last_len
  IN /\ due <= MaxDue
     /\ ~queue_get(due)
     /\ last' = due
     /\ result' = [code |-> "fillin"]
     /\ UNCHANGED <<first, started, conf, target, last_len, since, played>>

\* since_last_step++ wraps to the most negative value.
NextStep(n) == IF n = StepMax THEN -StepMax - 1 ELSE n + 1

\* How many frames the buffer grows (or shrinks, -1) by.  A frame sooner than
\* SoonAfter after the last step is worth three.
StepSize(verdict) ==
  CASE verdict = "late" /\ since < SoonAfter ->
         IF target < conf.max_length - 2 THEN 3 ELSE 0
    [] verdict = "late" /\ since >= SoonAfter ->
         IF target < conf.max_length THEN 1 ELSE 0
    [] verdict = "early" /\ since > LongAfter ->
         IF target > conf.min_length THEN -1 ELSE 0
    [] OTHER -> 0

\* Mutant: a frame that was due earlier is played all the same.
LateNever(frame, now) == FALSE

\* The frame was due earlier.
Late(frame, now) == frame.stamp < now

\* (Past LongAfter the exact count no longer matters and is not kept.)
\* A growing buffer is behind its sender by that much more.
GetSpeech(verdict) ==
  LET due == last + last_len
      frame == Head(first)
      step == IF conf.dynamic THEN StepSize(verdict) ELSE 0
      now == due - step * last_len
      late == Late(frame, now)
  IN /\ due <= MaxDue /\ now >= -MaxRewind
     /\ queue_get(due) /\ frame.type = PLAYOUT_TYPE_SPEECH
     /\ verdict = "fine" \/ conf.dynamic
     /\ first' = Tail(first)
     /\ target' = target + step * SenderLen
     /\ since' = CASE ~conf.dynamic -> since
                   [] conf.dynamic /\ step # 0 -> 1
                   [] OTHER -> IF since > LongAfter /\ since < StepMax THEN since ELSE NextStep(since)
     /\ last' = IF late THEN now - last_len ELSE now
     /\ last_len' = IF late THEN last_len ELSE SenderLen
     /\ result' = [code |-> IF late THEN "drop" ELSE "ok", type |-> frame.type, stamp |-> frame.stamp]
     /\ played' = IF late THEN played ELSE [stamp |-> frame.stamp, length |-> target]
     /\ UNCHANGED <<started, conf>>

\* A frame that is not speech takes no time.
GetControl ==
  LET due == last + last_len
  IN /\ due <= MaxDue
     /\ queue_get(due) /\ Head(first).type # PLAYOUT_TYPE_SPEECH
     /\ first' = Tail(first)
     /\ last' = due - last_len
     /\ result' = [code |-> "ok", type |-> Head(first).type, stamp |-> Head(first).stamp]
     /\ UNCHANGED <<started, conf, target, last_len, since, played>>

PlayoutNext ==
  \/ \E type \in {PLAYOUT_TYPE_CONTROL, PLAYOUT_TYPE_SPEECH}, t \in Stamps : playout_put(type, t)
  \/ GetNothing
  \/ \E verdict \in {"late", "early", "fine"} : GetSpeech(verdict)
  \/ GetControl
  \/ playout_get_unconditional
  \/ \E l \in BufferLengths : playout_restart(l)

PlayoutSpec == PlayoutInit /\ [][PlayoutNext]_yvars

-----------------------------------------------------------------------------
(* Properties                                                               *)

\* This call gives a speech frame to play, and it is not the first.
PlaysAnother ==
  result'.code = "ok" /\ result'.type = PLAYOUT_TYPE_SPEECH /\ played # Never

\* In whatever order and however often frames arrive, each one that is given to
\* be played was stamped at least a frame length after the one played before,
\* so that none is played twice: what comes too late is given as PLAYOUT_DROP.
\* A buffer that adapts its length may play again what it has played, or
\* something before it, but only as far back as it has grown since it was asked
\* for the other frame (playout_get subtracts the steps it grows by from
\* last_speech_sender_stamp); one of fixed length never does.
PlayoutInOrder ==
  [][PlaysAnother =>
       /\ result'.stamp + target' >= played.stamp + played.length + SenderLen
       /\ ~conf.dynamic => result'.stamp >= played.stamp + SenderLen]_yvars
=============================================================================

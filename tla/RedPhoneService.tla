--------------------------- MODULE RedPhoneService ---------------------------
(***************************************************************************)
(* RedPhoneService over several calls: the intents, each handled by a      *)
(* thread of its own under the service's monitor, in any order; the        *)
(* notifications of the call managers, which change the phone's state      *)
(* without it; terminate(); the busy timer; and the LockManager.           *)
(*                                                                         *)
(* A call is a number; its manager thread is reduced to what it tells the  *)
(* service (CallManager models one call in full).  A session is an id and  *)
(* the String object its server's address was read into: every delivery of *)
(* an invitation makes a new one.  The messages to the activity, the       *)
(* notification bar and the outgoing ringer are left out.                  *)
(***************************************************************************)
EXTENDS LockManager

CONSTANTS NCalls,      \* calls in a behaviour
          SessionIds,  \* invitations the server may send
          MaxIntents   \* bound on the intents of a behaviour

ASSUME ServiceAssumption ==
  /\ NCalls \in Nat /\ MaxIntents \in Nat
  /\ SessionIds \subseteq Nat \ {0}

VARIABLES state,       \* RedPhoneService.state
          current,     \* currentCallManager, 0 for null
          manager,     \* manager[c]: where the thread of call c is
          answer,      \* answer[c] of a ResponderCallManager
          session,     \* session[c]: its SessionDescriptor
          ended,       \* ended[c]: terminate() of the manager was called
          listening,   \* listening[c]: the signal listener may still raise
          started,     \* calls so far
          intents,     \* intents whose threads wait for the monitor
          sends,       \* intents so far
          stage,       \* terminate(): "free", "stopped" or "cleared"
          timer,       \* of notifyBusy: "off" or "set"
          ringing,     \* the incoming ringer
          locks,       \* the LockManager
          busyTold,    \* sessions that were answered with busy
          late         \* a notification or an answer came too late, see RestIsClean

svars == <<state, current, manager, answer, session, ended, listening, started, intents, sends,
           stage, timer, ringing, locks, busyTold, late>>

CallNumbers == 1 .. NCalls
NoSession == [id |-> 0, serverIP |-> 0]

ServiceInit ==
  /\ state = "IDLE" /\ current = 0 /\ started = 0
  /\ manager = [c \in CallNumbers |-> "none"]
  /\ answer = [c \in CallNumbers |-> 0]
  /\ session = [c \in CallNumbers |-> NoSession]
  /\ ended = [c \in CallNumbers |-> FALSE]
  /\ listening = [c \in CallNumbers |-> FALSE]
  /\ intents = {} /\ sends = 0
  /\ stage = "free" /\ timer = "off" /\ ringing = FALSE
  /\ locks = NewLockManager /\ busyTold = {} /\ late = FALSE

callVars == <<current, manager, answer, session, ended, listening, started>>
phoneVars == <<stage, timer, ringing, locks, busyTold, late>>

-----------------------------------------------------------------------------
(* Intents                                                                  *)

\* What the receivers, the activity and the sockets send: a call at any time,
\* the rest while a call is shown.  DISCONNECTED without a session is the
\* "ExitTimeOut" of RtpSocket.
Intents ==
  [action : {"INCOMING"}, session : [id : SessionIds, serverIP : {sends + 1}]]
  \cup [action : {"OUTGOING", "HANGUP", "ANSWER", "DENY"}, session : {NoSession}]
  \cup [action : {"DISCONNECTED"}, session : [id : SessionIds \cup {0}, serverIP : {0}]]

SendIntent(i) ==
  /\ sends < MaxIntents /\ sends' = sends + 1
  /\ (i.action \in {"INCOMING", "OUTGOING"} \/ current # 0)
  /\ intents' = intents \cup {i}
  /\ UNCHANGED <<state, callVars, phoneVars>>

\* onIntentReceived is synchronized.
Received(i) == i \in intents /\ stage = "free" /\ intents' = intents \ {i}

\* Mutant: a ringing phone takes the next call.
IsBusyUnlessRinging(line) == (current # 0 /\ state \notin {"IDLE", "RINGING"}) \/ line

\* line: an ordinary call is in progress (TelephonyManager).
IsBusy(line) == (current # 0 /\ state # "IDLE") \/ line

\* equals() compares the addresses as objects.
SessionEquals(a, b) == a.id = b.id /\ a.serverIP = b.serverIP

\* A new manager thread replaces the current one.
NewCall(pc, s) ==
  /\ started < NCalls
  /\ started' = started + 1 /\ current' = started + 1
  /\ manager' = [manager EXCEPT ![started + 1] = pc]
  /\ session' = [session EXCEPT ![started + 1] = s]
  /\ UNCHANGED <<answer, ended, listening>>

HandleIncomingCall(i) ==
  /\ i.action = "INCOMING" /\ Received(i) /\ ~IsBusy(FALSE)
  /\ NewCall("calling", i.session)
  /\ state' = "RINGING"
  /\ locks' = Processing(locks)
  /\ UNCHANGED <<sends, stage, timer, ringing, busyTold, late>>

HandleBusyCall(i, line) ==
  /\ i.action = "INCOMING" /\ Received(i) /\ IsBusy(line)
  /\ busyTold' = IF current # 0 /\ SessionEquals(i.session, session[current]) THEN busyTold
                 ELSE busyTold \cup {i.session.id}
  /\ UNCHANGED <<state, callVars, sends, stage, timer, ringing, locks, late>>

HandleOutgoingCall(i, locked) ==
  /\ i.action = "OUTGOING" /\ Received(i) /\ state = "IDLE"
  /\ NewCall("connecting", NoSession)
  /\ state' = "DIALING"
  /\ locks' = Interactive(locks, locked)
  /\ UNCHANGED <<sends, stage, timer, ringing, busyTold, late>>

\* The phone is not idle, or the intent has no number.
IgnoreOutgoingCall(i) ==
  /\ i.action = "OUTGOING" /\ Received(i)
  /\ UNCHANGED <<state, callVars, sends, phoneVars>>

Responder(c) == session[c].serverIP # 0

\* Without a call the phone is ANSWERING all the same.
HandleAnswerCall(i) ==
  /\ i.action = "ANSWER" /\ Received(i)
  /\ current # 0 => Responder(current)
  /\ state' = "ANSWERING" /\ ringing' = FALSE
  /\ answer' = IF current = 0 THEN answer ELSE [answer EXCEPT ![current] = 1]
  /\ late' = (late \/ current = 0)
  /\ UNCHANGED <<current, manager, session, ended, listening, started, sends, stage, timer, locks, busyTold>>

\* The handlers that end the call hold the monitor and go on in terminate().
Stop ==
  /\ stage = "free" /\ stage' = "stopped"
  /\ ringing' = FALSE
  /\ locks' = Processing(locks)
  /\ late' = FALSE

HandleDenyCall(i) ==
  /\ i.action = "DENY" /\ Received(i)
  /\ current # 0 => Responder(current)
  /\ state' = "IDLE"
  /\ answer' = IF current = 0 THEN answer ELSE [answer EXCEPT ![current] = 2]
  /\ Stop
  /\ UNCHANGED <<current, manager, session, ended, listening, started, sends, timer, busyTold>>

HandleHangupCall(i) ==
  /\ i.action = "HANGUP" /\ Received(i)
  /\ Stop
  /\ UNCHANGED <<state, callVars, sends, timer, busyTold>>

\* Dialling without a data connection: notifyClientFailure.
DialWithoutData(i) ==
  /\ i.action = "OUTGOING" /\ Received(i) /\ state = "IDLE"
  /\ Stop
  /\ UNCHANGED <<state, callVars, sends, timer, busyTold>>

\* An exception nobody catches ends the process; the service starts afresh.
ProcessDies ==
  /\ state' = "IDLE" /\ current' = 0 /\ stage' = "free" /\ intents' = {}
  /\ manager' = [c \in CallNumbers |-> IF c <= started THEN "done" ELSE "none"]
  /\ ended' = [c \in CallNumbers |-> c <= started]
  /\ listening' = [c \in CallNumbers |-> FALSE]
  /\ timer' = "off" /\ ringing' = FALSE /\ locks' = NewLockManager /\ late' = FALSE
  /\ UNCHANGED <<answer, session, started, sends, busyTold>>

\* Answer and deny cast the current manager: a call of our own makes the cast
\* throw.
AnswersOwnCall(i) ==
  /\ i \in intents /\ stage = "free" /\ i.action \in {"ANSWER", "DENY"}
  /\ current # 0 /\ ~Responder(current)
  /\ ProcessDies

\* A relayed hangup counts for its own session, the timeout for any call; a
\* manager without a session throws, which is swallowed.
Disconnects(i) ==
  IF current = 0 THEN i.session.id = 0
  ELSE session[current].id # 0 /\ i.session.id \in {0, session[current].id}

HandleCallDisconnected(i) ==
  /\ i.action = "DISCONNECTED" /\ Received(i)
  /\ IF Disconnects(i) THEN Stop ELSE UNCHANGED <<stage, ringing, locks, late>>
  /\ UNCHANGED <<state, callVars, sends, timer, busyTold>>

-----------------------------------------------------------------------------
(* terminate()                                                              *)

\* Called without the monitor: it is taken here.
CallsTerminate ==
  /\ Stop
  /\ UNCHANGED <<state, current, answer, session, ended, started, intents, sends, busyTold>>

TerminateCall ==
  /\ stage = "stopped" /\ stage' = "cleared"
  /\ ended' = [c \in CallNumbers |-> ended[c] \/ c = current]
  /\ answer' = [c \in CallNumbers |-> IF c = current /\ answer[c] = 0 THEN 2 ELSE answer[c]]
  /\ current' = 0
  /\ UNCHANGED <<state, manager, session, listening, started, intents, sends,
                 timer, ringing, locks, busyTold, late>>

\* Mutant: the locks keep what PROCESSING gave them.
ComesToRestLocked ==
  /\ stage = "cleared" /\ stage' = "free"
  /\ state' = "IDLE"
  /\ UNCHANGED <<callVars, intents, sends, timer, ringing, locks, busyTold, late>>

ComesToRest ==
  /\ stage = "cleared" /\ stage' = "free"
  /\ state' = "IDLE"
  /\ locks' = Idle(locks)
  /\ UNCHANGED <<callVars, intents, sends, timer, ringing, busyTold, late>>

-----------------------------------------------------------------------------
(* Notifications                                                            *)

\* The call of this notification is no longer the phone's, or is being ended.
Belated(c) == c # current \/ stage # "free"

At(c, pc) == c \in 1 .. started /\ manager[c] = pc
Goto(c, pc) == manager' = [manager EXCEPT ![c] = pc]

NotifyCallFresh(c, locked) ==
  /\ At(c, "calling")
  /\ Goto(c, "fresh")
  /\ locks' = Interactive(locks, locked)
  /\ late' = (late \/ Belated(c))
  /\ UNCHANGED <<state, current, answer, session, ended, listening, started, intents, sends,
                 stage, timer, ringing, busyTold>>

\* The ringer starts, then the signal listener.
StartsRinging(c) ==
  /\ At(c, "fresh")
  /\ Goto(c, "ringing")
  /\ ringing' = TRUE
  /\ late' = (late \/ Belated(c))
  /\ listening' = [listening EXCEPT ![c] = TRUE]
  /\ UNCHANGED <<state, current, answer, session, ended, started, intents, sends,
                 stage, timer, locks, busyTold>>

\* The manager wakes up from waitForAnswer.
GetsAnswer(c) ==
  /\ At(c, "ringing") /\ answer[c] # 0
  /\ Goto(c, IF answer[c] = 1 THEN "connecting" ELSE "done")
  /\ UNCHANGED <<state, current, answer, session, ended, listening, started, intents, sends, phoneVars>>

\* The caller's manager has its session and starts the listener.
ProcessSignals(c, s) ==
  /\ At(c, "connecting") /\ ~Responder(c)
  /\ session' = [session EXCEPT ![c] = s]
  /\ Goto(c, "waiting")
  /\ listening' = [listening EXCEPT ![c] = TRUE]
  /\ UNCHANGED <<state, current, answer, ended, started, intents, sends, phoneVars>>

\* run() has tested `terminated` and calls notifyCallConnected.
Connects(c) ==
  /\ (At(c, "connecting") /\ Responder(c)) \/ At(c, "waiting")
  /\ ~ended[c]
  /\ Goto(c, "connected")
  /\ UNCHANGED <<state, current, answer, session, ended, listening, started, intents, sends, phoneVars>>

NotifyCallConnected(c, locked, display) ==
  /\ At(c, "connected")
  /\ Goto(c, "locked")
  /\ locks' = InCall(locks, locked, display)
  /\ late' = (late \/ Belated(c))
  /\ UNCHANGED <<state, current, answer, session, ended, listening, started, intents, sends,
                 stage, timer, ringing, busyTold>>

SetsConnected(c) ==
  /\ At(c, "locked")
  /\ Goto(c, "talking")
  /\ state' = "CONNECTED"
  /\ late' = (late \/ Belated(c))
  /\ UNCHANGED <<current, answer, session, ended, listening, started, intents, sends,
                 stage, timer, ringing, locks, busyTold>>

\* The failures that set IDLE first (handshake, server, client, login), and the
\* rest (stale, disconnected, no such user, server message, client error).
\* Most are reported also when the call was terminated in the meantime.
Working == {"calling", "connecting", "waiting", "talking"}

NotifyFailure(c) ==
  /\ \/ (\E pc \in Working : At(c, pc)) /\ Goto(c, "failing")
     \/ At(c, "broken") /\ Goto(c, "failingAgain")
  /\ state' = "IDLE"
  /\ UNCHANGED <<current, answer, session, ended, listening, started, intents, sends, phoneVars>>

\* An initiator whose signalling socket was not made reports it and goes on,
\* into the null socket and a second report ("broken").
FailureTerminates(c, pc) ==
  /\ At(c, "failing") \/ (At(c, "failingAgain") /\ pc = "done")
  /\ pc = "broken" => session[c] = NoSession
  /\ Goto(c, pc)
  /\ CallsTerminate
  /\ UNCHANGED <<listening, timer>>

NotifyEnd(c) ==
  /\ \E pc \in Working : At(c, pc)
  /\ Goto(c, "done")
  /\ CallsTerminate
  /\ UNCHANGED <<listening, timer>>

\* The signal listener of a call raises (its socket is closed): disconnected.
ListenerRaises(c) ==
  /\ c \in 1 .. started /\ listening[c]
  /\ listening' = [listening EXCEPT ![c] = FALSE]
  /\ CallsTerminate
  /\ UNCHANGED <<manager, timer>>

\* The responder is busy: the end of the call is put off.
NotifyBusy(c) ==
  /\ c \in 1 .. started /\ listening[c] /\ ~Responder(c) /\ current # 0
  /\ timer = "off" /\ timer' = "set"
  /\ UNCHANGED <<state, callVars, intents, sends, stage, ringing, locks, busyTold, late>>

\* The same, just after the end of the call: there is no manager to reset.
NotifyBusyWithoutCall(c) ==
  /\ c \in 1 .. started /\ listening[c] /\ ~Responder(c) /\ current = 0
  /\ ProcessDies

BusyTimeout ==
  /\ timer = "set" /\ timer' = "off"
  /\ CallsTerminate
  /\ UNCHANGED <<manager, listening>>

-----------------------------------------------------------------------------
(* The main thread and the sensor                                           *)

LockStep(l) ==
  /\ locks' = l /\ l # locks
  /\ UNCHANGED <<state, callVars, intents, sends, stage, timer, ringing, busyTold>>

SensorChanged(o) == locks.sensor /\ LockStep(setOrientation(locks, o)) /\ UNCHANGED late

HandlerTakes == locks.queued /\ LockStep(DispatchOrientation(locks)) /\ UNCHANGED late

HandlerReports ==
  /\ locks.handling
  /\ LockStep(OrientationChanged(locks))
  /\ late' = (late \/ ~locks.sensor)

ServiceNext ==
  \/ \E i \in Intents : SendIntent(i)
  \/ \E i \in intents : HandleIncomingCall(i)
  \/ \E i \in intents, line \in BOOLEAN : HandleBusyCall(i, line)
  \/ \E i \in intents, locked \in BOOLEAN : HandleOutgoingCall(i, locked)
  \/ \E i \in intents : IgnoreOutgoingCall(i)
  \/ \E i \in intents : HandleAnswerCall(i)
  \/ \E i \in intents : HandleDenyCall(i)
  \/ \E i \in intents : HandleHangupCall(i)
  \/ \E i \in intents : DialWithoutData(i)
  \/ \E i \in intents : AnswersOwnCall(i)
  \/ \E i \in intents : HandleCallDisconnected(i)
  \/ TerminateCall
  \/ ComesToRest
  \/ \E c \in CallNumbers, locked \in BOOLEAN : NotifyCallFresh(c, locked)
  \/ \E c \in CallNumbers : StartsRinging(c)
  \/ \E c \in CallNumbers : GetsAnswer(c)
  \/ \E c \in CallNumbers, id \in SessionIds : ProcessSignals(c, [id |-> id, serverIP |-> 0])
  \/ \E c \in CallNumbers : Connects(c)
  \/ \E c \in CallNumbers, locked, display \in BOOLEAN : NotifyCallConnected(c, locked, display)
  \/ \E c \in CallNumbers : SetsConnected(c)
  \/ \E c \in CallNumbers : NotifyFailure(c)
  \/ \E c \in CallNumbers, pc \in {"done", "broken"} : FailureTerminates(c, pc)
  \/ \E c \in CallNumbers : NotifyEnd(c)
  \/ \E c \in CallNumbers : ListenerRaises(c)
  \/ \E c \in CallNumbers : NotifyBusy(c)
  \/ \E c \in CallNumbers : NotifyBusyWithoutCall(c)
  \/ BusyTimeout
  \/ \E o \in Orientations : SensorChanged(o)
  \/ HandlerTakes
  \/ HandlerReports

ServiceSpec == ServiceInit /\ [][ServiceNext]_svars

-----------------------------------------------------------------------------
(* Properties                                                               *)

\* Whatever the order of intents, failures, the busy timer and the sensor: once
\* terminate() is over, a phone without a call is IDLE and silent, holds no wake
\* lock and has given back the keyguard and both sensors.  Except after a
\* notification, an orientation report or an answer that came after the end of
\* its call, until the next terminate(): the windows the code leaves open.
RestIsClean ==
  stage = "free" /\ ~late /\ current = 0 =>
    /\ state = "IDLE" /\ ~ringing /\ locks.held = {}
    /\ ~locks.keyguardDisabled /\ ~locks.sensor /\ ~locks.proximity

\* The threads that have set IDLE and have not yet reached terminate().
Failing == {"failing", "failingAgain"}

\* A new call takes the place of a running one only in the window a failing
\* call opens: its thread has set IDLE and has not yet reached terminate().
ReplacedOnlyInWindow ==
  [][current # 0 /\ current' \notin {0, current} =>
       \E c \in CallNumbers : manager[c] \in Failing]_svars

\* "Duplicate incoming call signal, ignoring..." (RedPhoneService.java:247): a
\* second copy of the invitation of the current call is not answered with busy.
DuplicateIgnored ==
  [][current # 0 /\ Responder(current)
       => session[current].id \notin busyTold' \ busyTold]_svars
=============================================================================

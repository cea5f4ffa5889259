----------------------------- MODULE CallManager -----------------------------
(***************************************************************************)
(* call/CallManager.java with its two subclasses, CallAudioManager's start *)
(* and end, and the SignalManager queue: the life of one call, from the    *)
(* start of its manager thread to the end of all that it started.          *)
(*                                                                         *)
(* Three threads meet here.  The manager thread (`pc`) signals, connects,  *)
(* negotiates and then runs the audio loop.  Whoever ends the call, the    *)
(* service handling an intent, the manager thread after an exception or    *)
(* the signalling listener after one, calls RedPhoneService.terminate(),   *)
(* which holds the service's monitor (`lock`) while CallManager.terminate  *)
(* looks for what there is to stop (`step`).  The signalling worker runs   *)
(* the tasks of SignalManager.  Fields are read and written where the code *)
(* does it, so that a step of another thread may come between a test and   *)
(* the use of what was tested.                                             *)
(***************************************************************************)
EXTENDS SignalManager

CONSTANT Roles    \* the roles to consider: "Initiator", "Responder"

ASSUME RolesAssumption == Roles \subseteq {"Initiator", "Responder"}

VARIABLES role,           \* InitiatingCallManager or ResponderCallManager
          pc,             \* where the manager thread is
          answer,         \* ResponderCallManager.answer (0 none, 1 yes, 2 no)
          terminated,     \* CallManager.terminated
          signalManager,  \* CallManager.signalManager is not null
          zrtp,           \* zrtpSocket: "null", "open" or "closed"
          audio,          \* callAudioManager is not null
          callDone,       \* CallAudioManager.callDone
          runStarted,     \* CallAudioManager.runStarted
          released,       \* doTerminate() gave microphone and speaker back
          current,        \* RedPhoneService.currentCallManager is this call
          lock,           \* who holds the service's monitor
          step,           \* where the holder is in terminate()
          endPressed,     \* the preference CallScreenEndButtonPressed
          intents,        \* intents and timers on their way to the service
          peerGone,       \* the peer has hung up or answered that it is busy
          crashed         \* an uncaught exception has ended the process

audioVars   == <<audio, callDone, runStarted, released>>
serviceVars == <<current, lock, step, endPressed, intents, peerGone, crashed>>
callVars    == <<role, answer, terminated, signalManager, zrtp>>
managerVars == <<pc, callVars>>
vars == <<managerVars, audioVars, serviceVars, signalVars>>

Steps == {"none", "audio", "check", "revive", "enqueue", "interrupt",
          "zrtp", "leave"}

(* The manager thread up to the end of the handshake.                      *)
SettingUp == {"initiate", "ring", "fresh", "process", "await", "network",
              "endButton", "guard1", "audio", "start", "guard2", "finish",
              "guard3", "connected"}

Init ==
  /\ SignalInit
  /\ role \in Roles
  /\ pc = IF role = "Initiator" THEN "initiate" ELSE "ring"
  /\ answer = 0
  /\ terminated = FALSE
  /\ signalManager = FALSE
  /\ zrtp = "null"
  /\ audio = FALSE /\ callDone = FALSE
  /\ runStarted = FALSE /\ released = FALSE
  /\ current = TRUE
  /\ lock = "none" /\ step = "none"
  /\ endPressed = FALSE
  /\ intents = {}
  /\ peerGone = FALSE
  /\ crashed = FALSE

-----------------------------------------------------------------------------
(* The manager thread: InitiatingCallManager.run, ResponderCallManager.run *)
(* and CallManager.run.                                                    *)

GoTo(from, to) == pc = from /\ pc' = to

Move(from, to) ==
  GoTo(from, to) /\ UNCHANGED <<callVars, audioVars, serviceVars, signalVars>>

(* An exception before CallManager.run, or an Audio- or IOException in it: *)
(* the notify...() that handles it ends in RedPhoneService.terminate().    *)
Fails(from) == Move(from, "fail")

(* The caller: connect to the server and ask for a session.  A failure to  *)
(* connect is reported, then met again as a NullPointerException.          *)
Initiate ==
  \/ /\ GoTo("initiate", "network")
     /\ socket' = "open"
     /\ UNCHANGED <<callVars, audioVars, serviceVars>>
     /\ UNCHANGED <<queue, shut, task, interrupted, hangup>>
  \/ Move("initiate", "failTwice")
  \/ Fails("initiate")

(* The callee: connect to the server and tell it that we ring.             *)
Ring ==
  \/ /\ GoTo("ring", "fresh")
     /\ socket' = "open"
     /\ UNCHANGED <<callVars, audioVars, serviceVars>>
     /\ UNCHANGED <<queue, shut, task, interrupted, hangup>>
  \/ Fails("ring")

(* notifyCallFresh shows the call card, from which the user answers.       *)
NotifyCallFresh ==
  /\ GoTo("fresh", "process")
  /\ intents' = intents \cup {"card"}
  /\ UNCHANGED callVars
  /\ UNCHANGED <<current, lock, step, endPressed, peerGone, crashed>>
  /\ UNCHANGED <<audioVars, signalVars>>

ProcessSignals ==
  /\ GoTo("process", IF role = "Initiator" THEN "endButton" ELSE "await")
  /\ signalManager' = TRUE
  /\ Construct
  /\ UNCHANGED <<role, answer, terminated, zrtp, audioVars, serviceVars>>

WaitForAnswer ==
  /\ answer # 0
  /\ Move("await", IF answer = 1 THEN "network" ELSE "done")

(* NetworkConnector.makeConnection returns once the relay has answered;    *)
(* then the RTP and ZRTP sockets are made.  makeConnection tries for ever. *)
MakeConnection ==
  /\ GoTo("network", IF role = "Initiator" THEN "process" ELSE "guard1")
  /\ zrtp' = "open"
  /\ UNCHANGED <<role, answer, terminated, signalManager>>
  /\ UNCHANGED <<audioVars, serviceVars, signalVars>>

(* The caller may have given up before there was a SignalManager to tell.  *)
CheckEndButtonNever ==     \* mutant: the preference is not looked at
  Move("endButton", "guard1")

CheckEndButton ==
  /\ GoTo("endButton", "guard1")
  /\ hangup' = (hangup \/ endPressed)
  /\ UNCHANGED <<callVars, audioVars, serviceVars>>
  /\ UNCHANGED <<queue, shut, task, interrupted, socket>>

(* The four `if (!terminated)` of CallManager.run.                         *)
AfterGuard == [guard1 |-> "audio", guard2 |-> "finish",
               guard3 |-> "connected", guard4 |-> "run"]

Guard(g) == Move(g, IF terminated THEN "done" ELSE AfterGuard[g])

NewCallAudioManager ==
  \/ /\ GoTo("audio", "start")
     /\ audio' = TRUE
     /\ UNCHANGED <<callDone, runStarted, released>>
     /\ UNCHANGED <<callVars, serviceVars, signalVars>>
  \/ Fails("audio")

(* negotiateStart and negotiateFinish (module ZrtpHandshake) return, also  *)
(* when the socket was closed, or throw; only a call that was not          *)
(* terminated reports it.                                                  *)
Negotiate(from, to) ==
  \/ Move(from, to)
  \/ Move(from, IF terminated THEN "done" ELSE "fail")

(* notifyCallConnected: send the message and wait() for the activity, in   *)
(* the service's monitor.                                                  *)
NotifyCallConnected ==
  /\ lock = "none"
  /\ Move("connected", "uiWait")

(* The activity has drawn the call screen: notify().                       *)
NotifyCallConnectionUIUpdateComplete ==
  /\ lock = "none"
  /\ Move("uiWait", "shutdown")

(* signalManager.shutdownQueue(); the call may have ended during the wait: *)
(* then the reference is null, or the queue refuses the task.              *)
ShutdownQueue ==
  \/ /\ GoTo("shutdown", "interrupt")
     /\ signalManager
     /\ Execute("close")
     /\ UNCHANGED <<callVars, audioVars, serviceVars>>
  \/ /\ ~signalManager \/ shut
     /\ Fails("shutdown")

InterruptListener ==
  /\ GoTo("interrupt", "guard4")
  /\ Interrupt
  /\ UNCHANGED <<callVars, audioVars, serviceVars>>

-----------------------------------------------------------------------------
(* CallAudioManager.run: start the loop unless terminate() came first, and *)
(* release the devices in any case when it is over.                        *)

StartsLoopAlways == TRUE     \* mutant: doRun() does not look at callDone

StartsLoop == ~callDone

Run ==
  /\ \/ /\ StartsLoop
        /\ GoTo("run", "loop")
        /\ runStarted' = TRUE
        /\ UNCHANGED released
     \/ /\ ~StartsLoop
        /\ GoTo("run", "done")
        /\ released' = TRUE
        /\ UNCHANGED runStarted
  /\ UNCHANGED <<callVars, audio, callDone, serviceVars, signalVars>>

(* The loop ends because of callDone, or with an exception (to = "fail").  *)
LeaveLoop(to) ==
  /\ GoTo("loop", to)
  /\ to = "done" => callDone
  /\ released' = TRUE
  /\ UNCHANGED <<audio, callDone, runStarted>>
  /\ UNCHANGED <<callVars, serviceVars, signalVars>>

-----------------------------------------------------------------------------
(* RedPhoneService.terminate(), in the service's monitor.  `endedBy` is    *)
(* the thread that calls it, `manager` the signalManager its caller left.  *)

AnswerOnTerminateNever == answer   \* mutant: terminate() forgets answer(false)

(* ResponderCallManager.terminate() answers an unanswered call.            *)
AnswerOnTerminate ==
  IF role = "Responder" /\ answer = 0 THEN 2 ELSE answer

BeginTerminate(endedBy, manager) ==
  /\ lock = "none"
  /\ lock' = endedBy
  /\ IF current
     THEN /\ terminated' = TRUE
          /\ step' = "audio"
          /\ signalManager' = manager
     ELSE /\ step' = "leave"
          /\ UNCHANGED <<terminated, signalManager>>
  /\ UNCHANGED <<role, pc, zrtp, current, peerGone, crashed>>
  /\ UNCHANGED <<audioVars, signalVars>>

AnswersTermination == answer' = IF current THEN AnswerOnTerminate ELSE answer

(* ACTION_HANGUP_CALL, from the End button, which closes the activity.     *)
HandleHangupCall ==
  /\ ~endPressed
  /\ BeginTerminate("service", signalManager)
  /\ AnswersTermination
  /\ endPressed' = TRUE
  /\ UNCHANGED intents

(* ACTION_DENY_CALL: answer(false), then terminate().                      *)
HandleDenyCall ==
  /\ "card" \in intents
  /\ BeginTerminate("service", signalManager)
  /\ answer' = IF current THEN 2 ELSE answer
  /\ intents' = intents \ {"card"}
  /\ UNCHANGED endPressed

(* ACTION_ANSWER_CALL: answer(true).                                       *)
HandleAnswerCall ==
  /\ "card" \in intents /\ lock = "none"
  /\ answer' = IF current THEN 1 ELSE answer
  /\ intents' = intents \ {"card"}
  /\ UNCHANGED <<role, pc, terminated, signalManager, zrtp>>
  /\ UNCHANGED <<audioVars, signalVars>>
  /\ UNCHANGED <<current, lock, step, endPressed, peerGone, crashed>>

(* ACTION_CALL_DISCONNECTED: the peer has hung up, so there is nobody left *)
(* to signal: resetSignalManager(), then terminate().                      *)
HandleCallDisconnected ==
  /\ "disconnected" \in intents
  /\ \/ current /\ BeginTerminate("service", FALSE) /\ AnswersTermination
     \/ /\ ~current /\ lock = "none"
        /\ UNCHANGED <<managerVars, audioVars, signalVars>>
        /\ UNCHANGED <<current, lock, step, peerGone, crashed>>
  /\ intents' = intents \ {"disconnected"}
  /\ UNCHANGED endPressed

(* The terminate() that notifyBusy() posted.                               *)
BusyTimeout ==
  /\ "busy" \in intents
  /\ BeginTerminate("service", signalManager)
  /\ AnswersTermination
  /\ intents' = intents \ {"busy"}
  /\ UNCHANGED endPressed

(* ACTION_CALL_DISCONNECTED with "ExitTimeOut": no packet for 60 seconds.  *)
HandleExitTimeOut ==
  /\ pc = "loop" /\ current
  /\ BeginTerminate("service", signalManager)
  /\ AnswersTermination
  /\ UNCHANGED <<endPressed, intents>>

(* The notify...() of an exception in the manager thread.                  *)
ManagerFails ==
  /\ pc \in {"fail", "failTwice"}
  /\ BeginTerminate("manager", signalManager)
  /\ AnswersTermination
  /\ UNCHANGED <<endPressed, intents>>

(* The listener's notifyCallDisconnected().                                *)
ListenerRaises ==
  /\ task = "raise"
  /\ BeginTerminate("listener", signalManager)
  /\ AnswersTermination
  /\ UNCHANGED <<endPressed, intents>>

-----------------------------------------------------------------------------
(* CallManager.terminate(), statement by statement.                        *)

At(s, next) == step = s /\ step' = next

(* CallAudioManager.terminate(): stop the loop; release the devices here   *)
(* if run() has not started, otherwise run() will.                         *)
ReleasesNever == FALSE       \* mutant: terminate() leaves it all to run()

ReleasesHere == ~runStarted

TerminateAudio ==
  /\ At("audio", "check")
  /\ callDone' = (callDone \/ audio)
  /\ released' = (released \/ (audio /\ ReleasesHere))
  /\ UNCHANGED <<managerVars, audio, runStarted, signalVars>>
  /\ UNCHANGED <<current, lock, endPressed, intents, peerGone, crashed>>

CheckSignalManager ==
  /\ At("check", IF signalManager THEN "revive" ELSE "zrtp")
  /\ UNCHANGED <<managerVars, audioVars, signalVars>>
  /\ UNCHANGED <<current, lock, endPressed, intents, peerGone, crashed>>

(* SignalManager.terminate(), unless notifyBusy() has reset the reference  *)
(* since it was tested.                                                    *)
TerminateSignals ==
  /\ At("revive", "enqueue")
  /\ crashed' = ~signalManager
  /\ IF signalManager THEN Revive ELSE UNCHANGED signalVars
  /\ UNCHANGED <<managerVars, audioVars>>
  /\ UNCHANGED <<current, lock, endPressed, intents, peerGone>>

QueueHangup ==
  /\ At("enqueue", "interrupt")
  /\ crashed' = shut
  /\ IF shut THEN UNCHANGED signalVars ELSE Execute("hangup")
  /\ UNCHANGED <<managerVars, audioVars>>
  /\ UNCHANGED <<current, lock, endPressed, intents, peerGone>>

InterruptForHangup ==
  /\ At("interrupt", "zrtp")
  /\ Interrupt
  /\ UNCHANGED <<managerVars, audioVars>>
  /\ UNCHANGED <<current, lock, endPressed, intents, peerGone, crashed>>

CloseZrtp ==
  /\ At("zrtp", "leave")
  /\ zrtp' = IF zrtp = "open" THEN "closed" ELSE zrtp
  /\ current' = FALSE
  /\ UNCHANGED <<role, pc, answer, terminated, signalManager, audioVars>>
  /\ UNCHANGED <<lock, endPressed, intents, peerGone, crashed, signalVars>>

(* Leave the monitor; the caller of terminate() goes on.                   *)
LeaveMonitor ==
  /\ At("leave", "none")
  /\ lock' = "none"
  /\ pc' = IF lock # "manager" THEN pc
           ELSE IF pc = "failTwice" THEN "fail" ELSE "done"
  /\ task' = IF lock = "listener" THEN "none" ELSE task
  /\ UNCHANGED <<role, answer, terminated, signalManager, zrtp, audioVars>>
  /\ UNCHANGED <<current, endPressed, intents, peerGone, crashed>>
  /\ UNCHANGED <<queue, shut, interrupted, socket, hangup>>

TerminateStep ==
  \/ TerminateAudio
  \/ CheckSignalManager
  \/ TerminateSignals
  \/ QueueHangup
  \/ InterruptForHangup
  \/ CloseZrtp
  \/ LeaveMonitor

-----------------------------------------------------------------------------
(* What the listener does with a signal it has read.                       *)

(* Ringing and keep-alive signals only inform the user and the server.     *)
SignalInforms ==
  /\ ListenerReads("relist")
  /\ UNCHANGED <<managerVars, audioVars, serviceVars>>

SignalHangup ==
  /\ ~peerGone
  /\ ListenerReads("relist")
  /\ intents' = intents \cup {"disconnected"}
  /\ peerGone' = TRUE
  /\ UNCHANGED <<managerVars, audioVars>>
  /\ UNCHANGED <<current, lock, step, endPressed, crashed>>

(* notifyBusy() resets the SignalManager of currentCallManager, which may  *)
(* be null by now, and ends the call after the busy tone.  The response    *)
(* to the signal may fail.                                                 *)
SignalBusy ==
  /\ role = "Initiator" /\ ~peerGone
  /\ ListenerReads("relist") \/ ListenerReads("raise")
  /\ crashed' = ~current
  /\ signalManager' = (signalManager /\ ~current)
  /\ intents' = IF current THEN intents \cup {"busy"} ELSE intents
  /\ peerGone' = TRUE
  /\ UNCHANGED <<role, pc, answer, terminated, zrtp, audioVars>>
  /\ UNCHANGED <<current, lock, step, endPressed>>

(* The relay passes the peer's hangup on in a "sig:" datagram, which       *)
(* RtpSocket.receive() turns into the same intent.                         *)
RelayedHangup ==
  /\ pc \in {"start", "finish", "loop"} /\ ~peerGone
  /\ intents' = intents \cup {"disconnected"}
  /\ peerGone' = TRUE
  /\ UNCHANGED <<managerVars, audioVars, signalVars>>
  /\ UNCHANGED <<current, lock, step, endPressed, crashed>>

-----------------------------------------------------------------------------
(* The steps of the manager thread that wait for nobody outside the app.   *)
ManagerStep ==
  \/ Initiate
  \/ Ring
  \/ NotifyCallFresh
  \/ ProcessSignals
  \/ WaitForAnswer
  \/ CheckEndButton
  \/ \E g \in DOMAIN AfterGuard : Guard(g)
  \/ NewCallAudioManager
  \/ Negotiate("start", "guard2")
  \/ Negotiate("finish", "guard3")
  \/ NotifyCallConnected
  \/ ShutdownQueue
  \/ InterruptListener
  \/ Run
  \/ LeaveLoop("done")
  \/ ManagerFails

(* What the user, the peer and the network do, or do not.                  *)
OutsideStep ==
  \/ HandleHangupCall
  \/ HandleDenyCall
  \/ HandleAnswerCall
  \/ HandleCallDisconnected
  \/ HandleExitTimeOut
  \/ BusyTimeout
  \/ SignalInforms
  \/ SignalHangup
  \/ SignalBusy
  \/ RelayedHangup
  \/ LeaveLoop("fail")
  \/ Fails("network")
  \/ ListenerFails /\ UNCHANGED <<managerVars, audioVars, serviceVars>>

QueueStep ==
  \/ WorkerStep /\ UNCHANGED <<managerVars, audioVars, serviceVars>>
  \/ ListenerRaises

Next ==
  /\ ~crashed
  /\ \/ ManagerStep
     \/ MakeConnection
     \/ NotifyCallConnectionUIUpdateComplete
     \/ TerminateStep
     \/ QueueStep
     \/ OutsideStep

Spec == Init /\ [][Next]_vars

(* Every thread runs.  The handshake ends (ZrtpHandshake, NegotiationEnds) *)
(* and the main looper, which never blocks, delivers the message that      *)
(* notifyCallConnected() sends to the activity.                            *)
ThreadsRun ==
  /\ WF_vars(~crashed /\ ManagerStep)
  /\ WF_vars(~crashed /\ TerminateStep)
  /\ WF_vars(~crashed /\ QueueStep)
  /\ WF_vars(~crashed /\ NotifyCallConnectionUIUpdateComplete)

(* The relay may never answer ...                                          *)
ThreadSpec == Spec /\ ThreadsRun

(* ... or answers one of NetworkConnector's attempts.                      *)
FairSpec == ThreadSpec /\ WF_vars(~crashed /\ MakeConnection)

-----------------------------------------------------------------------------
(* The audio loop never starts once terminate() has been past the audio:   *)
(* either it found the CallAudioManager and set callDone, which doRun()    *)
(* tests, or there was none yet and a later `if (!terminated)` stops the   *)
(* manager thread.  A phone that was hung up does not start to record.     *)
AudioTold == ~current \/ step \in Steps \ {"none", "audio"}

NoAudioAfterTerminate == [][AudioTold /\ pc' = "loop" => pc = "loop"]_vars

(* Once a call was terminated its manager thread ends, whatever it waits   *)
(* for: an answer, the peer's packets, the activity, the end of the audio. *)
ManagerEnds == ~current ~> (pc = "done" \/ crashed)

(* Between terminate() and run() one always gives microphone and speaker   *)
(* back: the two decide under CallAudioManager's lock who does it.         *)
AudioIsReleased == callDone ~> (released \/ crashed)

(* When the caller gives up a call whose relay connection is made but whose *)
(* handshake is not over, the server is told, by the queued hangup task or *)
(* by the test of the End button, unless the peer has left by itself.      *)
CancelIsSignalled ==
  (role = "Initiator" /\ endPressed /\ zrtp # "null" /\ pc \in SettingUp)
     ~> (hangup \/ peerGone)

(* "the signaling connection for any ongoing call must remain open,        *)
(* otherwise the call will drop" (SignalingSocket.java:82-83).             *)
SignalingStaysOpen == pc = "loop" /\ ~callDone => socket = "open"

(* NetworkConnector.makeConnection() gives up on a relay that never        *)
(* answers: "Could not connect to server." (NetworkConnector.java:76).     *)
ConnectionGivesUp == (pc = "network") ~> (pc # "network")

(* Every hangup that SignalManager.terminate() announces with "Queuing     *)
(* hangup signal..." (SignalManager.java:56) is sent, if the peer stays.   *)
QueuedHangupIsSent ==
  (step = "interrupt") ~> (hangup \/ peerGone \/ crashed)
=============================================================================

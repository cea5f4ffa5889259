---------------------------- MODULE SignalManager ----------------------------
(***************************************************************************)
(* call/SignalManager.java: the queue of one call's signalling.  A single  *)
(* worker thread runs the tasks of an executor in order: the listener,     *)
(* which waits for a signal from the server and then queues itself again,  *)
(* and the two tasks other threads queue behind it, "hangup" (terminate)   *)
(* and "close" (shutdownQueue).  `interrupted` makes a waiting listener    *)
(* give way; the last task shuts the executor down, which drops whatever   *)
(* is still queued.                                                        *)
(*                                                                         *)
(* These are the operations of the component; CallManager runs them        *)
(* together with the threads that use it.                                  *)
(***************************************************************************)
EXTENDS Naturals, Sequences

VARIABLES queue,        \* waiting in SignalManager.queue: "listen", "hangup", "close"
          shut,         \* queue.isShutdown()
          task,         \* what the worker thread is doing: one of these, "none", or
                      \* how a listener ends: "relist", "requeue" or "raise"
          interrupted,  \* SignalManager.interrupted
          socket,       \* signalingSocket: "null", "open" or "closed"
          hangup        \* a hangup signal was sent for the session

signalVars == <<queue, shut, task, interrupted, socket, hangup>>

SignalInit ==
  /\ queue = <<>>
  /\ shut = FALSE
  /\ task = "none"
  /\ interrupted = FALSE
  /\ socket = "null"
  /\ hangup = FALSE

-----------------------------------------------------------------------------
(* What the other threads do.                                              *)

(* The constructor: the listener is the first task.                        *)
Construct ==
  /\ queue' = <<"listen">>
  /\ UNCHANGED <<shut, task, interrupted, socket, hangup>>

(* terminate(), first half: a queue that was shut down is replaced by a    *)
(* new one, with a listener of its own.                                    *)
Revive ==
  /\ queue' = IF shut THEN <<"listen">> ELSE queue
  /\ shut' = FALSE
  /\ UNCHANGED <<task, interrupted, socket, hangup>>

(* queue.execute: refused (RejectedExecutionException) after a shutdown.   *)
Execute(t) ==
  /\ ~shut
  /\ queue' = Append(queue, t)
  /\ UNCHANGED <<shut, task, interrupted, socket, hangup>>

(* The last statement of terminate() and of shutdownQueue().               *)
Interrupt ==
  /\ interrupted' = TRUE
  /\ UNCHANGED <<queue, shut, task, socket, hangup>>

-----------------------------------------------------------------------------
(* The worker thread.                                                      *)

TakeTask ==
  /\ task = "none" /\ queue # <<>>
  /\ task'  = Head(queue)
  /\ queue' = Tail(queue)
  /\ UNCHANGED <<shut, interrupted, socket, hangup>>

(* The listener leaves its loop because it was interrupted; it looks every *)
(* 500 ms, when waitForSignal() times out.                                 *)
ListenerGivesWay ==
  /\ task = "listen" /\ interrupted
  /\ task' = "relist"
  /\ UNCHANGED <<queue, shut, interrupted, socket, hangup>>

(* The listener reads a signal and goes on to its next step.  What the     *)
(* signal does is CallManager's.                                           *)
ListenerReads(next) ==
  /\ task = "listen" /\ ~interrupted /\ socket = "open"
  /\ task' = next
  /\ UNCHANGED <<queue, shut, interrupted, socket, hangup>>

(* A SignalingException: the connection breaks, or was closed before.      *)
ListenerFails ==
  /\ task = "listen" /\ ~interrupted
  /\ task' = "raise"
  /\ UNCHANGED <<queue, shut, interrupted, socket, hangup>>

Relist ==
  /\ task = "relist"
  /\ interrupted' = FALSE
  /\ task' = "requeue"
  /\ UNCHANGED <<queue, shut, socket, hangup>>

Requeue ==
  /\ task = "requeue"
  /\ queue' = Append(queue, "listen")
  /\ task' = "none"
  /\ UNCHANGED <<shut, interrupted, socket, hangup>>

(* Both closing tasks end with queue.shutdownNow(), which drops the tasks  *)
(* still in the queue.  setHangup() connects again when the socket fails.  *)
ShutdownNow ==
  /\ queue' = <<>>
  /\ shut' = TRUE
  /\ task' = "none"
  /\ socket' = "closed"
  /\ UNCHANGED interrupted

DoHangup ==
  /\ task = "hangup"
  /\ hangup' = TRUE
  /\ ShutdownNow

DoClose ==
  /\ task = "close"
  /\ UNCHANGED hangup
  /\ ShutdownNow

(* The worker's steps that wait for nothing from outside.                  *)
WorkerStep ==
  \/ TakeTask
  \/ ListenerGivesWay
  \/ socket = "closed" /\ ListenerFails
  \/ Relist
  \/ Requeue
  \/ DoHangup
  \/ DoClose
=============================================================================

---------------------------- MODULE ZrtpHandshake ----------------------------
(***************************************************************************)
(* crypto/zrtp: the ZRTP handshake of one call.  Two ZRTPSockets, the      *)
(* caller's ZRTPInitiatorSocket and the callee's ZRTPResponderSocket,      *)
(* exchange Hello, HelloAck, Commit, DHPart1, DHPart2, Confirm1, Confirm2  *)
(* and Conf2Ack over UDP, each retransmitting its last packet until the    *)
(* packet it expects arrives.                                              *)
(*                                                                         *)
(* Each socket is driven by its CallManager thread (negotiateStart, then   *)
(* negotiateFinish); the service thread may call close() at any moment,    *)
(* also between the dispatch of a packet and the setState() of its         *)
(* handler.  The network loses, duplicates, reorders and delays datagrams, *)
(* and may still hold some of an earlier call between the same two phones. *)
(*                                                                         *)
(* Cryptography is symbolic: a hash chain, the key pair and the hash-chain *)
(* preimages of one socket are one nonce, `chain`; a hash is the tuple of  *)
(* what it is computed from; a MAC is the key it was made with.  Both ends *)
(* run this code, so the key agreement type and the header layout are      *)
(* fixed and are left out.                                                 *)
(***************************************************************************)
EXTENDS Naturals, RetainedSecretsCalculator

CONSTANTS Secrets,             \* secrets retained from earlier calls
          Chain,               \* Chain[r]: the hash chain of r in this call
          StalePackets,        \* datagrams of an earlier call still in transit
          MaxRetransmitCount,  \* MAX_RETRANSMIT_COUNT (45)
          MaxLosses            \* how many datagrams the network may lose

ASSUME BoundsAssumption == MaxRetransmitCount \in Nat /\ MaxLosses \in Nat

(* A delayed packet of an earlier call was made with that call's key pairs *)
(* and hash chains: no key of its Confirm packets hashes a packet of ours. *)
ASSUME StaleAssumption ==
  \A m \in StalePackets :
     m.type \in {"Confirm1", "Confirm2"} =>
        /\ m.key.dh1.chain # Chain["Responder"]
        /\ m.key.dh2.chain # Chain["Initiator"]

VARIABLES state,            \* ZRTPSocket.state
          phase,            \* where the CallManager thread is
          handling,         \* the dispatched packet whose handler is running
          caching,          \* handleConfirmTwo has sent Conf2Ack, not cached yet
          lastPacket,       \* ZRTPSocket.lastPacket
          retransmitCount,  \* ZRTPSocket.retransmitCount
          terminated,       \* CallManager.terminated
          closed,           \* terminate() has closed the socket
          foreignHello, foreignCommit, foreignDH,  \* packets kept by handlers
          retained,         \* the pair the retained secrets calculator was given
          masterSecret,     \* ZRTPSocket.masterSecret
          database,         \* <<rs1, rs2>> in RetainedSecretsDatabase
          network,          \* datagrams in transit
          losses            \* datagrams lost so far

socketVars   == <<state, lastPacket, retransmitCount>>
sessionVars  == <<foreignHello, foreignCommit, foreignDH, retained, masterSecret>>
vars == <<socketVars, sessionVars, phase, handling, caching, terminated,
          closed, database, network, losses>>

I == "Initiator"
R == "Responder"

States == {"EXPECTING_HELLO", "EXPECTING_HELLO_ACK", "EXPECTING_COMMIT",
           "EXPECTING_DH_1", "EXPECTING_DH_2", "EXPECTING_CONFIRM_ONE",
           "EXPECTING_CONFIRM_TWO", "HANDSHAKE_COMPLETE",
           "EXPECTING_CONFIRM_ACK", "TERMINATED"}

(* "idle" before negotiateStart, "start" and "finish" inside the two loops. *)
(* The others are final: run() passed the test after negotiateFinish, run() *)
(* found the call terminated, a NegotiationFailedException or its subclass  *)
(* RecipientUnavailableException was thrown, the process died.              *)
Looping == {"start", "finish"}
Phases  == Looping \cup {"idle", "connected", "stopped", "failed",
                         "unavailable", "crashed"}

-----------------------------------------------------------------------------
(* Packets.  `to` is the socket the relay delivers the datagram to.        *)

NoPacket == [type |-> "null"]
NoMaster == [hello |-> NoPacket]

Hello(r)       == [type |-> "Hello", to |-> Other(r), chain |-> Chain[r]]
HelloAck       == [type |-> "HelloAck", to |-> I]
DHPart(r, rs)  == [type |-> IF r = I THEN "DHPart2" ELSE "DHPart1",
                   to |-> Other(r), chain |-> Chain[r],
                   ids |-> DerivativesSent(r, rs)]
Commit(hello, dh) == [type |-> "Commit", to |-> R, chain |-> Chain[I],
                      hvi |-> <<dh, hello>>]
Confirm(r, key) == [type |-> IF r = I THEN "Confirm2" ELSE "Confirm1",
                    to |-> Other(r), chain |-> Chain[r], key |-> key]
ConfAck        == [type |-> "Conf2Ack", to |-> I]
Audio          == [type |-> "SRTP", to |-> I]
DeleteSession(r) == [type |-> "sig:", to |-> r]

(* HandshakePacket.getType: a datagram without the ZRTP prefix byte, be it *)
(* audio or a relayed "sig:" message, passes for a Conf2Ack.               *)
GetTypeStrict(m) == m.type     \* mutant: audio is not taken for a Conf2Ack

GetType(m) == IF m.type \in {"SRTP", "sig:"} THEN "Conf2Ack" ELSE m.type

(* The type each state waits for, as dispatched by negotiateFinish.        *)
ExpectedType ==
  [s \in States |->
     CASE s = "EXPECTING_HELLO"       -> "Hello"
       [] s = "EXPECTING_HELLO_ACK"   -> "HelloAck"
       [] s = "EXPECTING_COMMIT"      -> "Commit"
       [] s = "EXPECTING_DH_1"        -> "DHPart1"
       [] s = "EXPECTING_DH_2"        -> "DHPart2"
       [] s = "EXPECTING_CONFIRM_ONE" -> "Confirm1"
       [] s = "EXPECTING_CONFIRM_TWO" -> "Confirm2"
       [] s = "EXPECTING_CONFIRM_ACK" -> "Conf2Ack"
       [] OTHER                       -> "none"]

(* HandshakePacket.verifyMac: a later packet reveals the preimage of the   *)
(* hash an earlier one carries, which is the key of the earlier one's MAC: *)
(* both were made by the same socket.                                      *)
VerifyMac(earlier, later) == earlier.chain = later.chain

(* SecretCalculator and MasterSecret: everything both keys are hashed from. *)
MasterSecret(hello, commit, dh1, dh2, s1) ==
  [hello |-> hello, commit |-> commit, dh1 |-> dh1, dh2 |-> dh2, s1 |-> s1]

-----------------------------------------------------------------------------
Init ==
  /\ state           = [r \in Roles |-> "EXPECTING_HELLO"]
  /\ phase           = [r \in Roles |-> "idle"]
  /\ handling        = [r \in Roles |-> NoPacket]
  /\ caching         = FALSE
  /\ lastPacket      = [r \in Roles |-> NoPacket]
  /\ retransmitCount = [r \in Roles |-> 0]
  /\ terminated      = [r \in Roles |-> FALSE]
  /\ closed          = [r \in Roles |-> FALSE]
  /\ foreignHello    = [r \in Roles |-> NoPacket]
  /\ foreignCommit   = NoPacket
  /\ foreignDH       = [r \in Roles |-> NoPacket]
  /\ retained        = [r \in Roles |-> <<NoSecret, NoSecret>>]
  /\ masterSecret    = [r \in Roles |-> NoMaster]
  \* setRetainedSecret never leaves a row without an rs1
  /\ database \in [Roles -> {rs \in (Secrets \cup {NoSecret}) \X
                                    (Secrets \cup {NoSecret}) :
                             rs[1] = NoSecret => rs[2] = NoSecret}]
  /\ network         = StalePackets
  /\ losses          = 0

(* A closed DatagramSocket throws; RtpSocket.send swallows the exception.  *)
Transmit(r, m) ==
  network' = IF closed[r] \/ m = NoPacket THEN network ELSE network \cup {m}

SendFreshPacket(r, m) ==
  /\ retransmitCount' = [retransmitCount EXCEPT ![r] = 0]
  /\ lastPacket' = [lastPacket EXCEPT ![r] = m]
  /\ Transmit(r, m)

SetState(r, s) == state' = [state EXCEPT ![r] = s]
EndPhase(r, p) == phase' = [phase EXCEPT ![r] = p]

(* The packet's handler returns, or throws InvalidPacketException, which   *)
(* both loops turn into a NegotiationFailedException.                      *)
HandlerReturns(r) == handling' = [handling EXCEPT ![r] = NoPacket]
InvalidPacket(r) ==
  /\ HandlerReturns(r)
  /\ EndPhase(r, "failed")
  /\ UNCHANGED <<socketVars, masterSecret, caching, terminated, closed, database,
                 network, losses>>

-----------------------------------------------------------------------------
(* The two loops.                                                          *)

NegotiateStart(r) ==
  /\ phase[r] = "idle"
  /\ \/ terminated[r] /\ EndPhase(r, "stopped") /\ UNCHANGED <<socketVars, network>>
     \/ /\ ~terminated[r] /\ EndPhase(r, "start")
        /\ \/ r = R /\ SendFreshPacket(R, Hello(R)) /\ UNCHANGED state
           \/ r = I /\ UNCHANGED <<socketVars, network>>
  /\ UNCHANGED <<sessionVars, handling, caching, terminated, closed, database, losses>>

(* The while conditions of negotiateStart and negotiateFinish.             *)
InLoop(r) ==
  /\ handling[r] = NoPacket
  /\ r = R => ~caching
  /\ \/ phase[r] = "start"  /\ state[r] = "EXPECTING_HELLO"
     \/ phase[r] = "finish" /\ state[r] \notin {"HANDSHAKE_COMPLETE", "TERMINATED"}

Expects(r, m) == m.to = r /\ GetType(m) = ExpectedType[state[r]]

(* receiveHandshakePacket returns the packet the state is waiting for.     *)
Receive(r) ==
  /\ InLoop(r) /\ ~closed[r]
  /\ \E m \in network : Expects(r, m) /\ handling' = [handling EXCEPT ![r] = m]
  /\ UNCHANGED <<socketVars, sessionVars, phase, caching, terminated, closed, database,
                 network, losses>>

(* resendPacket's limit and its counting, with an off-by-one and an        *)
(* uncounted mutant.                                                       *)
RetriesExhaustedLate(r) == retransmitCount[r] > MaxRetransmitCount + 1
RetriesExhausted(r) == retransmitCount[r] > MaxRetransmitCount
CountRetryNever(r) == UNCHANGED retransmitCount
CountRetry(r) == retransmitCount' = [retransmitCount EXCEPT ![r] = @ + 1]

(* Nothing, or nothing expected, was received and the retransmit interval  *)
(* has passed: resendPacket.                                               *)
ResendPacket(r) ==
  /\ InLoop(r)
  /\ \/ /\ RetriesExhausted(r)
        /\ EndPhase(r, IF lastPacket[r] = NoPacket THEN "unavailable" ELSE "failed")
        /\ UNCHANGED network
     \/ /\ ~RetriesExhausted(r)
        /\ Transmit(r, lastPacket[r])
        /\ UNCHANGED phase
  /\ CountRetry(r)
  /\ UNCHANGED <<state, lastPacket, sessionVars, handling, caching, terminated,
                 closed, database, losses>>

(* CallManager.run tests terminated after each loop, before it goes on to  *)
(* negotiateFinish or to the connected call.                               *)
GivesUp(r) == terminated[r]

(* A loop whose condition is false ends.                                   *)
LeaveLoop(r) ==
  /\ phase[r] \in Looping /\ handling[r] = NoPacket /\ ~InLoop(r)
  /\ r = R => ~caching
  /\ EndPhase(r, IF GivesUp(r) THEN "stopped"
                 ELSE IF phase[r] = "start" THEN "finish" ELSE "connected")
  /\ UNCHANGED <<socketVars, sessionVars, handling, caching, terminated,
                 closed, database, network, losses>>

-----------------------------------------------------------------------------
(* The handlers of the initiator.                                          *)

InitiatorHello(m) ==
  /\ foreignHello' = [foreignHello EXCEPT ![I] = m]
  /\ SetState(I, "EXPECTING_HELLO_ACK")
  /\ SendFreshPacket(I, Hello(I))
  /\ HandlerReturns(I)
  /\ UNCHANGED <<foreignCommit, foreignDH, retained, masterSecret, phase,
                 caching, terminated, closed, database, losses>>

InitiatorHelloAck(m) ==
  /\ retained' = [retained EXCEPT ![I] = database[I]]
  /\ SetState(I, "EXPECTING_DH_1")
  /\ SendFreshPacket(I, Commit(foreignHello[I], DHPart(I, database[I])))
  /\ HandlerReturns(I)
  /\ UNCHANGED <<foreignHello, foreignCommit, foreignDH, masterSecret, phase,
                 caching, terminated, closed, database, losses>>

InitiatorDH(m) ==
  LET localDH == DHPart(I, retained[I])
  IN  /\ foreignDH' = [foreignDH EXCEPT ![I] = m]
      /\ UNCHANGED <<foreignHello, foreignCommit, retained>>
      /\ \/ ~VerifyMac(foreignHello[I], m) /\ InvalidPacket(I)
         \/ /\ VerifyMac(foreignHello[I], m)
            /\ masterSecret' = [masterSecret EXCEPT ![I] =
                 MasterSecret(foreignHello[I], Commit(foreignHello[I], localDH),
                              m, localDH, InitiatorS1(retained[I], m.ids))]
            /\ SetState(I, "EXPECTING_CONFIRM_ONE")
            /\ SendFreshPacket(I, localDH)
            /\ HandlerReturns(I)
            /\ UNCHANGED <<phase, caching, terminated, closed, database, losses>>

(* Mutant: only the hash chain of a Confirm packet is checked.             *)
ConfirmVerifiesChainOnly(r, m) == VerifyMac(foreignDH[r], m)

(* Confirm.verifyMac with the key just derived, then foreignDH.verifyMac   *)
(* with the hash preimage the Confirm packet carries.                      *)
ConfirmVerifies(r, m) == m.key = masterSecret[r] /\ VerifyMac(foreignDH[r], m)

(* What follows Confirm1; the mutant does not wait for Confirm2's answer.  *)
AfterConfirmOneDone == "HANDSHAKE_COMPLETE"
AfterConfirmOne == "EXPECTING_CONFIRM_ACK"

InitiatorConfirmOne(m) ==
  /\ UNCHANGED <<foreignHello, foreignCommit, foreignDH, retained>>
  /\ \/ ~ConfirmVerifies(I, m) /\ InvalidPacket(I)
     \/ /\ ConfirmVerifies(I, m)
        /\ SetState(I, AfterConfirmOne)
        /\ SendFreshPacket(I, Confirm(I, masterSecret[I]))
        /\ HandlerReturns(I)
        /\ UNCHANGED <<masterSecret, phase, caching, terminated, closed, database, losses>>

(* RetainedSecretsDatabase.setRetainedSecret: rs1 moves to rs2.            *)
CacheRetainedSecret(r) ==
  database' = [database EXCEPT ![r] = <<masterSecret[r], @[1]>>]

InitiatorConfirmAck(m) ==
  /\ CacheRetainedSecret(I)
  /\ SetState(I, "HANDSHAKE_COMPLETE")
  /\ HandlerReturns(I)
  /\ UNCHANGED <<lastPacket, retransmitCount, sessionVars, phase, caching,
                 terminated, closed, network, losses>>

(* The handlers of the responder.                                          *)

ResponderHello(m) ==
  /\ foreignHello' = [foreignHello EXCEPT ![R] = m]
  /\ SetState(R, "EXPECTING_COMMIT")
  /\ SendFreshPacket(R, HelloAck)
  /\ HandlerReturns(R)
  /\ UNCHANGED <<foreignCommit, foreignDH, retained, masterSecret, phase,
                 caching, terminated, closed, database, losses>>

ResponderCommit(m) ==
  /\ foreignCommit' = m
  /\ retained' = [retained EXCEPT ![R] = database[R]]
  /\ UNCHANGED <<foreignHello, foreignDH>>
  /\ \/ ~VerifyMac(foreignHello[R], m) /\ InvalidPacket(R)
     \/ /\ VerifyMac(foreignHello[R], m)
        /\ SetState(R, "EXPECTING_DH_2")
        /\ SendFreshPacket(R, DHPart(R, database[R]))
        /\ HandlerReturns(R)
        /\ UNCHANGED <<masterSecret, phase, caching, terminated, closed, database, losses>>

(* foreignCommit.verifyMac and foreignCommit.verifyHvi.                    *)
CommitVerifies(dh) ==
  VerifyMac(foreignCommit, dh) /\ foreignCommit.hvi = <<dh, Hello(R)>>

ResponderDH(m) ==
  LET key == MasterSecret(Hello(R), foreignCommit, DHPart(R, retained[R]), m,
                          ResponderS1(retained[R], m.ids))
  IN  /\ foreignDH' = [foreignDH EXCEPT ![R] = m]
      /\ UNCHANGED <<foreignHello, foreignCommit, retained>>
      /\ \/ ~CommitVerifies(m) /\ InvalidPacket(R)
         \/ /\ CommitVerifies(m)
            /\ masterSecret' = [masterSecret EXCEPT ![R] = key]
            /\ SetState(R, "EXPECTING_CONFIRM_TWO")
            /\ SendFreshPacket(R, Confirm(R, key))
            /\ HandlerReturns(R)
            /\ UNCHANGED <<phase, caching, terminated, closed, database, losses>>

(* handleConfirmTwo completes and answers first, and caches afterwards.    *)
ResponderConfirmTwo(m) ==
  /\ UNCHANGED <<foreignHello, foreignCommit, foreignDH, retained>>
  /\ \/ ~ConfirmVerifies(R, m) /\ InvalidPacket(R)
     \/ /\ ConfirmVerifies(R, m)
        /\ SetState(R, "HANDSHAKE_COMPLETE")
        /\ SendFreshPacket(R, ConfAck)
        /\ caching' = TRUE
        /\ HandlerReturns(R)
        /\ UNCHANGED <<masterSecret, phase, terminated, closed, database, losses>>

ResponderCache ==
  /\ caching
  /\ phase[R] \in Looping
  /\ CacheRetainedSecret(R)
  /\ caching' = FALSE
  /\ UNCHANGED <<socketVars, sessionVars, phase, handling, terminated, closed, network, losses>>

(* The handler of the dispatched packet runs.  That its type is the one    *)
(* the state expected was tested before, in Receive.                       *)
Handle(r) ==
  /\ phase[r] \in Looping /\ handling[r] # NoPacket
  /\ LET m == handling[r] IN
       \/ r = I /\ GetType(m) = "Hello"    /\ InitiatorHello(m)
       \/ r = I /\ GetType(m) = "HelloAck" /\ InitiatorHelloAck(m)
       \/ r = I /\ GetType(m) = "DHPart1"  /\ InitiatorDH(m)
       \/ r = I /\ GetType(m) = "Confirm1" /\ InitiatorConfirmOne(m)
       \/ r = I /\ GetType(m) = "Conf2Ack" /\ InitiatorConfirmAck(m)
       \/ r = R /\ GetType(m) = "Hello"    /\ ResponderHello(m)
       \/ r = R /\ GetType(m) = "Commit"   /\ ResponderCommit(m)
       \/ r = R /\ GetType(m) = "DHPart2"  /\ ResponderDH(m)
       \/ r = R /\ GetType(m) = "Confirm2" /\ ResponderConfirmTwo(m)

-----------------------------------------------------------------------------
(* The environment of the handshake.                                       *)

(* CallManager.terminate on the service thread: it sets terminated, stops  *)
(* what else runs, and then closes the socket.                             *)
Terminate(r) ==
  /\ ~terminated[r] /\ phase[r] # "crashed"
  /\ terminated' = [terminated EXCEPT ![r] = TRUE]
  /\ UNCHANGED <<socketVars, sessionVars, phase, handling, caching, closed,
                 database, network, losses>>

(* Mutant: terminate() closes the socket before it sets terminated.        *)
CloseFirst(r) ==
  /\ ~closed[r] /\ phase[r] # "crashed"
  /\ closed' = [closed EXCEPT ![r] = TRUE]
  /\ SetState(r, "TERMINATED")
  /\ UNCHANGED <<lastPacket, retransmitCount, sessionVars, phase, handling,
                 caching, terminated, database, network, losses>>

Close(r) ==
  /\ terminated[r] /\ ~closed[r] /\ phase[r] # "crashed"
  /\ closed' = [closed EXCEPT ![r] = TRUE]
  /\ SetState(r, "TERMINATED")
  /\ UNCHANGED <<lastPacket, retransmitCount, sessionVars, phase, handling,
                 caching, terminated, database, network, losses>>

(* The process is killed; only the database survives.                      *)
Crash(r) ==
  /\ phase[r] \in Looping
  /\ EndPhase(r, "crashed")
  /\ HandlerReturns(r)
  /\ caching' = IF r = R THEN FALSE ELSE caching
  /\ UNCHANGED <<socketVars, sessionVars, terminated, closed, database, network, losses>>

(* The connected responder streams audio to the initiator.                 *)
SendAudio ==
  /\ phase[R] = "connected" /\ ~closed[R]
  /\ network' = network \cup {Audio}
  /\ UNCHANGED <<socketVars, sessionVars, phase, handling, caching, terminated,
                 closed, database, losses>>

(* The relay tells a phone that the other one has hung up.                 *)
RelayHangup(r) ==
  /\ terminated[Other(r)]
  /\ network' = network \cup {DeleteSession(r)}
  /\ UNCHANGED <<socketVars, sessionVars, phase, handling, caching, terminated,
                 closed, database, losses>>

Lose ==
  /\ losses < MaxLosses
  /\ \E m \in network : network' = network \ {m}
  /\ losses' = losses + 1
  /\ UNCHANGED <<socketVars, sessionVars, phase, handling, caching, terminated, closed, database>>

(* One step of the CallManager thread of r inside its two loops.           *)
LoopStep(r) ==
  \/ Receive(r) \/ ResendPacket(r) \/ LeaveLoop(r) \/ Handle(r)
  \/ r = R /\ ResponderCache

Next ==
  \/ \E r \in Roles : NegotiateStart(r) \/ LoopStep(r) \/ Terminate(r) \/ Close(r)
                      \/ Crash(r) \/ RelayHangup(r)
  \/ SendAudio
  \/ Lose

Spec == Init /\ [][Next]_vars

(* A thread inside its loops keeps running, and time passes: when no       *)
(* packet comes, receive() returns after a millisecond.                    *)
FairSpec == Spec /\ \A r \in Roles : WF_vars(LoopStep(r))

-----------------------------------------------------------------------------
(* A call nobody hangs up, over a network faster than the 150 ms           *)
(* retransmit interval: a socket retransmits only when nothing useful is   *)
(* in transit, and the two, which back off at the same rate, take turns.   *)
Quiet ==
  \A r \in Roles : /\ phase[r] \in Looping
                   /\ InLoop(r)
                   /\ \A m \in network : ~Expects(r, m)

PromptResend(r) ==
  /\ Quiet
  /\ retransmitCount[r] <= retransmitCount[Other(r)]
  /\ ResendPacket(r)

PromptStep(r) ==
  \/ NegotiateStart(r) \/ Receive(r) \/ PromptResend(r) \/ LeaveLoop(r) \/ Handle(r)
  \/ r = R /\ ResponderCache

PromptNext == (\E r \in Roles : PromptStep(r)) \/ SendAudio \/ Lose

PromptSpec == /\ Init /\ [][PromptNext]_vars
              /\ \A r \in Roles : WF_vars(PromptStep(r))
              /\ WF_vars(SendAudio)

-----------------------------------------------------------------------------
(* Properties.                                                             *)

(* The sockets' states and counters stay in range: no packet is sent more  *)
(* than MAX_RETRANSMIT_COUNT + 2 times (resendPacket counts from zero and  *)
(* compares before it counts).                                             *)
TypeOK ==
  /\ state \in [Roles -> States]
  /\ phase \in [Roles -> Phases]
  /\ caching \in BOOLEAN
  /\ retransmitCount \in [Roles -> 0..(MaxRetransmitCount + 2)]
  /\ \A r \in Roles : phase[r] \in Looping \cup {"idle"}
                         => retransmitCount[r] <= MaxRetransmitCount + 1
  /\ terminated \in [Roles -> BOOLEAN]
  /\ closed \in [Roles -> BOOLEAN]
  /\ losses \in 0..MaxLosses

(* A socket that has verified the peer's Confirm packet.                   *)
Confirmed(r) ==
  state[r] \in IF r = I THEN {"EXPECTING_CONFIRM_ACK", "HANDSHAKE_COMPLETE"}
                        ELSE {"HANDSHAKE_COMPLETE"}

(* A side past the peer's Confirm packet has the very master secret the    *)
(* peer has, whatever was lost, repeated, late or left over from an        *)
(* earlier call (handleConfirmOne, handleConfirmTwo).                      *)
KeyAgreement ==
  \A r \in Roles : Confirmed(r) =>
     masterSecret[r] # NoMaster /\ masterSecret[Other(r)] = masterSecret[r]

(* A secret retained from this call was computed by both phones, also when *)
(* the call was hung up or a process died half way (cacheRetainedSecret).  *)
RetainedIsShared ==
  \A r \in Roles : database[r][1] \notin Secrets \cup {NoSecret} =>
     \A q \in Roles : masterSecret[q] = database[r][1]

(* The initiator completes only after the responder has, unless the        *)
(* responder has hung up: a Conf2Ack, an audio packet or the relay's       *)
(* hangup message is what ends EXPECTING_CONFIRM_ACK.                      *)
InitiatorCompletesLast ==
  state[I] = "HANDSHAKE_COMPLETE" =>
     state[R] = "HANDSHAKE_COMPLETE" \/ terminated[R]

(* A call that goes on after negotiateFinish, to getMasterSecret and the   *)
(* audio, holds the key the peer holds and has stored it for the next      *)
(* call.  A loop also ends when close() has set TERMINATED, before there   *)
(* is a key; run() finds `terminated` then, because terminate() sets it    *)
(* before it closes the socket (CallManager.run, terminate).               *)
ConnectedShareKey ==
  \A r \in Roles : phase[r] = "connected" =>
     /\ masterSecret[r] # NoMaster
     /\ masterSecret[Other(r)] = masterSecret[r]
     /\ database[r][1] = masterSecret[r]

(* A negotiation that starts ends: connected, failed, or stopped, also     *)
(* when its TERMINATED state was overwritten (MAX_RETRANSMIT_COUNT).       *)
NegotiationEnds ==
  \A r \in Roles : phase[r] \in Looping ~> phase[r] \notin Looping

(* With no more losses than retransmissions and nobody hanging up, both    *)
(* phones connect, although Conf2Ack is never retransmitted: the           *)
(* responder's audio stands in for it (HandshakePacket.getType).           *)
BothConnect == <>(\A r \in Roles : phase[r] = "connected")
=============================================================================

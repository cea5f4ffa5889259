------------------------- MODULE ZrtpHandshakeProofs -------------------------
(***************************************************************************)
(* Proofs about ZrtpHandshake, for any retransmit limit, any number of     *)
(* losses, any retained secrets and any packets left over from earlier     *)
(* calls.                                                                  *)
(***************************************************************************)
EXTENDS ZrtpHandshake, TLAPS

(* Both ends hold one master secret.                                       *)
Agreed == masterSecret[I] # NoMaster /\ masterSecret[R] = masterSecret[I]

(* The type of the packet whose handler is running.                        *)
Running(r) == GetType(handling[r])

(* handleDH runs once: until it has, there is no master secret, ...        *)
BeforeDH ==
  /\ state[I] \in {"EXPECTING_HELLO", "EXPECTING_HELLO_ACK", "EXPECTING_DH_1"}
       \/ Running(I) \in {"Hello", "HelloAck", "DHPart1"}
     => masterSecret[I] = NoMaster
  /\ state[R] \in {"EXPECTING_HELLO", "EXPECTING_COMMIT", "EXPECTING_DH_2"}
       \/ Running(R) \in {"Hello", "Commit", "DHPart2"}
     => masterSecret[R] = NoMaster

(* ... and afterwards there is one, made from this socket's own DH packet. *)
AfterDH ==
  /\ state[I] = "EXPECTING_CONFIRM_ONE" \/ Running(I) = "Confirm1"
     => masterSecret[I] # NoMaster
  /\ state[R] = "EXPECTING_CONFIRM_TWO" \/ Running(R) = "Confirm2"
     => masterSecret[R] # NoMaster
  /\ masterSecret[I] # NoMaster => masterSecret[I].dh2.chain = Chain[I]
  /\ masterSecret[R] # NoMaster => masterSecret[R].dh1.chain = Chain[R]

(* Whoever is past the peer's Confirm packet agrees with the peer; close() *)
(* may have hidden that in the state, not in the handler that is running.  *)
PastConfirm ==
  \/ state[I] \in {"EXPECTING_CONFIRM_ACK", "HANDSHAKE_COMPLETE"}
  \/ Running(I) = "Conf2Ack"
  \/ state[R] = "HANDSHAKE_COMPLETE"
  \/ caching

(* The key of a Confirm packet is the sender's, or of an earlier call.     *)
ConfirmKeyOK(m) ==
  /\ m.type = "Confirm1" => \/ m.key.dh2.chain # Chain[I]
                            \/ m.key = masterSecret[R] /\ m.key # NoMaster
  /\ m.type = "Confirm2" => \/ m.key.dh1.chain # Chain[R]
                            \/ m.key = masterSecret[I] /\ m.key # NoMaster

ConfirmKeysOK ==
  /\ \A m \in network : ConfirmKeyOK(m)
  /\ \A r \in Roles : ConfirmKeyOK(handling[r]) /\ ConfirmKeyOK(lastPacket[r])

(* The functions EXCEPT updates are defined on both roles.                 *)
Total ==
  /\ DOMAIN handling = Roles
  /\ DOMAIN lastPacket = Roles
  /\ DOMAIN masterSecret = Roles
  /\ DOMAIN database = Roles

(* A secret stored in this call is the one both ends hold.                 *)
StoredIsAgreed ==
  \A r \in Roles : database[r][1] \notin Secrets \cup {NoSecret} =>
     Agreed /\ database[r][1] = masterSecret[I]

Core ==
  /\ BeforeDH
  /\ AfterDH
  /\ PastConfirm => Agreed
  /\ ConfirmKeysOK
  /\ StoredIsAgreed

IInv == TypeOK /\ Total /\ Core
-----------------------------------------------------------------------------
(* The rows of the dispatch table.                                         *)
LEMMA ExpectedTypes ==
  /\ ExpectedType["EXPECTING_HELLO"]       = "Hello"
  /\ ExpectedType["EXPECTING_HELLO_ACK"]   = "HelloAck"
  /\ ExpectedType["EXPECTING_COMMIT"]      = "Commit"
  /\ ExpectedType["EXPECTING_DH_1"]        = "DHPart1"
  /\ ExpectedType["EXPECTING_DH_2"]        = "DHPart2"
  /\ ExpectedType["EXPECTING_CONFIRM_ONE"] = "Confirm1"
  /\ ExpectedType["EXPECTING_CONFIRM_TWO"] = "Confirm2"
  /\ ExpectedType["EXPECTING_CONFIRM_ACK"] = "Conf2Ack"
  /\ ExpectedType["HANDSHAKE_COMPLETE"]    = "none"
  /\ ExpectedType["TERMINATED"]            = "none"
  BY DEF ExpectedType, States

LEMMA TwoRoles == /\ I \in Roles /\ R \in Roles /\ I # R
                  /\ \A r \in Roles : r = I \/ r = R
  BY DEF I, R, Roles

(* The sockets' states, phases and counters stay in range in every step.   *)
LEMMA TypeStep == TypeOK /\ [Next]_vars => TypeOK'
<1> SUFFICES ASSUME TypeOK, [Next]_vars PROVE TypeOK'
  OBVIOUS
<1> USE BoundsAssumption, TwoRoles DEF TypeOK, socketVars, sessionVars,
        SetState, EndPhase, HandlerReturns, SendFreshPacket, States, Phases, Looping
<1>1. ASSUME NEW r \in Roles, NegotiateStart(r) PROVE TypeOK'
  BY <1>1 DEF NegotiateStart
<1>2. ASSUME NEW r \in Roles, Receive(r) PROVE TypeOK'
  BY <1>2 DEF Receive
<1>3. ASSUME NEW r \in Roles, ResendPacket(r) PROVE TypeOK'
  <2>1. retransmitCount' \in [Roles -> 0..(MaxRetransmitCount + 2)]
    BY <1>3 DEF ResendPacket, InLoop, RetriesExhausted, CountRetry
  <2> QED BY <1>3, <2>1 DEF ResendPacket, RetriesExhausted, CountRetry
<1>4. ASSUME NEW r \in Roles, LeaveLoop(r) PROVE TypeOK'
  BY <1>4 DEF LeaveLoop
<1>5. ASSUME NEW r \in Roles, Handle(r) PROVE TypeOK'
  <2> DEFINE m == handling[r]
  <2>1. CASE InitiatorHello(m)
    BY <2>1 DEF InitiatorHello
  <2>2. CASE InitiatorHelloAck(m)
    BY <2>2 DEF InitiatorHelloAck
  <2>3. CASE InitiatorDH(m)
    BY <2>3 DEF InitiatorDH, InvalidPacket
  <2>4. CASE InitiatorConfirmOne(m)
    BY <2>4 DEF InitiatorConfirmOne, AfterConfirmOne, InvalidPacket
  <2>5. CASE InitiatorConfirmAck(m)
    BY <2>5 DEF InitiatorConfirmAck, CacheRetainedSecret
  <2>6. CASE ResponderHello(m)
    BY <2>6 DEF ResponderHello
  <2>7. CASE ResponderCommit(m)
    BY <2>7 DEF ResponderCommit, InvalidPacket
  <2>8. CASE ResponderDH(m)
    BY <2>8 DEF ResponderDH, InvalidPacket
  <2>9. CASE ResponderConfirmTwo(m)
    <3>1. caching' \in BOOLEAN
      BY <2>9, Zenon DEF ResponderConfirmTwo, InvalidPacket
    <3>2. UNCHANGED <<terminated, closed, losses>>
      BY <2>9 DEF ResponderConfirmTwo, InvalidPacket
    <3>3. CASE InvalidPacket(R)
      BY <3>1, <3>2, <3>3 DEF InvalidPacket
    <3>4. CASE ~InvalidPacket(R)
      BY <2>9, <3>1, <3>2, <3>4 DEF ResponderConfirmTwo
    <3> QED BY <3>3, <3>4
  <2> QED
    BY <1>5, <2>1, <2>2, <2>3, <2>4, <2>5, <2>6, <2>7, <2>8, <2>9 DEF Handle
<1>6. CASE ResponderCache
  BY <1>6 DEF ResponderCache, CacheRetainedSecret
<1>7. ASSUME NEW r \in Roles, Terminate(r) \/ Close(r) PROVE TypeOK'
  BY <1>7 DEF Terminate, Close
<1>8. ASSUME NEW r \in Roles, Crash(r) PROVE TypeOK'
  BY <1>8 DEF Crash
<1>9. ASSUME NEW r \in Roles, RelayHangup(r) PROVE TypeOK'
  BY <1>9 DEF RelayHangup
<1>10. CASE SendAudio
  BY <1>10 DEF SendAudio
<1>11. CASE Lose
  BY <1>11 DEF Lose
<1>12. CASE UNCHANGED vars
  BY <1>12 DEF vars
<1> QED
  BY <1>1, <1>2, <1>3, <1>4, <1>5, <1>6, <1>7, <1>8, <1>9, <1>10, <1>11, <1>12
     DEF Next, LoopStep

(* Spec keeps the sockets' states, phases and retransmit counters in range *)
(* (ZRTPSocket.setState, resendPacket).                                    *)
THEOREM TypeCorrect == Spec => []TypeOK
<1>1. Init => TypeOK
  <2> SUFFICES ASSUME Init PROVE TypeOK
    OBVIOUS
  <2>1. state \in [Roles -> States] /\ phase \in [Roles -> Phases]
    BY DEF Init, States, Phases, Looping
  <2>2. /\ caching \in BOOLEAN
        /\ terminated \in [Roles -> BOOLEAN] /\ closed \in [Roles -> BOOLEAN]
    BY DEF Init
  <2>3. /\ retransmitCount \in [Roles -> 0..(MaxRetransmitCount + 2)]
        /\ \A r \in Roles : retransmitCount[r] <= MaxRetransmitCount + 1
        /\ losses \in 0..MaxLosses
    BY BoundsAssumption DEF Init
  <2> QED BY <2>1, <2>2, <2>3 DEF TypeOK
<1> QED BY <1>1, TypeStep, PTL DEF Spec

-----------------------------------------------------------------------------
(* Updating a function that is total on Roles keeps it total.              *)
LEMMA TotalStep == Total /\ [Next]_vars => Total'
<1> SUFFICES ASSUME Total, [Next]_vars PROVE Total'
  OBVIOUS
<1> USE DEF Total, socketVars, sessionVars, HandlerReturns, SendFreshPacket, SetState
<1>1. ASSUME NEW r \in Roles, NegotiateStart(r) PROVE Total'
  BY <1>1 DEF NegotiateStart
<1>2. ASSUME NEW r \in Roles, Receive(r) PROVE Total'
  BY <1>2 DEF Receive
<1>3. ASSUME NEW r \in Roles, ResendPacket(r) PROVE Total'
  BY <1>3 DEF ResendPacket
<1>4. ASSUME NEW r \in Roles, LeaveLoop(r) PROVE Total'
  BY <1>4 DEF LeaveLoop
<1>5. ASSUME NEW r \in Roles, Handle(r) PROVE Total'
  <2> DEFINE m == handling[r]
  <2>1. CASE InitiatorHello(m)
    BY <2>1 DEF InitiatorHello
  <2>2. CASE InitiatorHelloAck(m)
    BY <2>2 DEF InitiatorHelloAck
  <2>3. CASE InitiatorDH(m)
    BY <2>3 DEF InitiatorDH, InvalidPacket
  <2>4. CASE InitiatorConfirmOne(m)
    BY <2>4 DEF InitiatorConfirmOne, AfterConfirmOne, InvalidPacket
  <2>5. CASE InitiatorConfirmAck(m)
    BY <2>5 DEF InitiatorConfirmAck, CacheRetainedSecret
  <2>6. CASE ResponderHello(m)
    BY <2>6 DEF ResponderHello
  <2>7. CASE ResponderCommit(m)
    BY <2>7 DEF ResponderCommit, InvalidPacket
  <2>8. CASE ResponderDH(m)
    BY <2>8 DEF ResponderDH, InvalidPacket
  <2>9. CASE ResponderConfirmTwo(m)
    BY <2>9 DEF ResponderConfirmTwo, InvalidPacket
  <2> QED
    BY <1>5, <2>1, <2>2, <2>3, <2>4, <2>5, <2>6, <2>7, <2>8, <2>9 DEF Handle
<1>6. CASE ResponderCache
  BY <1>6 DEF ResponderCache, CacheRetainedSecret
<1>7. ASSUME NEW r \in Roles, Terminate(r) \/ Close(r) PROVE Total'
  BY <1>7 DEF Terminate, Close
<1>8. ASSUME NEW r \in Roles, Crash(r) PROVE Total'
  BY <1>8 DEF Crash
<1>9. ASSUME NEW r \in Roles, RelayHangup(r) PROVE Total'
  BY <1>9 DEF RelayHangup
<1>10. CASE SendAudio
  BY <1>10 DEF SendAudio
<1>11. CASE Lose
  BY <1>11 DEF Lose
<1>12. CASE UNCHANGED vars
  BY <1>12 DEF vars
<1> QED
  BY <1>1, <1>2, <1>3, <1>4, <1>5, <1>6, <1>7, <1>8, <1>9, <1>10, <1>11, <1>12
     DEF Next, LoopStep

-----------------------------------------------------------------------------
(* A step that computes and stores no secret, dispatches no packet and     *)
(* only sends packets whose key is right keeps the invariant.              *)
LEMMA Frame ==
  ASSUME Core,
         UNCHANGED <<masterSecret, database>>,
         \A m \in network' : m \in network \/ ConfirmKeyOK(m),
         \A r \in Roles : handling'[r] = handling[r] \/ handling'[r] = NoPacket,
         \A r \in Roles : lastPacket'[r] = lastPacket[r] \/ ConfirmKeyOK(lastPacket'[r]),
         \A r \in Roles : state'[r] = state[r] \/ state'[r] = "TERMINATED",
         caching' => caching
  PROVE  Core'
<1> USE TwoRoles
<1>1. \A m : ConfirmKeyOK(m)' <=> ConfirmKeyOK(m)
  BY DEF ConfirmKeyOK
<1>2. ConfirmKeyOK(NoPacket)
  BY DEF ConfirmKeyOK, NoPacket
<1>3. ConfirmKeysOK'
  BY <1>1, <1>2 DEF Core, ConfirmKeysOK
<1>4. \A r \in Roles : Running(r)' = Running(r) \/ Running(r)' = "null"
  BY DEF Running, GetType, NoPacket
<1>5. BeforeDH'
  BY <1>4 DEF Core, BeforeDH
<1>6. AfterDH'
  BY <1>4 DEF Core, AfterDH
<1>7. (PastConfirm => Agreed)'
  BY <1>4 DEF Core, PastConfirm, Agreed
<1>8. StoredIsAgreed'
  BY DEF Core, StoredIsAgreed, Agreed
<1> QED BY <1>3, <1>5, <1>6, <1>7, <1>8 DEF Core

(* The only packets whose key matters are the two Confirm packets.         *)
LEMMA PlainPacketsOK ==
  /\ \A r : ConfirmKeyOK(Hello(r)) /\ ConfirmKeyOK(DeleteSession(r))
  /\ ConfirmKeyOK(HelloAck) /\ ConfirmKeyOK(ConfAck) /\ ConfirmKeyOK(Audio)
  /\ ConfirmKeyOK(NoPacket)
  /\ \A r, rs : ConfirmKeyOK(DHPart(r, rs))
  /\ \A h, d : ConfirmKeyOK(Commit(h, d))
<1>1. \A r : ConfirmKeyOK(Hello(r)) /\ ConfirmKeyOK(DeleteSession(r))
  BY DEF ConfirmKeyOK, Hello, DeleteSession
<1>2. ConfirmKeyOK(HelloAck) /\ ConfirmKeyOK(ConfAck) /\ ConfirmKeyOK(Audio)
      /\ ConfirmKeyOK(NoPacket)
  BY DEF ConfirmKeyOK, HelloAck, ConfAck, Audio, NoPacket
<1>3. \A r, rs : ConfirmKeyOK(DHPart(r, rs))
  BY DEF ConfirmKeyOK, DHPart
<1>4. \A h, d : ConfirmKeyOK(Commit(h, d))
  BY DEF ConfirmKeyOK, Commit
<1> QED BY <1>1, <1>2, <1>3, <1>4

(* The steps outside the handlers.                                         *)
LEMMA CoreOutside ==
  ASSUME IInv, NEW r \in Roles,
         \/ NegotiateStart(r) \/ ResendPacket(r) \/ LeaveLoop(r)
         \/ Terminate(r) \/ Close(r) \/ Crash(r) \/ RelayHangup(r) \/ SendAudio \/ Lose \/ UNCHANGED vars
  PROVE  Core'
<1> USE TwoRoles, PlainPacketsOK DEF IInv, Total, socketVars, sessionVars
<1>k. /\ \A m \in network : ConfirmKeyOK(m)
      /\ \A q \in Roles : ConfirmKeyOK(lastPacket[q])
  BY DEF Core, ConfirmKeysOK
<1>1. CASE NegotiateStart(r)
  BY <1>1, Frame DEF NegotiateStart, SendFreshPacket, Transmit
<1>2. CASE ResendPacket(r)
  BY <1>2, <1>k, Frame DEF ResendPacket, Transmit
<1>3. CASE LeaveLoop(r)
  BY <1>3, Frame DEF LeaveLoop
<1>4. CASE Terminate(r) \/ Close(r)
  BY <1>4, Frame DEF Terminate, Close, SetState, TypeOK
<1>5. CASE Crash(r)
  BY <1>5, Frame DEF Crash, HandlerReturns
<1>6. CASE RelayHangup(r)
  BY <1>6, Frame DEF RelayHangup
<1>7. CASE SendAudio
  BY <1>7, Frame DEF SendAudio
<1>8. CASE Lose
  BY <1>8, Frame DEF Lose
<1>9. CASE UNCHANGED vars
  BY <1>9, Frame DEF vars
<1> QED BY <1>1, <1>2, <1>3, <1>4, <1>5, <1>6, <1>7, <1>8, <1>9

(* An InvalidPacketException ends the negotiation.                         *)
LEMMA CoreInvalid ==
  ASSUME IInv, NEW r \in Roles, InvalidPacket(r) PROVE Core'
  BY Frame, TwoRoles DEF IInv, Total, InvalidPacket, HandlerReturns, socketVars

(* Dispatching a packet the state expects.                                 *)
LEMMA CoreReceive ==
  ASSUME IInv, NEW r \in Roles, Receive(r) PROVE Core'
<1> USE TwoRoles DEF IInv
<1>1. PICK m \in network : Expects(r, m) /\ handling' = [handling EXCEPT ![r] = m]
  BY DEF Receive
<1>2. UNCHANGED <<state, lastPacket, masterSecret, database, network, caching>>
  BY DEF Receive, socketVars, sessionVars
<1>3. handling'[r] = m /\ \A q \in Roles \ {r} : handling'[q] = handling[q]
  BY <1>1 DEF Total
<1>4. Running(r)' = ExpectedType[state[r]]
      /\ \A q \in Roles \ {r} : Running(q)' = Running(q)
  BY <1>1, <1>3 DEF Running, Expects, GetType
<1>5. state[r] \in States
  BY DEF TypeOK
<1>6. BeforeDH'
  BY <1>2, <1>4, <1>5, ExpectedTypes DEF Core, BeforeDH, States
<1>7. AfterDH'
  BY <1>2, <1>4, <1>5, ExpectedTypes DEF Core, AfterDH, States
<1>8. (PastConfirm => Agreed)'
  BY <1>2, <1>4, <1>5, ExpectedTypes DEF Core, PastConfirm, Agreed, States
<1>9. ConfirmKeysOK'
  BY <1>2, <1>3 DEF Core, ConfirmKeysOK, ConfirmKeyOK
<1>10. StoredIsAgreed'
  BY <1>2 DEF Core, StoredIsAgreed, Agreed
<1> QED BY <1>6, <1>7, <1>8, <1>9, <1>10 DEF Core

(* What the handlers have in common: the packet is done with, the state of *)
(* r becomes st and m is sent.                                             *)
Advances(r, st, m) == /\ SetState(r, st) /\ SendFreshPacket(r, m) /\ HandlerReturns(r)

LEMMA AdvanceFacts ==
  ASSUME IInv, NEW r \in Roles, NEW st, NEW m, Advances(r, st, m)
  PROVE  /\ state'[r] = st /\ handling'[r] = NoPacket /\ lastPacket'[r] = m
         /\ \A q \in Roles \ {r} : /\ state'[q] = state[q]
                                   /\ handling'[q] = handling[q]
                                   /\ lastPacket'[q] = lastPacket[q]
         /\ \A p \in network' : p \in network \/ p = m
         /\ Running(r)' = "null"
         /\ \A q \in Roles \ {r} : Running(q)' = Running(q)
<1>1. state'[r] = st /\ \A q \in Roles \ {r} : state'[q] = state[q]
  BY DEF Advances, SetState, IInv, TypeOK
<1>2. handling'[r] = NoPacket /\ \A q \in Roles \ {r} : handling'[q] = handling[q]
  BY DEF Advances, HandlerReturns, IInv, Total
<1>3. lastPacket'[r] = m /\ \A q \in Roles \ {r} : lastPacket'[q] = lastPacket[q]
  BY DEF Advances, SendFreshPacket, IInv, Total
<1>4. \A p \in network' : p \in network \/ p = m
  BY DEF Advances, SendFreshPacket, Transmit
<1> QED BY <1>1, <1>2, <1>3, <1>4 DEF Running, GetType, NoPacket

(* A handler that advances, stores nothing and sends a packet with a right *)
(* key (or none) keeps the parts of the invariant about packets.           *)
LEMMA AdvanceKeys ==
  ASSUME IInv, NEW r \in Roles, NEW st, NEW m, Advances(r, st, m),
         ConfirmKeyOK(m)', masterSecret[r] = NoMaster \/ UNCHANGED masterSecret,
         \A q \in Roles \ {r} : masterSecret'[q] = masterSecret[q]
  PROVE  ConfirmKeysOK'
<1> USE TwoRoles
<1>1. \A p : ConfirmKeyOK(p) => ConfirmKeyOK(p)'
  BY DEF ConfirmKeyOK
<1>2. ConfirmKeyOK(NoPacket)'
  BY DEF ConfirmKeyOK, NoPacket
<1> QED BY <1>1, <1>2, AdvanceFacts DEF IInv, Core, ConfirmKeysOK

LEMMA CoreInitiatorHello ==
  ASSUME IInv, Running(I) = "Hello", InitiatorHello(handling[I]) PROVE Core'
<1> USE TwoRoles DEF IInv
<1>1. /\ Advances(I, "EXPECTING_HELLO_ACK", Hello(I))
      /\ UNCHANGED <<masterSecret, database, caching>>
  BY DEF InitiatorHello, Advances
<1>k. ConfirmKeyOK(Hello(I))'
  BY DEF ConfirmKeyOK, Hello
<1>2. ConfirmKeysOK'
  BY <1>1, <1>k, AdvanceKeys
<1>3. BeforeDH' /\ AfterDH'
  BY <1>1, AdvanceFacts DEF Core, BeforeDH, AfterDH
<1>4. (PastConfirm => Agreed)'
  BY <1>1, AdvanceFacts DEF Core, PastConfirm, Agreed
<1>5. StoredIsAgreed'
  BY <1>1 DEF Core, StoredIsAgreed, Agreed
<1> QED BY <1>2, <1>3, <1>4, <1>5 DEF Core

LEMMA CoreInitiatorHelloAck ==
  ASSUME IInv, Running(I) = "HelloAck", InitiatorHelloAck(handling[I]) PROVE Core'
<1> USE TwoRoles DEF IInv
<1>0. PICK c : c = Commit(foreignHello[I], DHPart(I, database[I]))
  OBVIOUS
<1>1. /\ Advances(I, "EXPECTING_DH_1", c)
      /\ UNCHANGED <<masterSecret, database, caching>>
  BY <1>0 DEF InitiatorHelloAck, Advances
<1>2. ConfirmKeyOK(c)'
  BY <1>0 DEF ConfirmKeyOK, Commit
<1>3. ConfirmKeysOK'
  BY <1>1, <1>2, AdvanceKeys
<1>4. BeforeDH' /\ AfterDH'
  BY <1>1, AdvanceFacts DEF Core, BeforeDH, AfterDH
<1>5. (PastConfirm => Agreed)'
  BY <1>1, AdvanceFacts DEF Core, PastConfirm, Agreed
<1>6. StoredIsAgreed'
  BY <1>1 DEF Core, StoredIsAgreed, Agreed
<1> QED BY <1>3, <1>4, <1>5, <1>6 DEF Core

LEMMA CoreResponderHello ==
  ASSUME IInv, Running(R) = "Hello", ResponderHello(handling[R]) PROVE Core'
<1> USE TwoRoles DEF IInv
<1>1. /\ Advances(R, "EXPECTING_COMMIT", HelloAck)
      /\ UNCHANGED <<masterSecret, database, caching>>
  BY DEF ResponderHello, Advances
<1>k. ConfirmKeyOK(HelloAck)'
  BY DEF ConfirmKeyOK, HelloAck
<1>2. ConfirmKeysOK'
  BY <1>1, <1>k, AdvanceKeys
<1>3. BeforeDH' /\ AfterDH'
  BY <1>1, AdvanceFacts DEF Core, BeforeDH, AfterDH
<1>4. (PastConfirm => Agreed)'
  BY <1>1, AdvanceFacts DEF Core, PastConfirm, Agreed
<1>5. StoredIsAgreed'
  BY <1>1 DEF Core, StoredIsAgreed, Agreed
<1> QED BY <1>2, <1>3, <1>4, <1>5 DEF Core

(* handleDH makes the initiator's master secret; nobody was past a Confirm *)
(* packet before, because there was no such secret to agree on.            *)
LEMMA CoreInitiatorDH ==
  ASSUME IInv, Running(I) = "DHPart1", InitiatorDH(handling[I]) PROVE Core'
<1> USE TwoRoles DEF IInv
<1>1. CASE InvalidPacket(I)
  BY <1>1, CoreInvalid
<1>2. CASE ~InvalidPacket(I)
  <2>a. PICK dh : dh = DHPart(I, retained[I])
    OBVIOUS
  <2>b. PICK key : key = MasterSecret(foreignHello[I], Commit(foreignHello[I], dh),
                       handling[I], dh, InitiatorS1(retained[I], handling[I].ids))
    OBVIOUS
  <2>1. /\ Advances(I, "EXPECTING_CONFIRM_ONE", dh)
        /\ masterSecret' = [masterSecret EXCEPT ![I] = key]
        /\ UNCHANGED <<database, caching>>
    BY <1>2, <2>a, <2>b DEF InitiatorDH, Advances
  <2>2. key # NoMaster /\ key.dh2.chain = Chain[I]
    BY <2>a, <2>b DEF MasterSecret, NoMaster, DHPart
  <2>3. ConfirmKeyOK(dh)'
    BY <2>a DEF ConfirmKeyOK, DHPart
  <2>4. masterSecret'[I] = key /\ masterSecret'[R] = masterSecret[R]
    BY <2>1 DEF Total
  <2>5. masterSecret[I] = NoMaster
    BY DEF Core, BeforeDH
  <2>6. ConfirmKeysOK'
    BY <2>1, <2>3, <2>4, <2>5, AdvanceKeys
  <2>7. BeforeDH' /\ AfterDH'
    BY <2>1, <2>2, <2>4, AdvanceFacts DEF Core, BeforeDH, AfterDH
  <2>8. (PastConfirm => Agreed)'
    BY <2>1, <2>5, AdvanceFacts DEF Core, PastConfirm, Agreed
  <2>9. StoredIsAgreed'
    BY <2>1, <2>5 DEF Core, StoredIsAgreed, Agreed
  <2> QED BY <2>6, <2>7, <2>8, <2>9 DEF Core
<1> QED BY <1>1, <1>2

(* The Confirm1 packet verified with a key made from this call's DHPart2,  *)
(* so it is no packet of an earlier call and the responder has that key.   *)
LEMMA CoreInitiatorConfirmOne ==
  ASSUME IInv, Running(I) = "Confirm1", InitiatorConfirmOne(handling[I]) PROVE Core'
<1> USE TwoRoles DEF IInv
<1>1. CASE InvalidPacket(I)
  BY <1>1, CoreInvalid
<1>2. CASE ~InvalidPacket(I)
  <2>0. PICK c : c = Confirm(I, masterSecret[I])
    OBVIOUS
  <2>1. /\ Advances(I, "EXPECTING_CONFIRM_ACK", c)
        /\ UNCHANGED <<masterSecret, database, caching>>
        /\ handling[I].key = masterSecret[I]
    BY <1>2, <2>0 DEF InitiatorConfirmOne, AfterConfirmOne, Advances, ConfirmVerifies
  <2>2. masterSecret[I] # NoMaster /\ masterSecret[I].dh2.chain = Chain[I]
    BY DEF Core, AfterDH
  <2>3. handling[I].type = "Confirm1"
    BY DEF Running, GetType
  <2>4. Agreed
    BY <2>1, <2>2, <2>3 DEF Core, ConfirmKeysOK, ConfirmKeyOK, Agreed
  <2>5. ConfirmKeyOK(c)'
    BY <2>0, <2>1, <2>2 DEF ConfirmKeyOK, Confirm, I
  <2>6. ConfirmKeysOK'
    BY <2>1, <2>5, AdvanceKeys
  <2>7. BeforeDH' /\ AfterDH'
    BY <2>1, AdvanceFacts DEF Core, BeforeDH, AfterDH
  <2>8. Agreed'
    BY <2>1, <2>4 DEF Agreed
  <2>9. StoredIsAgreed'
    BY <2>1 DEF Core, StoredIsAgreed, Agreed
  <2> QED BY <2>6, <2>7, <2>8, <2>9 DEF Core
<1> QED BY <1>1, <1>2

(* The initiator stores the secret both ends hold.                         *)
LEMMA CoreInitiatorConfirmAck ==
  ASSUME IInv, Running(I) = "Conf2Ack", InitiatorConfirmAck(handling[I]) PROVE Core'
<1> USE TwoRoles DEF IInv
<1>1. /\ UNCHANGED <<masterSecret, caching, network, lastPacket>>
      /\ state'[I] = "HANDSHAKE_COMPLETE" /\ state'[R] = state[R]
      /\ handling'[I] = NoPacket /\ handling'[R] = handling[R]
      /\ database'[I] = <<masterSecret[I], database[I][1]>>
      /\ database'[R] = database[R]
  BY DEF InitiatorConfirmAck, SetState, HandlerReturns, CacheRetainedSecret,
         sessionVars, Total, TypeOK
<1>2. Agreed
  BY DEF Core, PastConfirm
<1>3. Agreed'
  BY <1>1, <1>2 DEF Agreed
<1>4. Running(I)' = "null" /\ Running(R)' = Running(R)
  BY <1>1 DEF Running, GetType, NoPacket
<1>5. BeforeDH' /\ AfterDH'
  BY <1>1, <1>4 DEF Core, BeforeDH, AfterDH
<1>6. ConfirmKeysOK'
  BY <1>1 DEF Core, ConfirmKeysOK, ConfirmKeyOK, NoPacket
<1>7. StoredIsAgreed'
  BY <1>1, <1>2, <1>3 DEF Core, StoredIsAgreed
<1> QED BY <1>3, <1>5, <1>6, <1>7 DEF Core

LEMMA CoreResponderCommit ==
  ASSUME IInv, Running(R) = "Commit", ResponderCommit(handling[R]) PROVE Core'
<1> USE TwoRoles DEF IInv
<1>1. CASE InvalidPacket(R)
  BY <1>1, CoreInvalid
<1>2. CASE ~InvalidPacket(R)
  <2>0. PICK dh : dh = DHPart(R, database[R])
    OBVIOUS
  <2>1. /\ Advances(R, "EXPECTING_DH_2", dh)
        /\ UNCHANGED <<masterSecret, database, caching>>
    BY <1>2, <2>0 DEF ResponderCommit, Advances
  <2>2. ConfirmKeyOK(dh)'
    BY <2>0 DEF ConfirmKeyOK, DHPart
  <2>3. ConfirmKeysOK'
    BY <2>1, <2>2, AdvanceKeys
  <2>4. BeforeDH' /\ AfterDH'
    BY <2>1, AdvanceFacts DEF Core, BeforeDH, AfterDH
  <2>5. (PastConfirm => Agreed)'
    BY <2>1, AdvanceFacts DEF Core, PastConfirm, Agreed
  <2>6. StoredIsAgreed'
    BY <2>1 DEF Core, StoredIsAgreed, Agreed
  <2> QED BY <2>3, <2>4, <2>5, <2>6 DEF Core
<1> QED BY <1>1, <1>2

(* handleDH makes the responder's master secret and confirms it.           *)
LEMMA CoreResponderDH ==
  ASSUME IInv, Running(R) = "DHPart2", ResponderDH(handling[R]) PROVE Core'
<1> USE TwoRoles DEF IInv
<1>1. CASE InvalidPacket(R)
  BY <1>1, CoreInvalid
<1>2. CASE ~InvalidPacket(R)
  <2>a. PICK key : key = MasterSecret(Hello(R), foreignCommit, DHPart(R, retained[R]),
                       handling[R], ResponderS1(retained[R], handling[R].ids))
    OBVIOUS
  <2>b. PICK c : c = Confirm(R, key)
    OBVIOUS
  <2>1. /\ Advances(R, "EXPECTING_CONFIRM_TWO", c)
        /\ masterSecret' = [masterSecret EXCEPT ![R] = key]
        /\ UNCHANGED <<database, caching>>
    BY <1>2, <2>a, <2>b DEF ResponderDH, Advances
  <2>2. key # NoMaster /\ key.dh1.chain = Chain[R]
    BY <2>a DEF MasterSecret, NoMaster, DHPart
  <2>3. masterSecret'[R] = key /\ masterSecret'[I] = masterSecret[I]
    BY <2>1 DEF Total
  <2>4. ConfirmKeyOK(c)'
    BY <2>b, <2>2, <2>3 DEF ConfirmKeyOK, Confirm
  <2>5. masterSecret[R] = NoMaster
    BY DEF Core, BeforeDH
  <2>6. ConfirmKeysOK'
    BY <2>1, <2>3, <2>4, <2>5, AdvanceKeys
  <2>7. BeforeDH' /\ AfterDH'
    BY <2>1, <2>2, <2>3, AdvanceFacts DEF Core, BeforeDH, AfterDH
  <2>8. (PastConfirm => Agreed)'
    BY <2>1, <2>5, AdvanceFacts DEF Core, PastConfirm, Agreed
  <2>9. StoredIsAgreed'
    BY <2>1, <2>5 DEF Core, StoredIsAgreed, Agreed
  <2> QED BY <2>6, <2>7, <2>8, <2>9 DEF Core
<1> QED BY <1>1, <1>2

(* The Confirm2 packet verified with a key made from this call's DHPart1.  *)
LEMMA CoreResponderConfirmTwo ==
  ASSUME IInv, Running(R) = "Confirm2", ResponderConfirmTwo(handling[R]) PROVE Core'
<1> USE TwoRoles DEF IInv
<1>1. CASE InvalidPacket(R)
  BY <1>1, CoreInvalid
<1>2. CASE ~InvalidPacket(R)
  <2>1. /\ Advances(R, "HANDSHAKE_COMPLETE", ConfAck)
        /\ UNCHANGED <<masterSecret, database>>
        /\ handling[R].key = masterSecret[R]
    BY <1>2 DEF ResponderConfirmTwo, Advances, ConfirmVerifies
  <2>2. masterSecret[R] # NoMaster /\ masterSecret[R].dh1.chain = Chain[R]
    BY DEF Core, AfterDH
  <2>3. handling[R].type = "Confirm2"
    BY DEF Running, GetType
  <2>4. Agreed
    BY <2>1, <2>2, <2>3 DEF Core, ConfirmKeysOK, ConfirmKeyOK, Agreed
  <2>5. ConfirmKeyOK(ConfAck)'
    BY DEF ConfirmKeyOK, ConfAck
  <2>6. ConfirmKeysOK'
    BY <2>1, <2>5, AdvanceKeys
  <2>7. BeforeDH' /\ AfterDH'
    BY <2>1, AdvanceFacts DEF Core, BeforeDH, AfterDH
  <2>8. Agreed'
    BY <2>1, <2>4 DEF Agreed
  <2>9. StoredIsAgreed'
    BY <2>1 DEF Core, StoredIsAgreed, Agreed
  <2> QED BY <2>6, <2>7, <2>8, <2>9 DEF Core
<1> QED BY <1>1, <1>2

(* The responder stores the secret both ends hold.                         *)
LEMMA CoreResponderCache ==
  ASSUME IInv, ResponderCache PROVE Core'
<1> USE TwoRoles DEF IInv
<1>1. /\ UNCHANGED <<masterSecret, network, lastPacket, state, handling>>
      /\ database'[R] = <<masterSecret[R], database[R][1]>>
      /\ database'[I] = database[I]
  BY DEF ResponderCache, CacheRetainedSecret, socketVars, sessionVars, Total
<1>2. Agreed
  BY DEF Core, PastConfirm, ResponderCache
<1>3. Agreed'
  BY <1>1, <1>2 DEF Agreed
<1>4. BeforeDH' /\ AfterDH'
  BY <1>1 DEF Core, BeforeDH, AfterDH, Running, GetType
<1>5. ConfirmKeysOK'
  BY <1>1 DEF Core, ConfirmKeysOK, ConfirmKeyOK
<1>6. StoredIsAgreed'
  BY <1>1, <1>2, <1>3 DEF Core, StoredIsAgreed, Agreed
<1> QED BY <1>3, <1>4, <1>5, <1>6 DEF Core

LEMMA CoreStep == IInv /\ [Next]_vars => Core'
<1> SUFFICES ASSUME IInv, [Next]_vars PROVE Core'
  OBVIOUS
<1> USE TwoRoles
<1>1. ASSUME NEW r \in Roles, Handle(r) PROVE Core'
  <2>1. CASE r = I
    BY <1>1, <2>1, CoreInitiatorHello, CoreInitiatorHelloAck, CoreInitiatorDH,
       CoreInitiatorConfirmOne, CoreInitiatorConfirmAck DEF Handle, Running
  <2>2. CASE r = R
    BY <1>1, <2>2, CoreResponderHello, CoreResponderCommit, CoreResponderDH,
       CoreResponderConfirmTwo DEF Handle, Running
  <2> QED BY <2>1, <2>2
<1>2. CASE \E r \in Roles : NegotiateStart(r) \/ LoopStep(r) \/ Terminate(r) \/ Close(r)
                            \/ Crash(r) \/ RelayHangup(r)
  BY <1>1, <1>2, CoreOutside, CoreReceive, CoreResponderCache DEF LoopStep
<1>3. CASE SendAudio \/ Lose \/ UNCHANGED vars
  BY <1>3, CoreOutside
<1> QED BY <1>2, <1>3 DEF Next

LEMMA InitIInv == Init => Total /\ Core
<1> SUFFICES ASSUME Init PROVE Total /\ Core
  OBVIOUS
<1> USE TwoRoles
<1>1. Total
  BY DEF Init, Total
<1>2. \A r \in Roles : Running(r) = "null"
  BY DEF Init, Running, GetType, NoPacket
<1>3. BeforeDH /\ AfterDH /\ ~PastConfirm
  BY <1>2 DEF Init, BeforeDH, AfterDH, PastConfirm
<1>4. ConfirmKeysOK
  BY StaleAssumption DEF Init, ConfirmKeysOK, ConfirmKeyOK, NoPacket, I, R
<1>5. StoredIsAgreed
  BY DEF Init, StoredIsAgreed
<1> QED BY <1>1, <1>3, <1>4, <1>5 DEF Core

LEMMA Invariance == Spec => []IInv
<1>1. Init => Total /\ Core
  BY InitIInv
<1>2. IInv /\ [Next]_vars => Total' /\ Core'
  BY TotalStep, CoreStep DEF IInv
<1> QED BY <1>1, <1>2, TypeCorrect, PTL DEF Spec, IInv

(* Whatever the network loses, repeats, delays or has left over from an    *)
(* earlier call, and whoever hangs up or dies: a socket past the peer's    *)
(* Confirm packet holds the master secret the peer holds                   *)
(* (ZRTPInitiatorSocket.handleConfirmOne,                                  *)
(* ZRTPResponderSocket.handleConfirmTwo).                                  *)
THEOREM KeysAgree == Spec => []KeyAgreement
<1>1. IInv => KeyAgreement
  BY TwoRoles DEF IInv, Core, KeyAgreement, Confirmed, PastConfirm, Agreed, Other, I, R
<1> QED BY <1>1, Invariance, PTL

(* A secret a phone keeps for the next call is one the other phone         *)
(* computed too (ZRTPSocket.cacheRetainedSecret).                          *)
THEOREM RetainedSecretsShared == Spec => []RetainedIsShared
<1>1. IInv => RetainedIsShared
  BY TwoRoles DEF IInv, Core, RetainedIsShared, StoredIsAgreed, Agreed
<1> QED BY <1>1, Invariance, PTL

-----------------------------------------------------------------------------
(* What a call that goes on has to go on with.                             *)

(* A socket that has completed has stored its key, or is about to: no      *)
(* other handler of it runs any more.                                      *)
Stored(r) ==
  state[r] = "HANDSHAKE_COMPLETE" /\ phase[r] # "crashed" =>
     /\ handling[r] = NoPacket
     /\ (r = R /\ caching) \/ database[r][1] = masterSecret[r]

Keyed(r) ==
  phase[r] = "connected" =>
     /\ Agreed /\ database[r][1] = masterSecret[r]
     /\ handling[r] = NoPacket /\ (r = R => ~caching)

KeyedInv ==
  /\ \A r \in Roles : /\ state[r] = "TERMINATED" => terminated[r]
                      /\ Stored(r) /\ Keyed(r)
  /\ caching => handling[R] = NoPacket

(* A step that computes and stores no secret and neither completes nor     *)
(* connects keeps the invariant; what close() does it may do too.          *)
LEMMA KeyedFrame ==
  ASSUME KeyedInv, UNCHANGED <<masterSecret, database>>,
         caching' = caching \/ (~caching' /\ phase'[R] = "crashed"),
         \A r \in Roles :
            /\ terminated[r] => terminated'[r]
            /\ \/ state'[r] = state[r]
               \/ state'[r] \notin {"HANDSHAKE_COMPLETE", "TERMINATED"}
               \/ state'[r] = "TERMINATED" /\ terminated'[r]
            /\ phase'[r] = phase[r] \/ (phase'[r] # "connected" /\ phase[r] # "crashed")
            /\ handling'[r] = handling[r] \/ handling'[r] = NoPacket
  PROVE  KeyedInv'
<1> USE TwoRoles
<1>1. ASSUME NEW r \in Roles
      PROVE  /\ state'[r] = "TERMINATED" => terminated'[r]
             /\ Stored(r)' /\ Keyed(r)'
  BY DEF KeyedInv, Stored, Keyed, Agreed
<1> QED BY <1>1 DEF KeyedInv

(* A dispatched packet finds its socket still waiting for it.              *)
LEMMA KeyedReceive ==
  ASSUME IInv, KeyedInv, NEW r \in Roles, Receive(r) PROVE KeyedInv'
<1> USE TwoRoles
<1>1. /\ UNCHANGED <<state, phase, terminated, caching, masterSecret, database>>
      /\ \A q \in Roles \ {r} : handling'[q] = handling[q]
  BY DEF Receive, socketVars, sessionVars, IInv, Total
<1>2. /\ state[r] # "HANDSHAKE_COMPLETE" /\ phase[r] # "connected"
      /\ r = R => ~caching
  BY DEF Receive, InLoop
<1>3. \A q \in Roles : Stored(q)' /\ Keyed(q)'
  BY <1>1, <1>2 DEF KeyedInv, Stored, Keyed, Agreed
<1> QED BY <1>1, <1>2, <1>3 DEF KeyedInv

(* A loop that ends in TERMINATED finds the call terminated; one that ends *)
(* with the handshake complete has its key stored.                         *)
LEMMA KeyedLeave ==
  ASSUME IInv, KeyedInv, NEW r \in Roles, LeaveLoop(r) PROVE KeyedInv'
<1> USE TwoRoles
<1>1. /\ UNCHANGED <<state, handling, terminated, caching, masterSecret, database>>
      /\ \A q \in Roles \ {r} : phase'[q] = phase[q]
      /\ phase[r] \in Looping /\ handling[r] = NoPacket /\ (r = R => ~caching)
  BY DEF LeaveLoop, EndPhase, socketVars, sessionVars, IInv, TypeOK
<1>2. CASE phase'[r] # "connected"
  BY <1>1, <1>2, KeyedFrame DEF Looping
<1>3. CASE phase'[r] = "connected"
  <2>1. state[r] = "HANDSHAKE_COMPLETE" /\ phase[r] # "crashed"
    BY <1>3 DEF LeaveLoop, EndPhase, InLoop, GivesUp, Looping, KeyedInv, IInv, TypeOK
  <2>2. Agreed
    BY <2>1 DEF IInv, Core, PastConfirm
  <2>3. database[r][1] = masterSecret[r]
    BY <1>1, <2>1 DEF KeyedInv, Stored
  <2>4. \A q \in Roles : Stored(q)' /\ Keyed(q)'
    BY <1>1, <2>1, <2>2, <2>3 DEF KeyedInv, Stored, Keyed, Agreed
  <2> QED BY <1>1, <2>4 DEF KeyedInv
<1> QED BY <1>2, <1>3

(* A handler that does not complete: it may compute the socket's secret,   *)
(* which nobody has agreed on before.                                      *)
LEMMA KeyedAdvance ==
  ASSUME IInv, KeyedInv, NEW r \in Roles, NEW st, NEW m, Advances(r, st, m),
         phase[r] \in Looping, st \notin {"HANDSHAKE_COMPLETE", "TERMINATED"},
         UNCHANGED <<phase, caching, terminated, database>>,
         masterSecret[r] = NoMaster \/ UNCHANGED masterSecret,
         \A q \in Roles \ {r} : masterSecret'[q] = masterSecret[q]
  PROVE  KeyedInv'
<1> USE TwoRoles
<1>1. /\ state'[r] = st /\ handling'[r] = NoPacket
      /\ \A q \in Roles \ {r} : state'[q] = state[q] /\ handling'[q] = handling[q]
  BY AdvanceFacts
<1>2. CASE UNCHANGED masterSecret
  BY <1>1, <1>2, KeyedFrame
<1>3. CASE masterSecret[r] = NoMaster
  <2>1. ~Agreed
    BY <1>3 DEF Agreed
  <2>2. \A q \in Roles : phase'[q] # "connected"
    BY <2>1 DEF KeyedInv, Keyed
  <2>3. \A q \in Roles : Stored(q)' /\ Keyed(q)'
    BY <1>1, <2>2 DEF KeyedInv, Stored, Keyed
  <2> QED BY <1>1, <2>3 DEF KeyedInv
<1> QED BY <1>2, <1>3

LEMMA KeyedInvalid ==
  ASSUME IInv, KeyedInv, NEW r \in Roles, phase[r] \in Looping, InvalidPacket(r)
  PROVE  KeyedInv'
  BY TwoRoles, KeyedFrame
     DEF InvalidPacket, HandlerReturns, EndPhase, socketVars, Looping, IInv, Total, TypeOK

LEMMA KeyedInitiator ==
  ASSUME IInv, KeyedInv, Handle(I) PROVE KeyedInv'
<1> USE TwoRoles
<1> DEFINE p == handling[I]
<1>0. phase[I] \in Looping
  BY DEF Handle
<1>1. CASE InitiatorHello(p)
  <2>1. /\ Advances(I, "EXPECTING_HELLO_ACK", Hello(I))
        /\ UNCHANGED <<masterSecret, phase, caching, terminated, database>>
    BY <1>1 DEF InitiatorHello, Advances
  <2> QED BY <1>0, <2>1, KeyedAdvance
<1>2. CASE InitiatorHelloAck(p)
  <2>1. PICK c : c = Commit(foreignHello[I], DHPart(I, database[I]))
    OBVIOUS
  <2>2. /\ Advances(I, "EXPECTING_DH_1", c)
        /\ UNCHANGED <<masterSecret, phase, caching, terminated, database>>
    BY <1>2, <2>1 DEF InitiatorHelloAck, Advances
  <2> QED BY <1>0, <2>2, KeyedAdvance
<1>3. CASE InitiatorDH(p) /\ Running(I) = "DHPart1" /\ ~InvalidPacket(I)
  <2>1. PICK dh, key :
          /\ Advances(I, "EXPECTING_CONFIRM_ONE", dh)
          /\ masterSecret' = [masterSecret EXCEPT ![I] = key]
          /\ UNCHANGED <<phase, caching, terminated, database>>
    BY <1>3 DEF InitiatorDH, Advances
  <2>2. masterSecret[I] = NoMaster /\ masterSecret'[R] = masterSecret[R]
    BY <1>3, <2>1 DEF IInv, Core, BeforeDH, Total
  <2> QED BY <1>0, <2>1, <2>2, KeyedAdvance
<1>4. CASE InitiatorConfirmOne(p) /\ ~InvalidPacket(I)
  <2>1. PICK c : c = Confirm(I, masterSecret[I])
    OBVIOUS
  <2>2. /\ Advances(I, "EXPECTING_CONFIRM_ACK", c)
        /\ UNCHANGED <<masterSecret, phase, caching, terminated, database>>
    BY <1>4, <2>1 DEF InitiatorConfirmOne, AfterConfirmOne, Advances
  <2> QED BY <1>0, <2>2, KeyedAdvance
<1>5. CASE InitiatorConfirmAck(p)
  <2>1. /\ UNCHANGED <<masterSecret, phase, caching, terminated>>
        /\ state'[I] = "HANDSHAKE_COMPLETE" /\ state'[R] = state[R]
        /\ handling'[I] = NoPacket /\ handling'[R] = handling[R]
        /\ database'[I][1] = masterSecret[I] /\ database'[R] = database[R]
    BY <1>5 DEF InitiatorConfirmAck, SetState, HandlerReturns, CacheRetainedSecret,
                sessionVars, IInv, Total, TypeOK
  <2>2. \A q \in Roles : Stored(q)' /\ Keyed(q)'
    BY <1>0, <2>1 DEF KeyedInv, Stored, Keyed, Agreed, Looping
  <2> QED BY <2>1, <2>2 DEF KeyedInv
<1>6. CASE InvalidPacket(I)
  BY <1>0, <1>6, KeyedInvalid
<1> QED BY <1>1, <1>2, <1>3, <1>4, <1>5, <1>6 DEF Handle, Running

LEMMA KeyedResponder ==
  ASSUME IInv, KeyedInv, Handle(R) PROVE KeyedInv'
<1> USE TwoRoles
<1> DEFINE p == handling[R]
<1>0. phase[R] \in Looping /\ ~caching
  BY DEF Handle, KeyedInv
<1>1. CASE ResponderHello(p)
  <2>1. /\ Advances(R, "EXPECTING_COMMIT", HelloAck)
        /\ UNCHANGED <<masterSecret, phase, caching, terminated, database>>
    BY <1>1 DEF ResponderHello, Advances
  <2> QED BY <1>0, <2>1, KeyedAdvance
<1>2. CASE ResponderCommit(p) /\ ~InvalidPacket(R)
  <2>1. PICK dh : dh = DHPart(R, database[R])
    OBVIOUS
  <2>2. /\ Advances(R, "EXPECTING_DH_2", dh)
        /\ UNCHANGED <<masterSecret, phase, caching, terminated, database>>
    BY <1>2, <2>1 DEF ResponderCommit, Advances
  <2> QED BY <1>0, <2>2, KeyedAdvance
<1>3. CASE ResponderDH(p) /\ Running(R) = "DHPart2" /\ ~InvalidPacket(R)
  <2>1. PICK c, key :
          /\ Advances(R, "EXPECTING_CONFIRM_TWO", c)
          /\ masterSecret' = [masterSecret EXCEPT ![R] = key]
          /\ UNCHANGED <<phase, caching, terminated, database>>
    BY <1>3 DEF ResponderDH, Advances
  <2>2. masterSecret[R] = NoMaster /\ masterSecret'[I] = masterSecret[I]
    BY <1>3, <2>1 DEF IInv, Core, BeforeDH, Total
  <2> QED BY <1>0, <2>1, <2>2, KeyedAdvance
<1>4. CASE ResponderConfirmTwo(p) /\ ~InvalidPacket(R)
  <2>1. /\ Advances(R, "HANDSHAKE_COMPLETE", ConfAck) /\ caching'
        /\ UNCHANGED <<masterSecret, phase, terminated, database>>
    BY <1>4 DEF ResponderConfirmTwo, Advances
  <2>2. /\ state'[R] = "HANDSHAKE_COMPLETE" /\ state'[I] = state[I]
        /\ handling'[R] = NoPacket /\ handling'[I] = handling[I]
    BY <2>1, AdvanceFacts
  <2>3. \A q \in Roles : Stored(q)' /\ Keyed(q)'
    BY <1>0, <2>1, <2>2 DEF KeyedInv, Stored, Keyed, Agreed, Looping
  <2> QED BY <2>1, <2>2, <2>3 DEF KeyedInv
<1>5. CASE InvalidPacket(R)
  BY <1>0, <1>5, KeyedInvalid
<1> QED BY <1>1, <1>2, <1>3, <1>4, <1>5 DEF Handle, Running

(* The responder stores its key after it has completed.                    *)
LEMMA KeyedCache ==
  ASSUME IInv, KeyedInv, ResponderCache PROVE KeyedInv'
<1> USE TwoRoles
<1>1. /\ UNCHANGED <<masterSecret, state, handling, phase, terminated>>
      /\ database'[R][1] = masterSecret[R] /\ database'[I] = database[I]
      /\ phase[R] \in Looping /\ ~caching'
  BY DEF ResponderCache, CacheRetainedSecret, socketVars, sessionVars, IInv, Total
<1>2. \A q \in Roles : Stored(q)' /\ Keyed(q)'
  BY <1>1 DEF KeyedInv, Stored, Keyed, Agreed, Looping
<1> QED BY <1>1, <1>2 DEF KeyedInv

(* The other steps of the two threads, and the environment.                *)
LEMMA KeyedOutside ==
  ASSUME IInv, KeyedInv, NEW r \in Roles,
         \/ NegotiateStart(r) \/ ResendPacket(r) \/ Terminate(r) \/ Close(r)
         \/ Crash(r) \/ RelayHangup(r) \/ SendAudio \/ Lose \/ UNCHANGED vars
  PROVE  KeyedInv'
<1> USE TwoRoles DEF IInv, Total, TypeOK, EndPhase, socketVars, sessionVars
<1>1. CASE NegotiateStart(r)
  BY <1>1, KeyedFrame DEF NegotiateStart, SendFreshPacket
<1>2. CASE ResendPacket(r)
  BY <1>2, KeyedFrame DEF ResendPacket, InLoop
<1>3. CASE Terminate(r)
  BY <1>3, KeyedFrame DEF Terminate
<1>4. CASE Close(r)
  BY <1>4, KeyedFrame DEF Close, SetState
<1>5. CASE Crash(r)
  BY <1>5, KeyedFrame DEF Crash, HandlerReturns, Looping
<1>6. CASE RelayHangup(r)
  BY <1>6, KeyedFrame DEF RelayHangup
<1>7. CASE SendAudio \/ Lose
  BY <1>7, KeyedFrame DEF SendAudio, Lose
<1>8. CASE UNCHANGED vars
  BY <1>8, KeyedFrame DEF vars
<1> QED BY <1>1, <1>2, <1>3, <1>4, <1>5, <1>6, <1>7, <1>8

(* A call goes on to its audio only with the key both phones hold, and     *)
(* with that key stored for the next call, whatever is lost, late or left  *)
(* over, and wherever close() interrupts the handshake (CallManager.run).  *)
THEOREM ConnectedAreKeyed == Spec => []ConnectedShareKey
<1>1. Init => KeyedInv
  BY TwoRoles DEF Init, KeyedInv, Stored, Keyed
<1>2. IInv /\ KeyedInv /\ [Next]_vars => KeyedInv'
  <2> SUFFICES ASSUME IInv, KeyedInv, [Next]_vars PROVE KeyedInv'
    OBVIOUS
  <2>1. ASSUME NEW r \in Roles, LoopStep(r) PROVE KeyedInv'
    BY <2>1, TwoRoles, KeyedReceive, KeyedOutside, KeyedLeave, KeyedInitiator,
       KeyedResponder, KeyedCache DEF LoopStep
  <2> QED BY <2>1, TwoRoles, KeyedOutside DEF Next
<1>3. KeyedInv => ConnectedShareKey
  BY TwoRoles DEF KeyedInv, Keyed, Agreed, ConnectedShareKey, Other, I, R
<1> QED BY <1>1, <1>2, <1>3, Invariance, PTL DEF Spec

-----------------------------------------------------------------------------
(* The end of the handshake.                                               *)

(* What ends EXPECTING_CONFIRM_ACK: a Conf2Ack, an audio packet or a       *)
(* relayed message to the initiator.                                       *)
IsAnswer(m) == GetType(m) = "Conf2Ack" /\ m.to = I

(* The responder has completed, or its user has hung up.                   *)
ResponderDone == state[R] = "HANDSHAKE_COMPLETE" \/ terminated[R]

(* All that an answer to Confirm2 can come from, and what it leads to.     *)
Answered ==
  \/ \E m \in network : IsAnswer(m)
  \/ \E r \in Roles : IsAnswer(lastPacket[r])
  \/ phase[R] = "connected"
  \/ Running(I) = "Conf2Ack"
  \/ state[I] = "HANDSHAKE_COMPLETE"

(* A responder that is done stays so: no handler runs that could take it   *)
(* out of HANDSHAKE_COMPLETE, and only close() does.                       *)
CompleteIsFinal ==
  /\ state[R] = "TERMINATED" => terminated[R]
  /\ state[R] = "HANDSHAKE_COMPLETE" => handling[R] = NoPacket

AnswerInv == CompleteIsFinal /\ (Answered => ResponderDone)

(* Nothing left over from an earlier call passes for a Conf2Ack.           *)
NoStaleAnswer == \A m \in StalePackets : ~IsAnswer(m)

(* No packet but Conf2Ack, audio and the relay's hangup is an answer.      *)
LEMMA PlainIsNoAnswer ==
  /\ \A r : ~IsAnswer(Hello(r)) /\ (IsAnswer(DeleteSession(r)) => r = I)
  /\ ~IsAnswer(HelloAck) /\ ~IsAnswer(NoPacket)
  /\ \A r, rs : ~IsAnswer(DHPart(r, rs))
  /\ \A h, d : ~IsAnswer(Commit(h, d))
  /\ \A r, k : ~IsAnswer(Confirm(r, k))
<1> USE DEF IsAnswer, GetType
<1>1. \A r : ~IsAnswer(Hello(r)) /\ (IsAnswer(DeleteSession(r)) => r = I)
  BY DEF Hello, DeleteSession
<1>2. ~IsAnswer(HelloAck) /\ ~IsAnswer(NoPacket)
  BY DEF HelloAck, NoPacket
<1>3. \A r, rs : ~IsAnswer(DHPart(r, rs))
  BY DEF DHPart
<1>4. \A h, d : ~IsAnswer(Commit(h, d))
  BY DEF Commit
<1>5. \A r, k : ~IsAnswer(Confirm(r, k))
  BY DEF Confirm
<1> QED BY <1>1, <1>2, <1>3, <1>4, <1>5

(* A step that leaves the responder done if it was, and adds no answer     *)
(* unless the responder is done, keeps the invariant.                      *)
LEMMA AnswerFrame ==
  ASSUME AnswerInv, CompleteIsFinal', ResponderDone => ResponderDone',
         \A m \in network' : m \in network \/ (IsAnswer(m) => ResponderDone'),
         \A r \in Roles : lastPacket'[r] = lastPacket[r]
                           \/ (IsAnswer(lastPacket'[r]) => ResponderDone'),
         phase'[R] = "connected" => phase[R] = "connected" \/ ResponderDone',
         handling'[I] = handling[I] \/ (Running(I)' = "Conf2Ack" => ResponderDone'),
         state'[I] = "HANDSHAKE_COMPLETE" => state[I] = "HANDSHAKE_COMPLETE" \/ ResponderDone'
  PROVE  AnswerInv'
<1>1. \A m : IsAnswer(m)' <=> IsAnswer(m)
  BY DEF IsAnswer, GetType
<1>2. Answered' => Answered \/ ResponderDone'
  <2>1. ASSUME NEW m \in network', IsAnswer(m)'
        PROVE  Answered \/ ResponderDone'
    BY <1>1, <2>1 DEF Answered
  <2>2. ASSUME NEW r \in Roles, IsAnswer(lastPacket[r])'
        PROVE  Answered \/ ResponderDone'
    BY <1>1, <2>2 DEF Answered, IsAnswer, GetType
  <2>3. CASE phase'[R] = "connected"
    BY <2>3 DEF Answered
  <2>4. ASSUME Running(I)' = "Conf2Ack"
        PROVE  Answered \/ ResponderDone'
    BY <2>4 DEF Answered, Running, GetType
  <2>5. CASE state'[I] = "HANDSHAKE_COMPLETE"
    BY <2>5 DEF Answered
  <2> QED BY <2>1, <2>2, <2>3, <2>4, <2>5 DEF Answered
<1> QED BY <1>2 DEF AnswerInv

(* The steps of the initiator.                                             *)
LEMMA AnswerInitiator ==
  ASSUME TypeOK, Total, AnswerInv,
         NegotiateStart(I) \/ LoopStep(I)
  PROVE  AnswerInv'
<1> USE TwoRoles, PlainIsNoAnswer
    DEF TypeOK, Total, socketVars, sessionVars, HandlerReturns, SendFreshPacket, Transmit,
        SetState, EndPhase
<1>0. /\ \A m \in network : IsAnswer(m) => ResponderDone
      /\ \A r \in Roles : IsAnswer(lastPacket[r]) => ResponderDone
      /\ Running(I) = "Conf2Ack" => ResponderDone
      /\ phase[R] = "connected" => ResponderDone
  BY DEF AnswerInv, Answered
<1>1. CASE NegotiateStart(I)
  BY <1>1, AnswerFrame DEF NegotiateStart, CompleteIsFinal, AnswerInv, ResponderDone
<1>2. CASE Receive(I)
  <2>1. PICK m \in network : Expects(I, m) /\ handling' = [handling EXCEPT ![I] = m]
    BY <1>2 DEF Receive
  <2>2. /\ UNCHANGED <<state, lastPacket, network, phase, terminated>>
        /\ handling'[I] = m /\ handling'[R] = handling[R]
    BY <1>2, <2>1 DEF Receive
  <2>3. Running(I)' = "Conf2Ack" => IsAnswer(m)
    BY <2>1, <2>2 DEF Running, GetType, Expects, IsAnswer
  <2>4. Running(I)' = "Conf2Ack" => ResponderDone'
    BY <1>0, <2>2, <2>3 DEF ResponderDone
  <2> QED BY <2>2, <2>4, AnswerFrame DEF CompleteIsFinal, AnswerInv, ResponderDone
<1>3. CASE ResendPacket(I)
  BY <1>0, <1>3, AnswerFrame DEF ResendPacket, CompleteIsFinal, AnswerInv, ResponderDone
<1>4. CASE LeaveLoop(I)
  BY <1>4, AnswerFrame DEF LeaveLoop, CompleteIsFinal, AnswerInv, ResponderDone
<1>5. CASE Handle(I)
  <2> DEFINE m == handling[I]
  <2>1. CASE InitiatorHello(m)
    BY <2>1, AnswerFrame, <1>0
       DEF InitiatorHello, CompleteIsFinal, AnswerInv, ResponderDone, Running, GetType, NoPacket
  <2>2. CASE InitiatorHelloAck(m)
    BY <2>2, AnswerFrame, <1>0
       DEF InitiatorHelloAck, CompleteIsFinal, AnswerInv, ResponderDone, Running, GetType, NoPacket
  <2>3. CASE InitiatorDH(m)
    BY <2>3, AnswerFrame, <1>0
       DEF InitiatorDH, InvalidPacket, CompleteIsFinal, AnswerInv, ResponderDone, Running,
           GetType, NoPacket
  <2>4. CASE InitiatorConfirmOne(m)
    BY <2>4, AnswerFrame, <1>0
       DEF InitiatorConfirmOne, AfterConfirmOne, InvalidPacket, CompleteIsFinal, AnswerInv,
           ResponderDone, Running, GetType, NoPacket
  <2>5. CASE InitiatorConfirmAck(m) /\ GetType(m) = "Conf2Ack"
    BY <2>5, AnswerFrame, <1>0
       DEF InitiatorConfirmAck, CompleteIsFinal, AnswerInv, ResponderDone, Running, GetType,
           NoPacket
  <2> QED BY <1>5, <2>1, <2>2, <2>3, <2>4, <2>5 DEF Handle
<1> QED BY <1>1, <1>2, <1>3, <1>4, <1>5 DEF LoopStep

(* The steps of the responder.                                             *)
LEMMA AnswerResponder ==
  ASSUME TypeOK, Total, AnswerInv,
         NegotiateStart(R) \/ LoopStep(R)
  PROVE  AnswerInv'
<1> USE TwoRoles, PlainIsNoAnswer
    DEF TypeOK, Total, socketVars, sessionVars, HandlerReturns, SendFreshPacket, Transmit,
        SetState, EndPhase
<1>0. /\ \A m \in network : IsAnswer(m) => ResponderDone
      /\ \A r \in Roles : IsAnswer(lastPacket[r]) => ResponderDone
      /\ phase[R] = "connected" => ResponderDone
  BY DEF AnswerInv, Answered
<1>1. CASE NegotiateStart(R)
  BY <1>1, AnswerFrame DEF NegotiateStart, CompleteIsFinal, AnswerInv, ResponderDone
<1>2. CASE Receive(R)
  <2>1. PICK m \in network : handling' = [handling EXCEPT ![R] = m]
    BY <1>2 DEF Receive
  <2>2. /\ UNCHANGED <<state, lastPacket, network, phase, terminated>>
        /\ handling'[I] = handling[I]
    BY <1>2, <2>1 DEF Receive
  <2>3. state[R] # "HANDSHAKE_COMPLETE"
    BY <1>2 DEF Receive, InLoop
  <2> QED BY <2>2, <2>3, AnswerFrame DEF CompleteIsFinal, AnswerInv, ResponderDone
<1>3. CASE ResendPacket(R)
  BY <1>0, <1>3, AnswerFrame DEF ResendPacket, CompleteIsFinal, AnswerInv, ResponderDone
<1>4. CASE LeaveLoop(R)
  <2>1. phase'[R] = "connected" => ResponderDone
    BY <1>4 DEF LeaveLoop, InLoop, GivesUp, Looping, CompleteIsFinal, AnswerInv, ResponderDone
  <2> QED BY <1>4, <2>1, AnswerFrame DEF LeaveLoop, CompleteIsFinal, AnswerInv, ResponderDone
<1>5. CASE Handle(R)
  <2> DEFINE m == handling[R]
  <2>0. state[R] # "HANDSHAKE_COMPLETE"
    BY <1>5 DEF Handle, AnswerInv, CompleteIsFinal
  <2>1. CASE ResponderHello(m)
    BY <2>0, <2>1, AnswerFrame DEF ResponderHello, CompleteIsFinal, AnswerInv, ResponderDone
  <2>2. CASE ResponderCommit(m)
    BY <2>0, <2>2, AnswerFrame
       DEF ResponderCommit, InvalidPacket, CompleteIsFinal, AnswerInv, ResponderDone
  <2>3. CASE ResponderDH(m)
    BY <2>0, <2>3, AnswerFrame
       DEF ResponderDH, InvalidPacket, CompleteIsFinal, AnswerInv, ResponderDone
  <2>4. CASE ResponderConfirmTwo(m)
    <3>1. CASE InvalidPacket(R)
      BY <2>0, <3>1, AnswerFrame
         DEF InvalidPacket, CompleteIsFinal, AnswerInv, ResponderDone
    <3>2. CASE ~InvalidPacket(R)
      BY <2>4, <3>2, AnswerFrame
         DEF ResponderConfirmTwo, CompleteIsFinal, AnswerInv, ResponderDone
    <3> QED BY <3>1, <3>2
  <2> QED BY <1>5, <2>1, <2>2, <2>3, <2>4 DEF Handle
<1>6. CASE ResponderCache
  BY <1>6, AnswerFrame
     DEF ResponderCache, CacheRetainedSecret, CompleteIsFinal, AnswerInv, ResponderDone
<1> QED BY <1>1, <1>2, <1>3, <1>4, <1>5, <1>6 DEF LoopStep

LEMMA AnswerEnvironment ==
  ASSUME TypeOK, Total, AnswerInv, NEW r \in Roles,
         Terminate(r) \/ Close(r) \/ Crash(r) \/ RelayHangup(r) \/ SendAudio \/ Lose
           \/ UNCHANGED vars
  PROVE  AnswerInv'
<1> USE TwoRoles, PlainIsNoAnswer
    DEF TypeOK, Total, socketVars, sessionVars, CompleteIsFinal, AnswerInv, ResponderDone
<1>1. CASE Terminate(r)
  BY <1>1, AnswerFrame DEF Terminate
<1>2. CASE Close(r)
  BY <1>2, AnswerFrame DEF Close, SetState
<1>3. CASE Crash(r)
  BY <1>3, AnswerFrame DEF Crash, EndPhase, HandlerReturns, Running, GetType, NoPacket
<1>4. CASE RelayHangup(r)
  <2>1. IsAnswer(DeleteSession(r)) => terminated[R]
    BY <1>4 DEF RelayHangup, Other, I, R
  <2> QED BY <1>4, <2>1, AnswerFrame DEF RelayHangup
<1>5. CASE SendAudio
  BY <1>5, AnswerFrame DEF SendAudio, Answered
<1>6. CASE Lose
  BY <1>6, AnswerFrame DEF Lose
<1>7. CASE UNCHANGED vars
  BY <1>7, AnswerFrame DEF vars
<1> QED BY <1>1, <1>2, <1>3, <1>4, <1>5, <1>6, <1>7

(* The initiator completes only after the responder has, unless the        *)
(* responder has hung up, when no answer of an earlier call is under way:  *)
(* whatever passes for a Conf2Ack (HandshakePacket.getType) is sent by a   *)
(* responder that has completed, or by the relay when it has hung up.      *)
THEOREM InitiatorIsLast ==
  ASSUME NoStaleAnswer
  PROVE  Spec => []InitiatorCompletesLast
<1>1. Init => AnswerInv
  <2> SUFFICES ASSUME Init PROVE AnswerInv
    OBVIOUS
  <2>1. CompleteIsFinal
    BY TwoRoles DEF Init, CompleteIsFinal
  <2>2. ~Answered
    BY TwoRoles, PlainIsNoAnswer, NoStaleAnswer
       DEF Init, Answered, NoStaleAnswer, Running, GetType, NoPacket
  <2> QED BY <2>1, <2>2 DEF AnswerInv
<1>2. IInv /\ AnswerInv /\ [Next]_vars => AnswerInv'
  BY TwoRoles, AnswerInitiator, AnswerResponder, AnswerEnvironment DEF IInv, Next
<1>3. AnswerInv => InitiatorCompletesLast
  BY DEF AnswerInv, Answered, ResponderDone, InitiatorCompletesLast
<1> QED BY <1>1, <1>2, <1>3, Invariance, PTL DEF Spec
=============================================================================

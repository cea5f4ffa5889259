---------------------------- MODULE SecureStream ----------------------------
(***************************************************************************)
(* crypto/SecureRtpSocket and crypto/SecureStream: one direction of the    *)
(* SRTP audio of a call.  A packet carries only the low 16 bits of its     *)
(* number; each end extends them to a 64-bit index with a SequenceCounter  *)
(* of its own, and the index selects the keystream.  The MAC covers the    *)
(* 16 bits and not the index: a receiver that extends them wrongly accepts *)
(* the packet and decrypts it to noise.                                    *)
(*                                                                         *)
(* The network reorders, duplicates and loses packets.  A packet is        *)
(* delivered no later than MaxAge packets after it was sent, and the call  *)
(* does not outlive MaxSilence packets sent without one arriving: the      *)
(* other end's RtpSocket disconnects after 60 seconds of silence, which is *)
(* 1500 packets, while Half is 32768.                                      *)
(***************************************************************************)
EXTENDS Integers

CONSTANTS Half,         \* 2^15: half of the range of a short
          MaxAge,       \* how many packets overtake one before it is lost
          MaxSilence,   \* packets sent in a row without one delivered
          MaxPackets    \* packets sent in a behaviour

ASSUME StreamAssumption ==
  /\ Half \in Nat \ {0} /\ MaxAge \in Nat /\ MaxSilence \in Nat
  /\ MaxPackets \in Nat
  /\ MaxAge + MaxSilence < Half

VARIABLES packetSequenceNumber,  \* RtpAudioSender.packetSequenceNumber
          outgoing,              \* curLongId of the sender's SequenceCounter
          incoming,              \* curLongId of the receiver's
          network,               \* packets that may still be delivered
          silence,               \* packets sent since one was delivered
          frame                  \* the last frame given to the audio queue

streamVars == <<packetSequenceNumber, outgoing, incoming, network, silence, frame>>

NoFrame == [sequenceNumber |-> 0, audio |-> "none", payload |-> 0]

StreamInit ==
  /\ packetSequenceNumber = 0
  /\ outgoing = 0
  /\ incoming = 0
  /\ network  = {}
  /\ silence  = 0
  /\ frame    = NoFrame

(* The Java cast (short)n.                                                 *)
Short(n) == ((n + Half) % (2 * Half)) - Half

(* SequenceCounter.convertNext.  The mutant does not extend the number.    *)
ConvertNextShort(curLongId, nextShortId) == nextShortId
ConvertNext(curLongId, nextShortId) ==
  curLongId + Short(nextShortId - curLongId)

(* SecureRtpPacket: the n-th packet, encrypted under an index.  Payload n  *)
(* stands for its audio.                                                   *)
Packet(n, index) == [wire |-> Short(n), keystream |-> index, payload |-> n]

(* RtpAudioSender.go with enough audio queued, then SecureRtpSocket.send.  *)
Send ==
  /\ packetSequenceNumber < MaxPackets
  /\ silence < MaxSilence
  /\ outgoing' = ConvertNext(outgoing, Short(packetSequenceNumber))
  /\ network' = {m \in network : packetSequenceNumber - m.payload <= MaxAge}
                  \cup {Packet(packetSequenceNumber, outgoing')}
  /\ packetSequenceNumber' = packetSequenceNumber + 1
  /\ silence' = silence + 1
  /\ UNCHANGED <<incoming, frame>>

(* StreamCipher.decrypt: AES in counter mode, without a check of its own.  *)
Decrypt(m, index) == IF m.keystream = index THEN "audio" ELSE "noise"

(* What RtpAudioReader.go queues of a packet received under an index.      *)
Frame(m, index) ==
  [sequenceNumber |-> index, audio |-> Decrypt(m, index), payload |-> m.payload]

(* SecureRtpSocket.receive of a packet of this stream, whose MAC verifies, *)
(* and RtpAudioReader.go, which queues the frame.                          *)
Receive(m) ==
  /\ incoming' = ConvertNext(incoming, m.wire)
  /\ frame' = Frame(m, incoming')
  /\ silence' = 0
  /\ UNCHANGED <<packetSequenceNumber, outgoing, network>>

(* A datagram whose MAC does not verify, say a retransmission of the ZRTP  *)
(* handshake, is dropped.  The mutant updates the counter before the check. *)
AfterBadMacUpdated(wire) == ConvertNext(incoming, wire)
AfterBadMac(wire) == incoming

ReceiveForeign(wire) ==
  /\ incoming' = AfterBadMac(wire)
  /\ UNCHANGED <<packetSequenceNumber, outgoing, network, silence, frame>>

StreamNext ==
  \/ Send
  \/ \E m \in network : Receive(m)
  \/ \E wire \in {Short(n) : n \in 0..(2 * Half - 1)} : ReceiveForeign(wire)

StreamSpec == StreamInit /\ [][StreamNext]_streamVars

-----------------------------------------------------------------------------
(* Properties.                                                             *)

Packets == [wire : (-Half)..(Half - 1), keystream : Int, payload : Nat]

StreamTypeOK ==
  /\ packetSequenceNumber \in 0..MaxPackets
  /\ outgoing \in Int
  /\ incoming \in Int
  /\ network \subseteq Packets
  /\ silence \in 0..MaxSilence
  /\ frame \in [sequenceNumber : Int, audio : {"none", "audio", "noise"},
                payload : Nat]

(* Every packet that SecureRtpSocket.receive accepts is decrypted with the *)
(* keystream it was encrypted with and queued under its own number, past   *)
(* any number of wraparounds of the 16 bits and whatever the order of      *)
(* arrival.                                                                *)
AudioIsRecovered ==
  frame.audio # "none" =>
    frame.audio = "audio" /\ frame.sequenceNumber = frame.payload

(* No two packets of a call are encrypted with the same keystream: each    *)
(* index is larger than the ones before (SecureRtpSocket.send).            *)
KeystreamIsFresh ==
  [][\A m \in network' \ network :
       packetSequenceNumber > 0 => m.keystream > outgoing]_streamVars
=============================================================================

----------------------------- MODULE CryptoProofs -----------------------------
(***************************************************************************)
(* What the application keeps in its package crypto, for every value of    *)
(* the constants: the retained secrets of two phones for any number of     *)
(* calls, and the stream of encrypted audio for shorts of any width and    *)
(* calls of any length.  The two share no state.                           *)
(***************************************************************************)
EXTENDS RetainedSecrets, SecureStream, TLAPS

-----------------------------------------------------------------------------
(* The two calculators, run on the two ends of a call over the derivatives *)
(* the DH packets carry, choose the same s1.                               *)

(* The initiator's getS1, applied to the derivatives the responder sends,  *)
(* computes the reference choice.                                          *)
LEMMA InitiatorComputesReference ==
 \A rsi, rsr :
         InitiatorS1(rsi, DerivativesSent("Responder", rsr))
           = ReferenceS1(rsi, rsr)
  BY DEF InitiatorS1, DerivativesSent, SetDerivativeSecret, RandomBytes,
         CalculateDerivatives, CalculateDerivative, NoDerivative, Matches,
         ReferenceS1

(* So does the responder's getS1 on what the initiator sends.              *)
LEMMA ResponderComputesReference ==
 \A rsi, rsr :
         ResponderS1(rsr, DerivativesSent("Initiator", rsi))
           = ReferenceS1(rsi, rsr)
  BY DEF ResponderS1, DerivativesSent, SetDerivativeSecret, RandomBytes,
         CalculateDerivatives, CalculateDerivative, NoDerivative, Matches,
         ReferenceS1

(* Both ends derive the master secret from the same s1, whatever pairs     *)
(* their databases hold (getS1 of both calculators).                       *)
THEOREM S1Agreement ==
 \A rsi, rsr :
         InitiatorS1(rsi, DerivativesSent("Responder", rsr))
           = ResponderS1(rsr, DerivativesSent("Initiator", rsi))
  BY InitiatorComputesReference, ResponderComputesReference

-----------------------------------------------------------------------------
(* The inductive invariant.                                                *)

(* During a call a phone that has stored its secret holds it as RS1; the   *)
(* others hold older ones only.  A row is filled from the left and ordered.*)
RowsOrdered ==
  /\ caller # "none" => calls > 0
  /\ \A p \in Phones :
       /\ rs[p][1] = NoSecret => rs[p][2] = NoSecret
       /\ rs[p][1] # NoSecret /\ rs[p][2] # NoSecret => rs[p][2] < rs[p][1]
       /\ rs[p][1] # NoSecret => rs[p][1] <= calls
       /\ caller # "none" /\ p \in cached => rs[p][1] = calls
       /\ caller # "none" /\ p \notin cached /\ rs[p][1] # NoSecret
            => rs[p][1] < calls

(* How many secrets p has stored since the last call both have stored.     *)
StoredSince(p) ==
  IF caller # "none" /\ p \in cached THEN alone[p] + 1 ELSE alone[p]

SharedKept ==
  shared # 0 => \A p \in Phones :
                  /\ StoredSince(p) = 0 => rs[p][1] = shared
                  /\ StoredSince(p) = 1 => rs[p][2] = shared

(* q has stored the secret n: it still holds it or only newer ones.        *)
HasStored(q, n) ==
  rs[q][1] = n \/ (rs[q][2] # NoSecret /\ n <= rs[q][2])

(* Both secrets of a verified row have a lineage, unless the user compared *)
(* the SAS of the last call stored, which then the peer has stored too:    *)
(* the RS2 without a lineage can no longer be the common secret.           *)
RowsTrusted ==
  \A p \in Phones :
    verified[p] =>
      /\ rs[p][1] \in trusted[p]
      /\ \/ rs[p][2] \in trusted[p] \cup {NoSecret}
         \/ HasStored(Peer(p), rs[p][1])

(* So the secret that gives a verified row its continuity is trusted.      *)
ContinuityTrusted ==
  caller # "none" =>
    \A p \in Phones \ cached :
      verified[p] /\ s1[p] # NoSecret => s1[p] \in trusted[p]

IInv == SecretsTypeOK /\ RowsOrdered /\ SharedKept /\ RowsTrusted /\ ContinuityTrusted

-----------------------------------------------------------------------------
(* Lemmas.                                                                 *)

(* Whoever calls, a phone finds the secret the reference picks, seen from  *)
(* the caller: the calculators of both ends agree (S1Agreement).           *)
LEMMA FindsReference ==
 \A p, c \in Phones : FindS1(p, c) = ReferenceS1(rs[c], rs[Peer(c)])
<1> SUFFICES ASSUME NEW p \in Phones, NEW c \in Phones
             PROVE  FindS1(p, c) = ReferenceS1(rs[c], rs[Peer(c)])
  OBVIOUS
<1>1. CASE p = c
  <2>1. FindS1(p, c) = InitiatorS1(rs[c], DerivativesSent("Responder", rs[Peer(c)]))
    BY <1>1 DEF FindS1, GetS1, RoleOf, Phones, Peer
  <2> QED BY <2>1, InitiatorComputesReference
<1>2. CASE p # c
  <2>1. p = Peer(c) /\ Peer(p) = c
    BY <1>2 DEF Phones, Peer
  <2>2. FindS1(p, c) = ResponderS1(rs[Peer(c)], DerivativesSent("Initiator", rs[c]))
    BY <1>2, <2>1 DEF FindS1, GetS1, RoleOf
  <2> QED BY <2>2, ResponderComputesReference
<1> QED BY <1>1, <1>2

(* The secret a phone finds is one of its own, held by the peer too.       *)
LEMMA FoundIsHeld ==
  ASSUME NEW p \in Phones, NEW c \in Phones, FindS1(p, c) # NoSecret
  PROVE  \A q \in Phones : FindS1(p, c) \in {rs[q][1], rs[q][2]}
<1>1. FindS1(p, c) = ReferenceS1(rs[c], rs[Peer(c)])
  BY FindsReference
<1>2. FindS1(p, c) \in {rs[c][1], rs[c][2]}
  BY <1>1 DEF ReferenceS1
<1>3. FindS1(p, c) \in {rs[Peer(c)][1], rs[Peer(c)][2]}
  BY <1>1 DEF ReferenceS1
<1>4. \A q \in Phones : q = c \/ q = Peer(c)
  BY DEF Phones, Peer
<1> QED BY <1>2, <1>3, <1>4

(* If the two phones hold a common secret, both find one.                  *)
LEMMA CommonIsFound ==
  ASSUME NEW p \in Phones, NEW c \in Phones, NEW n, n # NoSecret,
         \A q \in Phones : n \in {rs[q][1], rs[q][2]}
  PROVE  FindS1(p, c) # NoSecret
<1>1. FindS1(p, c) = ReferenceS1(rs[c], rs[Peer(c)])
  BY FindsReference
<1>2. Peer(c) \in Phones
  BY DEF Phones, Peer
<1> QED BY <1>1, <1>2 DEF ReferenceS1

LEMMA PeerIsPhone == \A p \in Phones : Peer(p) \in Phones /\ Peer(p) # p /\ Peer(Peer(p)) = p
  BY DEF Peer, Phones

(* A verified row is continued by a trusted secret or not at all.          *)
LEMMA FoundIsTrusted ==
  ASSUME SecretsTypeOK, RowsOrdered, RowsTrusted, NEW p \in Phones, NEW c \in Phones,
         verified[p], FindS1(p, c) # NoSecret
  PROVE  FindS1(p, c) \in trusted[p]
<1>1. FindS1(p, c) \in {rs[p][1], rs[p][2]}
  BY FoundIsHeld
<1>2. FindS1(p, c) \in {rs[Peer(p)][1], rs[Peer(p)][2]}
  BY FoundIsHeld, PeerIsPhone
<1>3. rs[p][1] \in trusted[p]
  BY DEF RowsTrusted
<1>4. CASE rs[p][2] \in trusted[p] \cup {NoSecret}
  BY <1>1, <1>3, <1>4
<1>5. CASE rs[Peer(p)][1] = rs[p][1] /\ rs[p][1] # NoSecret
  <2>1. FindS1(p, c) = rs[p][1]
    <3>1. c = p \/ c = Peer(p)
      BY DEF Phones, Peer
    <3> QED BY <1>5, <3>1, FindsReference, PeerIsPhone DEF ReferenceS1
  <2> QED BY <2>1, <1>3
<1>6. CASE rs[Peer(p)][2] # NoSecret /\ rs[p][1] <= rs[Peer(p)][2] /\ rs[p][1] # NoSecret
  <2>1. rs[p][2] # NoSecret => rs[p][2] < rs[p][1]
    BY <1>6 DEF RowsOrdered
  <2>2. rs[Peer(p)][1] # NoSecret /\ rs[Peer(p)][2] < rs[Peer(p)][1]
    BY <1>6, PeerIsPhone DEF RowsOrdered
  <2>3. /\ rs[p][1] \in Stored /\ rs[p][2] \in Stored
        /\ rs[Peer(p)][1] \in Stored /\ rs[Peer(p)][2] \in Stored
    BY PeerIsPhone DEF SecretsTypeOK
  <2>4. \A x \in Stored : x # NoSecret => x \in Nat
    BY SecretsAssumption DEF Stored
  <2>5. rs[p][2] # NoSecret => rs[p][2] \notin {rs[Peer(p)][1], rs[Peer(p)][2]}
    BY <1>6, <2>1, <2>2, <2>3, <2>4
  <2> QED BY <1>1, <1>2, <1>3, <2>5
<1>7. rs[p][1] # NoSecret
  BY <1>3, SecretsAssumption DEF SecretsTypeOK
<1> QED BY <1>4, <1>5, <1>6, <1>7 DEF RowsTrusted, HasStored

-----------------------------------------------------------------------------
(* The invariant is inductive.                                             *)

LEMMA InitIInv == SecretsInit => IInv
  BY SecretsAssumption DEF SecretsInit, IInv, SecretsTypeOK, RowsOrdered, SharedKept, RowsTrusted,
     ContinuityTrusted, Stored, NoSecrets, Phones

LEMMA StartCallIInv ==
  ASSUME IInv, NEW c \in Phones, StartCall(c)
  PROVE  IInv'
<1> USE DEF IInv, StartCall
<1>1. \A p \in Phones : FindS1(p, c) \in Stored
  <2> SUFFICES ASSUME NEW p \in Phones, FindS1(p, c) # NoSecret
               PROVE  FindS1(p, c) \in Stored
    BY DEF Stored
  <2> QED BY FoundIsHeld DEF SecretsTypeOK
<1>2. SecretsTypeOK'
  BY <1>1, SecretsAssumption DEF SecretsTypeOK
<1>3. RowsOrdered'
  <2>1. \A p \in Phones : rs[p][1] \in Stored
    BY DEF SecretsTypeOK
  <2>2. \A x \in Stored : x # NoSecret => x \in Nat
    BY SecretsAssumption DEF Stored
  <2> QED BY <2>1, <2>2 DEF RowsOrdered, SecretsTypeOK
<1>4. SharedKept'
  BY DEF SharedKept, StoredSince
<1>5. RowsTrusted'
  BY DEF RowsTrusted, HasStored
<1>6. ContinuityTrusted'
  BY FoundIsTrusted DEF ContinuityTrusted
<1> QED BY <1>2, <1>3, <1>4, <1>5, <1>6

LEMMA CacheIInv ==
  ASSUME IInv, NEW p \in Phones, Cache(p)
  PROVE  IInv'
<1> USE DEF IInv, Cache
<1>1. \A x \in Stored : x # NoSecret => x \in Nat
  BY SecretsAssumption DEF Stored
<1>2. calls \in Stored /\ calls \in Nat /\ calls # NoSecret
  BY SecretsAssumption DEF SecretsTypeOK, RowsOrdered, Stored
<1>3. \A q \in Phones : rs[q][1] \in Stored /\ rs[q][2] \in Stored
  BY DEF SecretsTypeOK
<1>4. rs'[p][1] = calls /\ rs'[p][2] = rs[p][1]
  BY DEF SecretsTypeOK, Rotate
<1>5. \A q \in Phones : q # p => rs'[q] = rs[q] /\ verified'[q] = verified[q]
                                 /\ trusted'[q] = trusted[q]
  BY DEF SecretsTypeOK
<1>6. verified'[p] => verified[p] /\ s1[p] # NoSecret /\ s1[p] \in trusted[p]
  BY DEF SecretsTypeOK, StaysVerified, ContinuityTrusted
<1>7. SecretsTypeOK'
  <2>1. rs' \in [Phones -> Stored \X Stored]
    BY <1>2, <1>3 DEF SecretsTypeOK, Rotate
  <2>2. verified' \in [Phones -> BOOLEAN]
    BY DEF SecretsTypeOK, StaysVerified
  <2>3. trusted' \in [Phones -> SUBSET (1..MaxCalls)]
    <3>1. calls \in 1..MaxCalls
      BY SecretsAssumption DEF SecretsTypeOK, RowsOrdered
    <3> QED BY <3>1 DEF SecretsTypeOK
  <2> QED BY <2>1, <2>2, <2>3 DEF SecretsTypeOK
<1>8. RowsOrdered'
  BY <1>1, <1>2, <1>3, <1>4, <1>5 DEF RowsOrdered
<1>9. SharedKept'
  <2> SUFFICES ASSUME shared # 0, NEW q \in Phones
               PROVE  (/\ StoredSince(q) = 0 => rs[q][1] = shared
                       /\ StoredSince(q) = 1 => rs[q][2] = shared)'
    BY DEF SharedKept
  <2>1. CASE q = p
    BY <1>4, <2>1 DEF SharedKept, StoredSince, SecretsTypeOK
  <2>2. CASE q # p
    BY <1>5, <2>2 DEF SharedKept, StoredSince
  <2> QED BY <2>1, <2>2
<1>10. \A n \in Nat : HasStored(p, n) => HasStored(p, n)'
  <2>1. rs[p][1] = NoSecret => rs[p][2] = NoSecret
    BY DEF RowsOrdered
  <2>2. rs[p][1] # NoSecret /\ rs[p][2] # NoSecret => rs[p][2] < rs[p][1]
    BY DEF RowsOrdered
  <2> QED BY <1>1, <1>3, <1>4, <2>1, <2>2, SecretsAssumption DEF HasStored
<1>11. RowsTrusted'
  <2> SUFFICES ASSUME NEW q \in Phones, verified'[q]
               PROVE  (/\ rs[q][1] \in trusted[q]
                       /\ \/ rs[q][2] \in trusted[q] \cup {NoSecret}
                          \/ HasStored(Peer(q), rs[q][1]))'
    BY DEF RowsTrusted
  <2>1. CASE q = p
    <3>1. calls \in trusted'[p] /\ trusted[p] \subseteq trusted'[p]
      BY <1>6, <2>1 DEF SecretsTypeOK
    <3>2. rs[p][1] \in trusted[p]
      BY <1>6, <2>1 DEF RowsTrusted
    <3> QED BY <1>4, <2>1, <3>1, <3>2
  <2>2. CASE q # p
    <3>1. Peer(q) = p
      BY <2>2 DEF Phones, Peer
    <3>2. rs[q][1] \in trusted[q] /\ rs[q][1] \in Nat
      BY <1>5, <2>2 DEF RowsTrusted, SecretsTypeOK
    <3>3. HasStored(p, rs[q][1]) => HasStored(p, rs[q][1])'
      <4>1. PICK n : n = rs[q][1]
        OBVIOUS
      <4>2. HasStored(p, n) => HasStored(p, n)'
        BY <1>10, <3>2, <4>1
      <4>3. rs'[q][1] = n
        BY <1>5, <2>2, <4>1
      <4> QED BY <4>1, <4>2, <4>3 DEF HasStored
    <3> QED BY <1>5, <2>2, <3>1, <3>2, <3>3 DEF RowsTrusted
  <2> QED BY <2>1, <2>2
<1>12. ContinuityTrusted'
  BY <1>5 DEF ContinuityTrusted
<1> QED BY <1>7, <1>8, <1>9, <1>11, <1>12

LEMMA ConfirmSasIInv ==
  ASSUME IInv, NEW p \in Phones, ConfirmSas(p)
  PROVE  IInv'
<1> USE DEF IInv, ConfirmSas
<1>1. SecretsTypeOK'
  BY SecretsAssumption DEF SecretsTypeOK, RowsOrdered
<1>2. RowsOrdered' /\ SharedKept'
  BY DEF RowsOrdered, SharedKept, StoredSince
<1>3. rs[p][1] = calls /\ rs[Peer(p)][1] = calls
  BY PeerIsPhone DEF RowsOrdered
<1>4. RowsTrusted'
  <2> SUFFICES ASSUME NEW q \in Phones, verified'[q]
               PROVE  (/\ rs[q][1] \in trusted[q]
                       /\ \/ rs[q][2] \in trusted[q] \cup {NoSecret}
                          \/ HasStored(Peer(q), rs[q][1]))'
    BY DEF RowsTrusted
  <2>1. CASE q = p
    BY <1>3, <2>1 DEF SecretsTypeOK, HasStored
  <2>2. CASE q # p
    BY <2>2 DEF SecretsTypeOK, RowsTrusted, HasStored
  <2> QED BY <2>1, <2>2
<1>5. ContinuityTrusted'
  BY DEF ContinuityTrusted
<1> QED BY <1>1, <1>2, <1>4, <1>5

LEMMA EndCallIInv == IInv /\ EndCall => IInv'
<1> SUFFICES ASSUME IInv, EndCall PROVE IInv'
  OBVIOUS
<1> USE DEF IInv, EndCall
<1>1. SecretsTypeOK'
  BY SecretsAssumption DEF SecretsTypeOK
<1>2. RowsOrdered' /\ RowsTrusted' /\ ContinuityTrusted'
  BY DEF RowsOrdered, RowsTrusted, HasStored, ContinuityTrusted
<1>3. SharedKept'
  BY DEF SharedKept, StoredSince, RowsOrdered, SecretsTypeOK
<1> QED BY <1>1, <1>2, <1>3

LEMMA ReinstallIInv == IInv /\ Reinstall => IInv'
  BY SecretsAssumption DEF IInv, Reinstall, SecretsTypeOK, RowsOrdered, SharedKept,
     RowsTrusted, ContinuityTrusted, Stored, NoSecrets, StoredSince

LEMMA NextIInv == IInv /\ [SecretsNext]_secretsVars => IInv'
<1> SUFFICES ASSUME IInv, [SecretsNext]_secretsVars PROVE IInv'
  OBVIOUS
<1>1. CASE UNCHANGED secretsVars
  BY <1>1 DEF secretsVars, IInv, SecretsTypeOK, RowsOrdered, SharedKept, StoredSince,
     RowsTrusted, HasStored, ContinuityTrusted
<1> QED BY <1>1, StartCallIInv, CacheIInv, ConfirmSasIInv, EndCallIInv,
        ReinstallIInv DEF SecretsNext

LEMMA Invariance == SecretsSpec => []IInv
  BY InitIInv, NextIInv, PTL DEF SecretsSpec

-----------------------------------------------------------------------------
(* A row holds two secrets of earlier calls, or none, after any number of  *)
(* calls, cut off or not (RetainedSecretsDatabase).                        *)
THEOREM SecretsTyped == SecretsSpec => []SecretsTypeOK
<1>1. IInv => SecretsTypeOK
  BY DEF IInv
<1> QED BY <1>1, Invariance, PTL

(* Two phones that have stored a call together find a common secret in the *)
(* next one, however many calls were cut off in between, unless one of     *)
(* them stored two secrets the other did not (setRetainedSecret).          *)
THEOREM SecretSurvives == SecretsSpec => []SharedSecretSurvives
<1>1. IInv => SharedSecretSurvives
  <2> SUFFICES ASSUME IInv, caller = "none", shared # 0,
                      \A p \in Phones : alone[p] <= 1,
                      NEW p \in Phones, NEW c \in Phones
               PROVE  FindS1(p, c) # NoSecret
    BY DEF SharedSecretSurvives
  <2>1. shared # NoSecret
    BY SecretsAssumption DEF IInv, SecretsTypeOK
  <2>2. \A q \in Phones : shared \in {rs[q][1], rs[q][2]}
    BY DEF IInv, SharedKept, StoredSince, SecretsTypeOK
  <2> QED BY <2>1, <2>2, CommonIsFound
<1> QED BY <1>1, Invariance, PTL

(* A row reported as verified always goes back, secret by secret, to a     *)
(* call whose SAS the user compared (setRetainedSecret, setVerified).      *)
THEOREM VerifiedRowsAreEarned == SecretsSpec => []VerifiedHasLineage
<1>1. IInv => VerifiedHasLineage
  BY DEF IInv, RowsTrusted, VerifiedHasLineage
<1> QED BY <1>1, Invariance, PTL

-----------------------------------------------------------------------------
(* The stream: arithmetic of the short counter.                            *)

(* A multiple of M strictly between -M and M is zero.                      *)
LEMMA SmallMultiple ==
  ASSUME NEW M \in Nat \ {0}, NEW k \in Int, -M < k * M, k * M < M
  PROVE  k = 0
<1>1. CASE k >= 1
  <2>1. k * M >= M
    BY <1>1, SMT
  <2> QED BY <2>1
<1>2. CASE k <= -1
  <2>1. k * M <= -M
    BY <1>2, SMT
  <2> QED BY <2>1
<1> QED BY <1>1, <1>2

(* The cast keeps the value up to a multiple of 2 * Half.                  *)
LEMMA ShortIsCongruent ==
  ASSUME NEW n \in Int
  PROVE  /\ Short(n) \in Int
         /\ -Half <= Short(n) /\ Short(n) < Half
         /\ \E k \in Int : Short(n) = n - k * (2 * Half)
<1>1. PICK M : M = 2 * Half
  OBVIOUS
<1>2. M \in Nat \ {0}
  BY <1>1, StreamAssumption
<1>3. PICK x : x = n + Half
  OBVIOUS
<1>4. x \in Int
  BY <1>3, StreamAssumption
<1>5. x % M \in 0..(M - 1)
  BY <1>2, <1>4
<1>6. x = M * (x \div M) + (x % M) /\ x \div M \in Int
  BY <1>2, <1>4
<1>7. Short(n) = (x % M) - Half
  BY <1>1, <1>3 DEF Short
<1>8. Short(n) = n - (x \div M) * M
  <2>1. PICK q : q = x \div M
    OBVIOUS
  <2>2. q \in Int /\ M * q = q * M
    BY <1>2, <1>6, <2>1
  <2>3. PICK y : y = q * M /\ y \in Int
    BY <1>2, <2>2
  <2>4. x = y + (x % M)
    BY <1>6, <2>1, <2>2, <2>3
  <2>5. Short(n) = n - y
    BY <1>3, <1>5, <1>7, <2>3, <2>4, StreamAssumption
  <2> QED BY <2>1, <2>3, <2>5
<1>9. Short(n) \in Int /\ -Half <= Short(n) /\ Short(n) < Half
  BY <1>1, <1>5, <1>7, StreamAssumption
<1>10. \E k \in Int : Short(n) = n - k * (2 * Half)
  BY <1>1, <1>6, <1>8, Zenon
<1> QED BY <1>9, <1>10

(* convertNext finds the number n from its low bits when the last number   *)
(* seen is less than half the range away.                                  *)
LEMMA ConvertNextIsExact ==
  ASSUME NEW n \in Int, NEW cur \in Int, -Half <= n - cur, n - cur < Half
  PROVE  ConvertNext(cur, Short(n)) = n
<1>1. PICK M : M = 2 * Half
  OBVIOUS
<1>2. M \in Nat \ {0}
  BY <1>1, StreamAssumption
<1>3. PICK k1 \in Int : Short(n) = n - k1 * M /\ Short(n) \in Int
  BY <1>1, ShortIsCongruent
<1>4. PICK x \in Int : x = Short(n) - cur
  BY <1>3
<1>5. PICK k2 \in Int : Short(x) = x - k2 * M
  BY <1>1, ShortIsCongruent
<1>6. Short(x) \in Int /\ -Half <= Short(x) /\ Short(x) < Half
  BY ShortIsCongruent
<1>7. PICK a \in Int : a = k1 * M
  BY <1>2
<1>8. PICK b \in Int : b = k2 * M
  BY <1>2
<1>9. a + b = (k1 + k2) * M
  BY <1>2, <1>7, <1>8
<1>10. a + b = (n - cur) - Short(x)
  BY <1>3, <1>4, <1>5, <1>6, <1>7, <1>8
<1>11. -M < a + b /\ a + b < M
  BY <1>1, <1>6, <1>10, StreamAssumption
<1>12. k1 + k2 = 0
  BY <1>2, <1>9, <1>11, SmallMultiple
<1>13. a + b = 0
  BY <1>2, <1>9, <1>12
<1> QED BY <1>4, <1>6, <1>10, <1>13 DEF ConvertNext

-----------------------------------------------------------------------------
(* The inductive invariant.                                                *)

(* The sender's counter is the number of the last packet.                  *)
SenderInStep ==
  outgoing = IF packetSequenceNumber = 0 THEN 0 ELSE packetSequenceNumber - 1

(* A packet in transit is young and carries its number's low bits.         *)
InTransit ==
  \A m \in network :
    /\ m.keystream = m.payload
    /\ m.wire = Short(m.payload)
    /\ packetSequenceNumber - 1 - MaxAge <= m.payload
    /\ m.payload <= packetSequenceNumber - 1

(* The receiver's counter is behind by no more than the silence and the    *)
(* age of the last packet delivered.                                       *)
ReceiverClose ==
  /\ packetSequenceNumber - silence - 1 - MaxAge <= incoming
  /\ incoming <= outgoing

StreamIInv == StreamTypeOK /\ SenderInStep /\ InTransit /\ ReceiverClose /\ AudioIsRecovered

LEMMA StreamBegins == StreamInit => StreamIInv
  BY StreamAssumption DEF StreamInit, StreamIInv, StreamTypeOK, SenderInStep, InTransit,
     ReceiverClose, AudioIsRecovered, NoFrame, Packets

(* The sender's counter moves to the number it sends.                      *)
LEMMA SendUsesNumber ==
  ASSUME StreamIInv, Send
  PROVE  outgoing' = packetSequenceNumber
<1>1. packetSequenceNumber \in Int /\ outgoing \in Int
  BY StreamAssumption DEF StreamIInv, StreamTypeOK
<1>2. -Half <= packetSequenceNumber - outgoing /\ packetSequenceNumber - outgoing < Half
  <2>1. packetSequenceNumber # 0 => Half >= 1 + 1
    BY StreamAssumption DEF StreamIInv, StreamTypeOK, Send
  <2> QED BY <1>1, <2>1, StreamAssumption DEF StreamIInv, StreamTypeOK, SenderInStep
<1> QED BY <1>1, <1>2, ConvertNextIsExact DEF Send

LEMMA SendIInv ==
  ASSUME StreamIInv, Send
  PROVE  StreamIInv'
<1> USE DEF StreamIInv, Send, Packet
<1>1. outgoing' = packetSequenceNumber
  BY SendUsesNumber
<1>2. packetSequenceNumber \in Nat /\ packetSequenceNumber' = packetSequenceNumber + 1
  BY StreamAssumption DEF StreamTypeOK
<1>3. Short(packetSequenceNumber) \in (-Half)..(Half - 1)
  BY <1>2, ShortIsCongruent, StreamAssumption
<1>4. StreamTypeOK'
  <2>1. network' \subseteq Packets
    BY <1>1, <1>2, <1>3 DEF StreamTypeOK, Packets
  <2> QED BY <1>1, <1>2, <2>1, StreamAssumption DEF StreamTypeOK
<1>5. SenderInStep'
  BY <1>1, <1>2 DEF SenderInStep
<1>6. InTransit'
  <2> SUFFICES ASSUME NEW m \in network'
               PROVE  /\ m.keystream = m.payload
                      /\ m.wire = Short(m.payload)
                      /\ packetSequenceNumber - MaxAge <= m.payload
                      /\ m.payload <= packetSequenceNumber
    BY <1>2, StreamAssumption DEF InTransit
  <2>1. CASE m \in network /\ packetSequenceNumber - m.payload <= MaxAge
    <3>1. m.payload \in Nat
      BY <2>1 DEF StreamTypeOK, Packets
    <3> QED BY <1>2, <2>1, <3>1, StreamAssumption DEF InTransit
  <2>2. CASE m = [wire |-> Short(packetSequenceNumber), keystream |-> outgoing',
                  payload |-> packetSequenceNumber]
    BY <1>1, <1>2, <2>2, StreamAssumption
  <2> QED BY <2>1, <2>2
<1>7. ReceiverClose'
  BY <1>1, <1>2, StreamAssumption DEF StreamTypeOK, SenderInStep, ReceiverClose
<1>8. AudioIsRecovered'
  BY DEF AudioIsRecovered
<1> QED BY <1>4, <1>5, <1>6, <1>7, <1>8

(* The receiver finds the number of any packet in transit.                 *)
LEMMA ReceiveFindsNumber ==
  ASSUME StreamIInv, NEW m \in network
  PROVE  ConvertNext(incoming, m.wire) = m.payload
<1>1. m.payload \in Nat /\ m.wire = Short(m.payload) /\ incoming \in Int
  BY DEF StreamIInv, StreamTypeOK, Packets, InTransit
<1>2. packetSequenceNumber \in Int /\ packetSequenceNumber # 0
  BY <1>1, StreamAssumption DEF StreamIInv, StreamTypeOK, InTransit
<1>3. -Half <= m.payload - incoming /\ m.payload - incoming < Half
  BY <1>1, <1>2, StreamAssumption
     DEF StreamIInv, StreamTypeOK, InTransit, ReceiverClose, SenderInStep
<1> QED BY <1>1, <1>3, ConvertNextIsExact

LEMMA ReceiveIInv ==
  ASSUME StreamIInv, NEW m \in network, Receive(m)
  PROVE  StreamIInv'
<1> USE DEF StreamIInv, Receive, Frame
<1>1. incoming' = m.payload
  BY ReceiveFindsNumber
<1>2. m.payload \in Nat /\ m.keystream = m.payload
  BY DEF StreamTypeOK, Packets, InTransit
<1>3. frame' = [sequenceNumber |-> m.payload, audio |-> "audio",
                payload |-> m.payload]
  BY <1>1, <1>2 DEF Decrypt
<1>4. StreamTypeOK'
  BY <1>1, <1>2, <1>3, StreamAssumption DEF StreamTypeOK
<1>5. SenderInStep' /\ InTransit'
  BY DEF SenderInStep, InTransit
<1>6. ReceiverClose'
  BY <1>1, <1>2, StreamAssumption DEF StreamTypeOK, SenderInStep, InTransit, ReceiverClose
<1>7. AudioIsRecovered'
  BY <1>3 DEF AudioIsRecovered
<1> QED BY <1>4, <1>5, <1>6, <1>7

LEMMA StreamStep == StreamIInv /\ [StreamNext]_streamVars => StreamIInv'
<1> SUFFICES ASSUME StreamIInv, [StreamNext]_streamVars PROVE StreamIInv'
  OBVIOUS
<1>1. ASSUME NEW wire, ReceiveForeign(wire) PROVE StreamIInv'
  BY <1>1 DEF ReceiveForeign, AfterBadMac, StreamIInv, StreamTypeOK, SenderInStep,
     InTransit, ReceiverClose, AudioIsRecovered
<1>2. CASE UNCHANGED streamVars
  BY <1>2 DEF streamVars, StreamIInv, StreamTypeOK, SenderInStep, InTransit, ReceiverClose,
     AudioIsRecovered
<1> QED BY <1>1, <1>2, SendIInv, ReceiveIInv DEF StreamNext

LEMMA StreamHolds == StreamSpec => []StreamIInv
  BY StreamBegins, StreamStep, PTL DEF StreamSpec

-----------------------------------------------------------------------------
(* The shorts on the wire stay in range and every frame queued is whole,   *)
(* however long the stream (SequenceCounter, RtpPacket).                   *)
THEOREM StreamTyped == StreamSpec => []StreamTypeOK
<1>1. StreamIInv => StreamTypeOK
  BY DEF StreamIInv
<1> QED BY <1>1, StreamHolds, PTL

(* SecureRtpSocket.receive decrypts every packet it accepts to its audio.  *)
THEOREM AudioRecovered == StreamSpec => []AudioIsRecovered
<1>1. StreamIInv => AudioIsRecovered
  BY DEF StreamIInv
<1> QED BY <1>1, StreamHolds, PTL

(* SecureRtpSocket.send never uses a keystream twice.                      *)
THEOREM KeystreamNotReused == StreamSpec => KeystreamIsFresh
<1>1. StreamIInv /\ [StreamNext]_streamVars =>
        [\A m \in network' \ network :
           packetSequenceNumber > 0 => m.keystream > outgoing]_streamVars
  <2> SUFFICES ASSUME StreamIInv, StreamNext, NEW m \in network' \ network,
                      packetSequenceNumber > 0
               PROVE  m.keystream > outgoing
    BY DEF streamVars
  <2>1. Send
    BY DEF StreamNext, Receive, ReceiveForeign
  <2>2. m.keystream = packetSequenceNumber
    BY <2>1, SendUsesNumber DEF Send, Packet
  <2>3. outgoing = packetSequenceNumber - 1 /\ packetSequenceNumber \in Nat
    BY StreamAssumption DEF StreamIInv, StreamTypeOK, SenderInStep
  <2> QED BY <2>2, <2>3
<1> QED BY <1>1, StreamHolds, PTL DEF StreamSpec, KeystreamIsFresh
=============================================================================

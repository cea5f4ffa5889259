--------------------------- MODULE MCZrtpHandshake ---------------------------
(* Small instances of ZrtpHandshake.                                       *)
EXTENDS ZrtpHandshake

CONSTANTS chainI, chainR, oldI, oldR, s1, s2

MCChain == [r \in Roles |-> IF r = I THEN chainI ELSE chainR]

(* The packets of an earlier call between the same phones, in which they   *)
(* shared the secret s1, that the network may still deliver.               *)
OldHello(r) == [type |-> "Hello", to |-> Other(r),
                chain |-> IF r = I THEN oldI ELSE oldR]
OldDH(r) == [type |-> IF r = I THEN "DHPart2" ELSE "DHPart1", to |-> Other(r),
             chain |-> IF r = I THEN oldI ELSE oldR,
             ids |-> DerivativesSent(r, <<s1, NoSecret>>)]
OldCommit == [type |-> "Commit", to |-> R, chain |-> oldI,
              hvi |-> <<OldDH(I), OldHello(R)>>]
OldMaster == MasterSecret(OldHello(R), OldCommit, OldDH(R), OldDH(I), s1)
OldConfirm(r) == [type |-> IF r = I THEN "Confirm2" ELSE "Confirm1",
                  to |-> Other(r), chain |-> IF r = I THEN oldI ELSE oldR,
                  key |-> OldMaster]
MCStale == {OldHello(I), OldHello(R), OldCommit, OldDH(I), OldDH(R),
            OldConfirm(I), OldConfirm(R), ConfAck}
MCNoStale == {}
=============================================================================

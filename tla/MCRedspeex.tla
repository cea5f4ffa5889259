------------------------------ MODULE MCRedspeex -----------------------------
(***************************************************************************)
(* A small instance of the parts of the native library (libredspeex) that  *)
(* keep a state: the bit packer, the voice codec and its searches, the     *)
(* time scaler, the packet loss concealer and the play-out buffer.  They   *)
(* share no state, so each behaviour runs one of them, chosen at the start.*)
(***************************************************************************)
EXTENDS BitStream, SpeexCodec, TimeScale, PacketLossConcealer, Playout,
        PitchSearch, CodebookSearch

VARIABLE part

rvars == <<part, bvars, cvars, tvars, pvars, yvars, svars, kvars>>

MCFields == {<<1, 0, 1>>, <<0, 1, 1, 1, 0>>}
MCBufferLengths == {<<0, 0>>, <<2, 2>>, <<0, 5>>}
MCRawCorrs == {-11, -9, 0, 6}
MCCodeEnergy == <<1, 2, 1>>
MCCorrs == {-2, 1}

\* A part that does not run waits in one of its initial states.  Variable bit
\* rate does what voice activity detection does; both are on only by a request.
Init ==
  /\ part \in {"bits", "codec", "timescale", "plc", "playout", "pitch", "codebook"}
  /\ BitStreamInit /\ CodecInit /\ TimeScaleInit /\ PlcInit /\ PlayoutInit
  /\ PitchInit /\ SearchInit
  /\ part # "bits" => use = "stream" /\ w.buf_size = 1
  /\ part # "codec" => framing = "app"
  /\ ~(enc.vbr /\ enc.vad)
  /\ part # "playout" => conf.max_length = 0
  /\ part # "codebook" => ~have_sign /\ N = 1

Next ==
  \/ part = "bits" /\ BitStreamNext /\ UNCHANGED <<part, cvars, tvars, pvars, yvars, svars, kvars>>
  \/ part = "codec" /\ CodecNext /\ UNCHANGED <<part, bvars, tvars, pvars, yvars, svars, kvars>>
  \/ part = "timescale" /\ TimeScaleNext /\ UNCHANGED <<part, bvars, cvars, pvars, yvars, svars, kvars>>
  \/ part = "plc" /\ PlcNext /\ UNCHANGED <<part, bvars, cvars, tvars, yvars, svars, kvars>>
  \/ part = "playout" /\ PlayoutNext /\ UNCHANGED <<part, bvars, cvars, tvars, pvars, svars, kvars>>
  \/ part = "pitch" /\ PitchNext /\ UNCHANGED <<part, bvars, cvars, tvars, pvars, yvars, kvars>>
  \/ part = "codebook" /\ SearchNext /\ UNCHANGED <<part, bvars, cvars, tvars, pvars, yvars, svars>>

\* The loops of speex_bits_insert_terminator and of time_scale wait for nobody.
Fairness ==
  /\ WF_bvars(TerminatorBit) /\ WF_bvars(EndWrite)
  /\ WF_tvars(CopyBuffer) /\ WF_tvars(CopyRest)
  /\ WF_tvars(\E p \in Periods : DropPeriod(p))
  /\ WF_tvars(\E p \in Periods : InsertPeriod(p))

Spec == Init /\ [][Next]_rvars /\ Fairness
=============================================================================

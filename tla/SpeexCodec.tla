----------------------------- MODULE SpeexCodec ------------------------------
(***************************************************************************)
(* The voice codec: an encoder (jni/nb_celp.c, jni/sb_celp.c), the packet  *)
(* it writes with jni/bits.c, a link that may lose the packet, and a       *)
(* decoder.  Encoder and decoder are wideband or narrowband independently  *)
(* of each other, which the format allows.                                 *)
(*                                                                         *)
(* framing "lib": frames are packed one behind the other and written once, *)
(* and the caller may use every control request.  framing "app": what      *)
(* jni/SpeexCodec.cpp does, one narrowband frame per write, the writes of  *)
(* a packet concatenated by the Java caller, no request after openSpeex.   *)
(*                                                                         *)
(* Signal processing is left out: what the analysis of a frame finds       *)
(* (silence, a spectral jump, the submode variable bit rate asks for) is   *)
(* an input, and the fields of a frame are all ones, then all zeros in the *)
(* next one.  Submodes the decoder only writes are not kept in its state.  *)
(***************************************************************************)
EXTENDS SpeexBits, SpeexModes

CONSTANTS Qualities,       \* qualities the caller may set
          VbrModes,        \* narrowband submodes variable bit rate may ask for
          HighModes,       \* high-band submodes variable bit rate may ask for
          VbrMaxes,        \* limits on the bit rate; 0 is no limit
          DtxRefresh,      \* 20 in nb_celp.c: silent frames before a refresh
          FramesPerPacket, \* frames the caller puts into a packet
          MaxLost,         \* bound on count_lost
          MaxRequests      \* bound on the requests after the first packet

ASSUME SpeexCodecAssumption ==
  /\ Qualities \subseteq 0 .. 10
  /\ VbrModes \subseteq 1 .. 8
  /\ HighModes \subseteq 0 .. 4
  /\ VbrMaxes \subseteq Nat
  /\ DtxRefresh \in Nat /\ FramesPerPacket \in Nat \ {0}
  /\ MaxLost \in Nat \ {0} /\ MaxRequests \in Nat

VARIABLES framing,   \* "app" or "lib"
          enc,       \* the encoder
          dec,       \* the decoder
          out,       \* the encoder's SpeexBits
          wire,      \* the packet under way
          inp,       \* the decoder's SpeexBits
          phase,     \* "encode", "wire", "decode" or "done"
          ret,       \* what the last call of speex_decode returned
          sent,      \* the frames of the packet, as the encoder knows them
          got,       \* the frames decoded of this packet
          requests,  \* requests since the encoder was opened
          agree      \* "yes", or why the two sides may differ: "lost", "no"

cvars == <<framing, enc, dec, out, wire, inp, phase, ret, sent, got, requests, agree>>

MAX_DEC_FRAMES == 10
\* Length of the array the Java callers pass to decode().
DecodeArray == 1024
\* Bytes speex_bits_write may write: enc_frame_size in SpeexCodec.cpp.
MaxBytes == frameSize

-----------------------------------------------------------------------------
(* The encoder                                                              *)

nb_encoder_init ==
  [submodeID |-> 5, submodeSelect |-> 5, dtx_count |-> 0, first |-> TRUE]

nb_decoder_init == [first |-> TRUE, count_lost |-> 0, dtx_enabled |-> FALSE]

\* The high band starts with submode 3, its low band with quality 9.
sb_encoder_init == [submodeID |-> 3, submodeSelect |-> 3, first |-> TRUE]
sb_decoder_init == [first |-> TRUE]

\* SPEEX_SET_MODE, and the two maps of SPEEX_SET_QUALITY.
SetMode(low, mode) == [low EXCEPT !.submodeID = mode, !.submodeSelect = mode]

SetEncoderQuality(e, q) ==
  IF e.wide
  THEN [e EXCEPT !.low = SetMode(@, wb_low_quality_map[q + 1]),
                 !.high = SetMode(@, wb_quality_map[q + 1])]
  ELSE [e EXCEPT !.low = SetMode(@, SetQuality(q))]

\* openSpeex: narrowband, no variable bit rate, quality 3.
openSpeex(e) == SetEncoderQuality([e EXCEPT !.vbr = FALSE], 3)

\* Silence: a frame that describes the noise, then null frames; again a noise
\* frame when the spectrum jumped, without DTX, or when it is time to refresh.
NoiseFrame(e, jump) ==
  e.low.dtx_count = 0 \/ jump \/ ~e.dtx \/ e.low.dtx_count > DtxRefresh

Silence(e, jump) ==
  IF NoiseFrame(e, jump)
  THEN [mode |-> 1, dtx_count |-> 1]
  ELSE [mode |-> 0, dtx_count |-> e.low.dtx_count + 1]

\* Variable bit rate selects the submode for good, up to the limit.
VbrMode(e, a) ==
  LET c == IF a.silent THEN Silence(e, a.jump) ELSE [mode |-> a.mode, dtx_count |-> 0]
      mode == IF e.vbr_max > 0 /\ GetBitrate(c.mode) > e.vbr_max
              THEN SetBitrate(e.vbr_max) ELSE c.mode
  IN SetMode([e.low EXCEPT !.dtx_count = c.dtx_count], mode)

\* Voice activity detection selects it for this frame only.
VadMode(e, a) ==
  LET c == IF a.silent THEN Silence(e, a.jump)
           ELSE [mode |-> e.low.submodeSelect, dtx_count |-> 0]
  IN [e.low EXCEPT !.submodeID = c.mode, !.dtx_count = c.dtx_count]

AnalysisOn(e) == e.vbr \/ e.vad

LowMode(e, a) == CASE e.vbr -> VbrMode(e, a)
                   [] ~e.vbr /\ e.vad -> VadMode(e, a)
                   [] OTHER -> e.low

\* The high band follows; with a null frame below it keeps its submode.
HighMode(e, low, a) ==
  CASE low.submodeID = 0 \/ ~AnalysisOn(e) -> e.high
    [] low.submodeID # 0 /\ e.vbr -> SetMode(e.high, a.high)
    [] OTHER -> [e.high EXCEPT !.submodeID = IF a.silent THEN 1 ELSE e.high.submodeSelect]

\* Mutant: the field does not depend on the analysis.
ExtraAlways(low) == IF low.submodeID = 1 THEN BitsOf(15, 4) ELSE <<>>

\* The last field of submode 1 tells the decoder that this is silence.
Extra(low) ==
  IF low.submodeID = 1 THEN BitsOf(IF low.dtx_count # 0 THEN 15 ELSE 0, 4) ELSE <<>>

Payload(n, p) == [i \in 1 .. n |-> p]

\* nb_encode: a zero, the submode, the fields; a null frame has none.
LowBits(low, p) ==
  BitsOf(0, 1) \o BitsOf(low.submodeID, NB_SUBMODE_BITS)
  \o (IF low.submodeID = 0 THEN <<>>
      ELSE Payload(EncodedFields(nb_submodes[low.submodeID]), p)) \o Extra(low)

\* The submode the high band really sends.
LayerMode(low, high) == IF low.submodeID = 0 THEN 0 ELSE high.submodeID

\* sb_encode: a one, the submode, the fields.
HighBits(mode, p) ==
  BitsOf(1, 1) \o BitsOf(mode, SB_SUBMODE_BITS)
  \o (IF mode = 0 THEN <<>> ELSE Payload(EncodedLayer(wb_submodes[mode]), p))

FrameBits(e, low, high, p) ==
  LowBits(low, p) \o (IF e.wide THEN HighBits(LayerMode(low, high), p) ELSE <<>>)

\* A frame as the encoder knows it; fresh: it starts the interpolation anew.
Frame(e, low, high, a) ==
  [low |-> low.submodeID, high |-> IF e.wide THEN LayerMode(low, high) ELSE 0,
   fresh |-> e.low.first, freshHigh |-> e.high.first,
   silent |-> a.silent, analysed |-> AnalysisOn(e)]

\* What the analysis of a frame may find.
Analyses(e) ==
  [silent : IF AnalysisOn(e) THEN BOOLEAN ELSE {FALSE},
   jump : IF AnalysisOn(e) THEN BOOLEAN ELSE {FALSE},
   mode : IF e.vbr THEN VbrModes ELSE {1}, high : IF e.vbr /\ e.wide THEN HighModes ELSE {0}]

\* Mutant: the low band goes on with the old spectrum behind a null frame.
AfterFrameGoesOn(e, low, high) ==
  [e EXCEPT !.low = [low EXCEPT !.first = FALSE],
            !.high = IF e.wide THEN [high EXCEPT !.first = (LayerMode(low, high) = 0)] ELSE @]

\* A null frame makes the next one the first of a new stream.
AfterFrame(e, low, high) ==
  [e EXCEPT !.low = [low EXCEPT !.first = (low.submodeID = 0)],
            !.high = IF e.wide THEN [high EXCEPT !.first = (LayerMode(low, high) = 0)] ELSE @]

\* speex_encode_int; SpeexCodec.cpp resets the bits, encodes and writes.
EncodeFrame(a) ==
  LET low == LowMode(enc, a)
      high == HighMode(enc, low, a)
      frame == FrameBits(enc, low, high, (Len(sent) + 1) % 2)
      alone == speex_bits_write(PackField(speex_bits_reset(out), frame), MaxBytes)
  IN /\ phase = "encode" /\ Len(sent) < FramesPerPacket
     /\ enc' = AfterFrame(enc, low, high)
     /\ IF framing = "app"
        THEN out' = alone.bits /\ wire' = wire \o alone.packet
        ELSE out' = PackField(out, frame) /\ UNCHANGED wire
     /\ sent' = Append(sent, Frame(enc, low, high, a))
     /\ UNCHANGED <<framing, dec, inp, phase, ret, got, agree, requests>>

\* speex_encode_stereo: an in-band message in front of the frames.
EncodeStereo ==
  /\ phase = "encode" /\ framing = "lib" /\ sent = <<>> /\ out.nbBits = 0
  /\ out' = PackField(out, BitsOf(14, 5) \o BitsOf(9, 4) \o Payload(1 + 5 + 2, 1))
  /\ UNCHANGED <<framing, enc, dec, wire, inp, phase, ret, sent, got, agree, requests>>

\* The packet leaves; an application packet was written frame by frame.
Send ==
  /\ phase = "encode" /\ Len(sent) = FramesPerPacket
  /\ IF framing = "lib"
     THEN LET done == speex_bits_write(out, MaxBytes * FramesPerPacket)
          IN wire' = done.packet /\ out' = speex_bits_reset(done.bits)
     ELSE UNCHANGED <<wire, out>>
  /\ phase' = "wire"
  /\ UNCHANGED <<framing, enc, dec, inp, ret, sent, got, agree, requests>>

\* speex_encoder_ctl between two packets.
Idle == phase = "encode" /\ framing = "lib" /\ sent = <<>> /\ out.nbBits = 0

Request(e) ==
  /\ Idle /\ requests < MaxRequests
  /\ e # enc /\ enc' = e
  /\ requests' = requests + 1
  /\ UNCHANGED <<framing, dec, out, wire, inp, phase, ret, sent, got, agree>>

SetEncQuality(q) == Request(SetEncoderQuality(enc, q))
SetVbr(on) == Request([enc EXCEPT !.vbr = on])
SetVad(on) == Request([enc EXCEPT !.vad = on])
SetDtx(on) == Request([enc EXCEPT !.dtx = on])

\* SPEEX_RESET_STATE on both sides: the encoder starts a new stream (wideband
\* only in its high band), the decoder clears its filters and goes on with the
\* old one.
ResetState ==
  /\ Idle /\ requests < MaxRequests
  /\ requests' = requests + 1
  /\ enc' = IF enc.wide THEN [enc EXCEPT !.high.first = TRUE] ELSE [enc EXCEPT !.low.first = TRUE]
  /\ agree' = "no"
  /\ UNCHANGED <<framing, dec, out, wire, inp, phase, ret, sent, got>>

-----------------------------------------------------------------------------
(* The decoder                                                              *)

\* Behind the wideband bit: the submode says how far the layer reaches.
SkipLayer(b) ==
  speex_bits_advance(Advanced(b, SB_SUBMODE_BITS),
                     wb_skip_table[Unpacked(b, SB_SUBMODE_BITS)] - (SB_SUBMODE_BITS + 1))

\* One pass of the search for a narrowband block: up to two layers are skipped.
Search(b) ==
  LET wide == Unpacked(b, 1) = 1
      b1 == Advanced(b, 1)
      s1 == IF wide THEN SkipLayer(b1) ELSE b1
      wide2 == wide /\ Unpacked(s1, 1) = 1
      b2 == Advanced(s1, 1)
      s2 == IF wide2 THEN SkipLayer(b2) ELSE b2
      wide3 == wide2 /\ Unpacked(s2, 1) = 1
      at == IF ~wide THEN b1 ELSE IF ~wide2 THEN b2 ELSE Advanced(s2, 1)
      m == Unpacked(at, 4)
      code == CASE speex_bits_remaining(b) < 5 -> -1
                [] wide /\ speex_bits_remaining(s1) < 5 -> -1
                [] wide3 -> -2
                [] speex_bits_remaining(at) < 4 -> -1
                [] m = 15 -> -1
                [] m \in 9 .. 12 -> -2
                [] OTHER -> 0
  IN [ret |-> code, m |-> m, bits |-> Advanced(at, 4)]

\* speex_inband_handler without a registered callback skips the message.
InbandSkip(id) == CASE id < 2 -> 1
                    [] id \in 2 .. 7 -> 4
                    [] id \in 8 .. 9 -> 8
                    [] id \in 10 .. 11 -> 16
                    [] id \in 12 .. 13 -> 32
                    [] OTHER -> 64

speex_inband_handler(b) == speex_bits_advance(Advanced(b, 4), InbandSkip(Unpacked(b, 4)))

speex_default_user_handler(b) == speex_bits_advance(Advanced(b, 4), 5 + 8 * Unpacked(b, 4))

\* nb_decode behind the submode: the head, the field of submode 1, the subframes.
LowDecoded(low, mode, b) ==
  LET s == nb_submodes[mode]
      head == Advanced(b, DecodedHead(s))
      silent == Unpacked(head, 4) = 15
      rest == IF mode = 1 THEN Advanced(head, 4) ELSE head
  IN IF mode = 0
     THEN [low |-> [low EXCEPT !.first = TRUE, !.count_lost = 0], bits |-> b]
     ELSE [low |-> [first |-> FALSE, count_lost |-> 0, dtx_enabled |-> mode = 1 /\ silent],
           bits |-> Advanced(rest, DecodedSubframes(s))]

\* sb_decode behind the low band: a layer if the next bit is a one.
LayerRead(b) ==
  IF speex_bits_remaining(b) > 0 /\ speex_bits_peek(b) = 1
  THEN [mode |-> Unpacked(Advanced(b, 1), SB_SUBMODE_BITS), bits |-> Advanced(b, 1 + SB_SUBMODE_BITS)]
  ELSE [mode |-> 0, bits |-> b]

\* speex_bits_read_from in front of the first speex_decode_int.
Deliver ==
  /\ phase = "wire"
  /\ inp' = speex_bits_read_from(inp, wire)
  /\ wire' = <<>> /\ phase' = "decode" /\ ret' = 0
  /\ UNCHANGED <<framing, enc, dec, out, sent, got, agree, requests>>

\* The caller asks for a frame without a packet: comfort noise, or concealment.
nb_decode_lost(low) ==
  [low EXCEPT !.first = FALSE, !.count_lost = IF @ < MaxLost THEN @ + 1 ELSE @]

Lose ==
  /\ phase = "wire"
  /\ dec' = [dec EXCEPT !.low = IF dec.low.dtx_enabled
                                THEN [@ EXCEPT !.first = TRUE, !.count_lost = 0]
                                ELSE nb_decode_lost(@),
                        !.high = IF dec.wide THEN [@ EXCEPT !.first = TRUE] ELSE @]
  /\ wire' = <<>> /\ phase' = "done" /\ ret' = 0
  /\ agree' = IF agree = "no" THEN "no" ELSE "lost"
  /\ UNCHANGED <<framing, enc, out, inp, sent, got, requests>>

\* The search finds no block, or one it refuses: the packet ends here.
SearchFails ==
  /\ phase = "decode"
  /\ Search(inp).ret # 0
  /\ phase' = "done" /\ ret' = Search(inp).ret
  /\ agree' = IF Len(got) < Len(sent) THEN "no" ELSE agree
  /\ UNCHANGED <<framing, enc, dec, out, wire, inp, sent, got, requests>>

Inband ==
  LET s == Search(inp)
  IN /\ phase = "decode" /\ s.ret = 0 /\ s.m \in {13, 14}
     /\ inp' = IF s.m = 14 THEN speex_inband_handler(s.bits) ELSE speex_default_user_handler(s.bits)
     /\ UNCHANGED <<framing, enc, dec, out, wire, phase, ret, sent, got, agree, requests>>

\* The loop of SpeexCodec.cpp goes on while both of its buffers have room.
OutOfRoom(frames) ==
  frameSize * (frames + 1) >= DecodeArray \/ frames + 1 >= MAX_DEC_FRAMES

\* One frame; what the decoder made of it is compared with what was sent.
DecodeFrame ==
  LET s == Search(inp)
      low == LowDecoded(dec.low, s.m, s.bits)
      layer == IF dec.wide THEN LayerRead(low.bits) ELSE [mode |-> 0, bits |-> low.bits]
      frame == [low |-> s.m, high |-> layer.mode,
                fresh |-> dec.low.first \/ dec.low.count_lost # 0, freshHigh |-> dec.high.first,
                dtx |-> low.low.dtx_enabled, agreed |-> agree]
  IN /\ phase = "decode" /\ s.ret = 0 /\ s.m \in 0 .. 8
     /\ layer.mode <= 4
     /\ dec' = [dec EXCEPT !.low = low.low,
                           !.high = IF dec.wide THEN [first |-> layer.mode = 0] ELSE @]
     /\ inp' = IF layer.mode = 0 THEN layer.bits
               ELSE Advanced(layer.bits, DecodedLayer(wb_submodes[layer.mode]))
     /\ got' = Append(got, frame)
     /\ agree' = "yes"
     /\ phase' = IF framing = "app" /\ OutOfRoom(Len(got) + 1) THEN "done" ELSE "decode"
     /\ UNCHANGED <<framing, enc, out, wire, ret, sent, requests>>

\* What is left of the packet is dropped (read_from replaces the content).
NextPacket ==
  /\ phase = "done"
  /\ phase' = "encode" /\ sent' = <<>> /\ got' = <<>> /\ ret' = 0
  /\ inp' = speex_bits_reset(inp)
  /\ out' = IF framing = "app" THEN speex_bits_reset(out) ELSE out
  /\ UNCHANGED <<framing, enc, dec, wire, agree, requests>>

-----------------------------------------------------------------------------
CodecInit ==
  /\ framing \in {"app", "lib"}
  /\ \E ewide \in BOOLEAN, dwide \in BOOLEAN, limit \in VbrMaxes, q \in Qualities,
        vbr \in BOOLEAN, vad \in BOOLEAN, dtx \in BOOLEAN :
       LET e == [wide |-> ewide, vbr |-> vbr, vad |-> vad, dtx |-> dtx,
                 vbr_max |-> limit, high |-> sb_encoder_init,
                 low |-> IF ewide THEN SetMode(nb_encoder_init, SetQuality(9)) ELSE nb_encoder_init]
       IN /\ framing = "app" => ~ewide /\ ~dwide /\ limit = 0 /\ ~vad /\ ~dtx
          /\ limit # 0 => vbr
          /\ enc = IF framing = "app" THEN openSpeex(e) ELSE SetEncoderQuality(e, q)
          /\ dec = [wide |-> dwide, low |-> nb_decoder_init, high |-> sb_decoder_init]
  /\ out = speex_bits_init(2000, TRUE) /\ inp = speex_bits_init(2000, TRUE)
  /\ wire = <<>> /\ phase = "encode" /\ ret = 0
  /\ sent = <<>> /\ got = <<>> /\ requests = 0 /\ agree = "yes"

CodecNext ==
  \/ \E a \in Analyses(enc) : EncodeFrame(a)
  \/ EncodeStereo
  \/ Send
  \/ \E q \in Qualities : SetEncQuality(q)
  \/ \E on \in BOOLEAN : SetVbr(on) \/ SetVad(on) \/ SetDtx(on)
  \/ ResetState
  \/ Deliver
  \/ Lose
  \/ SearchFails
  \/ Inband
  \/ DecodeFrame
  \/ NextPacket

CodecSpec == CodecInit /\ [][CodecNext]_cvars

-----------------------------------------------------------------------------
(* Properties                                                               *)

\* How many frames of the packet a decoder can reach: a narrowband decoder is
\* stopped by the first null layer of a wideband stream (it steps back onto
\* the layer and takes it for a third one), every other decoder reaches all.
Reachable ==
  IF enc.wide /\ ~dec.wide /\ \E i \in DOMAIN sent : sent[i].high = 0
  THEN CHOOSE i \in DOMAIN sent : sent[i].high = 0 /\ \A j \in 1 .. i - 1 : sent[j].high # 0
  ELSE Len(sent)

\* A delivered packet is decoded into the frames that were encoded, with no
\* field read past its end: the widths the quantizers pack, the widths the
\* unquantizers read, the table of layer sizes, the in-band messages and the
\* terminator agree for every submode and every mix of them.
PacketDecodes ==
  phase = "done" /\ ret # 0 =>
    /\ Len(got) = Reachable
    /\ ~inp.overflow
    /\ \A i \in DOMAIN got : /\ got[i].low = sent[i].low
                             /\ dec.wide => got[i].high = sent[i].high

\* The decoder starts the interpolation of the spectrum anew exactly when the
\* encoder did, and after a lost packet at least then (nb_decode tests first
\* and count_lost; null frames set first on both sides).
FreshAgrees ==
  \A i \in DOMAIN got :
    /\ got[i].agreed = "yes" => /\ got[i].fresh = sent[i].fresh
                                /\ enc.wide /\ dec.wide => got[i].freshHigh = sent[i].freshHigh
    /\ got[i].agreed = "lost" => (sent[i].fresh => got[i].fresh)

\* A decoder answers a lost packet with comfort noise only if the last frame
\* it heard was silence to the encoder, and with concealment otherwise.
DtxMeansSilence ==
  \A i \in DOMAIN got :
    sent[i].analysed /\ sent[i].low # 0 => got[i].dtx = sent[i].silent

=============================================================================

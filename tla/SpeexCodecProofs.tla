-------------------------- MODULE SpeexCodecProofs --------------------------
(***************************************************************************)
(* The voice codec, for every number of frames in a packet, every choice   *)
(* of qualities, submodes and limits the code takes, and any number of     *)
(* packets, losses and requests: a delivered packet is decoded into the    *)
(* frames that were encoded, both sides start the interpolation of the     *)
(* spectrum together, and comfort noise is played for silence only.        *)
(*                                                                         *)
(* The proof follows the bits.  Packing, writing and reading are lemmas    *)
(* about bits.c; the fields of a frame, its length and its place in the    *)
(* packet are lemmas about nb_encode and sb_encode; what the search of     *)
(* nb_decode and the two decoders find at such a place are lemmas about    *)
(* those.  The invariant says where the frames are and where the decoder   *)
(* stands, and which marks of the encoder the decoder follows.             *)
(***************************************************************************)
EXTENDS SpeexCodec, SequenceTheorems, WellFoundedInduction, TLAPS

-----------------------------------------------------------------------------
(* The frame format.                                                        *)

Bit == {0, 1}

(* The lengths of a narrowband block and of a layer, by submode.            *)
LowLen(m) == IF m = 0 THEN 5
             ELSE 5 + EncodedFields(nb_submodes[m]) + (IF m = 1 THEN 4 ELSE 0)
LayerLen(h) == IF h = 0 THEN 4 ELSE 4 + EncodedLayer(wb_submodes[h])

FrameLen(f, wide) == LowLen(f.low) + (IF wide THEN LayerLen(f.high) ELSE 0)

(* The fields of three and four bits that follow place p.                   *)
Field3(c, p) == 4 * c[p + 1] + 2 * c[p + 2] + c[p + 3]
Field4(c, p) == 8 * c[p + 1] + 4 * c[p + 2] + 2 * c[p + 3] + c[p + 4]

(* Frame f begins behind place p.                                           *)
LowAt(c, p, f) ==
  /\ c[p + 1] = 0 /\ Field4(c, p + 1) = f.low
  /\ f.low = 1 /\ f.analysed => (Field4(c, p + 39) = 15 <=> f.silent)

LayerAt(c, p, h) == c[p + 1] = 1 /\ Field3(c, p + 1) = h

FrameAt(c, p, f, wide) ==
  LowAt(c, p, f) /\ (wide => LayerAt(c, p + LowLen(f.low), f.high))

(* The message in front of a stereo packet.                                 *)
HeaderAt(c) == c[1] = 0 /\ Field4(c, 1) = 14 /\ Field4(c, 5) = 9

(* The frames fs, one behind the other, frame i behind place at[i].         *)
Layout(c, at, fs, wide) ==
  /\ at \in [1 .. Len(fs) + 1 -> Nat]
  /\ at[1] = 0 \/ (at[1] = 17 /\ HeaderAt(c))
  /\ \A i \in 1 .. Len(fs) : /\ at[i + 1] = at[i] + FrameLen(fs[i], wide)
                             /\ FrameAt(c, at[i], fs[i], wide)

(* What is left of the last byte: a zero and ones.                          *)
Ends(c, end) ==
  /\ end <= Len(c) /\ Len(c) <= end + 7
  /\ \A k \in end + 1 .. Len(c) : c[k] = (IF k = end + 1 THEN 0 ELSE 1)

-----------------------------------------------------------------------------
(* Types                                                                    *)

Streams == [chars : Seq(Bit), nbBits : Nat, pos : Nat, overflow : BOOLEAN, buf_size : Nat,
            owner : {TRUE}]
Encoders ==
  [wide : BOOLEAN, vbr : BOOLEAN, vad : BOOLEAN, dtx : BOOLEAN, vbr_max : Nat,
   low : [submodeID : 0 .. 8, submodeSelect : 0 .. 8, dtx_count : Nat, first : BOOLEAN],
   high : [submodeID : 0 .. 4, submodeSelect : 0 .. 4, first : BOOLEAN]]
Decoders ==
  [wide : BOOLEAN, low : [first : BOOLEAN, count_lost : Nat, dtx_enabled : BOOLEAN],
   high : [first : BOOLEAN]]
SentFrames ==
  [low : 0 .. 8, high : 0 .. 4, fresh : BOOLEAN, freshHigh : BOOLEAN, silent : BOOLEAN,
   analysed : BOOLEAN]

GotFrames ==
  [low : 0 .. 8, high : 0 .. 4, fresh : BOOLEAN, freshHigh : BOOLEAN, dtx : BOOLEAN,
   agreed : {"yes", "lost", "no"}]

CodecTypes ==
  /\ framing \in {"app", "lib"} /\ enc \in Encoders /\ dec \in Decoders
  /\ out \in Streams /\ inp \in Streams /\ wire \in Seq(Bit)
  /\ phase \in {"encode", "wire", "decode", "done"} /\ ret \in Int
  /\ sent \in Seq(SentFrames) /\ got \in Seq(GotFrames) /\ Len(got) \in 0 .. Len(sent)
  /\ agree \in {"yes", "lost", "no"}
  /\ Len(sent) <= FramesPerPacket
  /\ phase # "encode" => Len(sent) = FramesPerPacket
  /\ phase \in {"encode", "wire"} => Len(got) = 0 /\ ret = 0
  /\ phase = "decode" => ret = 0

(* An application stream is narrowband in one submode.                      *)
OneSubmode ==
  framing = "app" =>
    /\ ~enc.wide /\ ~dec.wide /\ ~enc.vbr /\ ~enc.vad /\ enc.low.submodeID = 3
    /\ \A i \in 1 .. Len(sent) : sent[i].low = 3

(* A narrowband stream has no layers.                                       *)
NarrowSent == ~enc.wide => \A i \in 1 .. Len(sent) : sent[i].high = 0

(* The packer holds the bits c and nothing else.                            *)
Holds(b, c) ==
  /\ b \in Streams /\ c \in Seq(Bit) /\ b.nbBits = Len(c) /\ b.pos = Len(c)
  /\ b.chars = [k \in 1 .. 8 * (Len(c) \div 8 + 1) |-> IF k <= Len(c) THEN c[k] ELSE 0]

(* Where the decoder is, k frames of the packet behind it.                  *)
Skips == enc.wide /\ ~dec.wide
Stands(at, k) ==
  IF k = 0 THEN inp.pos \in {0, at[1]}
  ELSE inp.pos = at[k + 1] - (IF Skips THEN LayerLen(sent[k].high) ELSE 0)

PacketOK ==
  /\ phase = "encode" /\ framing = "lib" =>
       /\ wire = <<>>
       /\ \E at, c : /\ Layout(c, at, sent, enc.wide)
                     /\ Holds(out, c) /\ Len(c) = at[Len(sent) + 1]
  /\ phase = "encode" /\ framing = "app" =>
       /\ \E at : Layout(wire, at, sent, FALSE) /\ Len(wire) = at[Len(sent) + 1]
       /\ Len(wire) % 8 = 0
  /\ phase = "wire" =>
       /\ Len(wire) % 8 = 0
       /\ \E at : Layout(wire, at, sent, enc.wide) /\ Ends(wire, at[Len(sent) + 1])
  /\ phase # "encode" /\ framing = "lib" => Holds(out, <<>>)
  /\ phase \in {"decode", "done"} => wire = <<>>
  /\ phase = "decode" =>
       /\ inp.nbBits = Len(inp.chars) /\ ~inp.overflow
       /\ \E at : /\ Layout(inp.chars, at, sent, enc.wide)
                  /\ Ends(inp.chars, at[Len(sent) + 1])
                  /\ Stands(at, Len(got))
       /\ Skips => \A i \in 1 .. Len(got) - 1 : sent[i].high # 0
  /\ phase = "done" /\ ret # 0 => ~inp.overflow /\ Len(got) = Reachable

(* Silence has a count, and what is no silence has none.                    *)
SilenceCounts ==
  \A i \in 1 .. Len(sent) : sent[i].analysed /\ sent[i].silent => sent[i].low \in {0, 1}

(* What the decoder has made of a frame.                                    *)
GotOK ==
  \A i \in 1 .. Len(got) :
    /\ got[i].low = sent[i].low
    /\ dec.wide => got[i].high = sent[i].high
    /\ got[i].agreed = "yes" => /\ got[i].fresh = sent[i].fresh
                                /\ enc.wide /\ dec.wide => got[i].freshHigh = sent[i].freshHigh
    /\ got[i].agreed = "lost" => (sent[i].fresh => got[i].fresh)
    /\ sent[i].analysed /\ sent[i].low # 0 => got[i].dtx = sent[i].silent

-----------------------------------------------------------------------------
(* Who starts the interpolation anew.                                       *)

DecoderFresh == dec.low.first \/ dec.low.count_lost # 0

(* The encoder's marks chain the frames of a packet.                        *)
SentChain ==
  /\ \A i \in 2 .. Len(sent) : /\ sent[i].fresh = (sent[i - 1].low = 0)
                               /\ enc.wide => sent[i].freshHigh = (sent[i - 1].high = 0)
  /\ Len(sent) > 0 => /\ enc.low.first = (sent[Len(sent)].low = 0)
                      /\ enc.wide => enc.high.first = (sent[Len(sent)].high = 0)

(* The marks of the encoder that the decoder's next frame has to follow.    *)
NextFresh == IF phase \in {"encode", "wire", "decode"} /\ Len(sent) > 0
             THEN (IF Len(got) = 0 THEN sent[1].fresh ELSE sent[Len(got)].low = 0)
             ELSE enc.low.first
NextFreshHigh == IF phase \in {"encode", "wire", "decode"} /\ Len(sent) > 0
                 THEN (IF Len(got) = 0 THEN sent[1].freshHigh ELSE sent[Len(got)].high = 0)
                 ELSE enc.high.first

Agreement ==
  /\ agree = "yes" => /\ DecoderFresh = NextFresh
                      /\ enc.wide /\ dec.wide => dec.high.first = NextFreshHigh
  /\ agree = "lost" => DecoderFresh
  /\ phase = "decode" /\ Len(got) > 0 => agree = "yes"

CodecIInv ==
  /\ CodecTypes /\ OneSubmode /\ NarrowSent /\ PacketOK /\ SilenceCounts /\ GotOK /\ SentChain /\ Agreement

-----------------------------------------------------------------------------
(* Widths                                                                   *)

LowLens == <<43, 119, 160, 220, 300, 364, 492, 79>>
LayerLens == <<36, 112, 192, 352>>

(* What the encoder packs for a narrowband submode is what the decoder      *)
(* unpacks.                                                                 *)
LEMMA LowWidths ==
  ASSUME NEW m \in 1 .. 8
  PROVE  /\ EncodedFields(nb_submodes[m]) = DecodedHead(nb_submodes[m]) + DecodedSubframes(nb_submodes[m])
         /\ LowLen(m) = LowLens[m]
         /\ DecodedHead(nb_submodes[m]) \in Nat /\ DecodedSubframes(nb_submodes[m]) \in Nat
         /\ EncodedFields(nb_submodes[m]) \in Nat
         /\ m = 1 => DecodedHead(nb_submodes[m]) = 34 /\ DecodedSubframes(nb_submodes[m]) = 0
<1> USE DEF LowLen, LowLens, EncodedFields, DecodedHead, DecodedSubframes, LspQuant, LspUnquant, pitch_search_3tap,
      pitch_unquant_3tap, SubframeGain, SubframeGainRead, InnovationQuant, InnovationUnquant,
      split_cb_search_shape_sign, split_cb_shape_sign_unquant, nbSubframes, frameSize, subframeSize,
      lsp_quant_nb, lsp_quant_lbr, lsp_quant_high, lsp_unquant_nb, lsp_unquant_lbr, lsp_unquant_high,
      Submode, Ltp, Forced, Split, Noise
<1>1. CASE m = 1
  <2>1. nb_submodes[m] = nb_submode1
    BY <1>1 DEF nb_submodes
  <2> QED BY <1>1, <2>1 DEF nb_submode1
<1>2. CASE m = 2
  <2>1. nb_submodes[m] = nb_submode2
    BY <1>2 DEF nb_submodes
  <2> QED BY <1>2, <2>1 DEF nb_submode2, ltp_params_vlbr, split_cb_nb_vlbr
<1>3. CASE m = 3
  <2>1. nb_submodes[m] = nb_submode3
    BY <1>3 DEF nb_submodes
  <2> QED BY <1>3, <2>1 DEF nb_submode3, ltp_params_lbr, split_cb_nb_lbr
<1>4. CASE m = 4
  <2>1. nb_submodes[m] = nb_submode4
    BY <1>4 DEF nb_submodes
  <2> QED BY <1>4, <2>1 DEF nb_submode4, ltp_params_med, split_cb_nb_med
<1>5. CASE m = 5
  <2>1. nb_submodes[m] = nb_submode5
    BY <1>5 DEF nb_submodes
  <2> QED BY <1>5, <2>1 DEF nb_submode5, ltp_params_nb, split_cb_nb
<1>6. CASE m = 6
  <2>1. nb_submodes[m] = nb_submode6
    BY <1>6 DEF nb_submodes
  <2> QED BY <1>6, <2>1 DEF nb_submode6, ltp_params_nb, split_cb_sb
<1>7. CASE m = 7
  <2>1. nb_submodes[m] = nb_submode7
    BY <1>7 DEF nb_submodes
  <2> QED BY <1>7, <2>1 DEF nb_submode7, ltp_params_nb, split_cb_nb
<1>8. CASE m = 8
  <2>1. nb_submodes[m] = nb_submode8
    BY <1>8 DEF nb_submodes
  <2> QED BY <1>8, <2>1 DEF nb_submode8, split_cb_nb_ulbr
<1> HIDE DEF LowLen, LowLens, EncodedFields, DecodedHead, DecodedSubframes
<1> QED BY <1>1, <1>2, <1>3, <1>4, <1>5, <1>6, <1>7, <1>8

(* The same for the submodes of a layer, with the table by which it is      *)
(* skipped.                                                                 *)
LEMMA LayerWidths ==
  ASSUME NEW h \in 1 .. 4
  PROVE  /\ EncodedLayer(wb_submodes[h]) = DecodedLayer(wb_submodes[h])
         /\ EncodedLayer(wb_submodes[h]) \in Nat
         /\ LayerLen(h) = LayerLens[h] /\ wb_skip_table[h] = LayerLens[h]
<1> USE DEF LayerLen, LayerLens, EncodedLayer, DecodedLayer, wb_skip_table, LspQuant, LspUnquant,
      InnovationQuant, InnovationUnquant,
      split_cb_search_shape_sign, split_cb_shape_sign_unquant, nbSubframes, frameSize, subframeSize,
      lsp_quant_high, lsp_unquant_high, Submode, Ltp, Forced, Split, Noise
<1>1. CASE h = 1
  <2>1. wb_submodes[h] = wb_submode1
    BY <1>1 DEF wb_submodes
  <2> QED BY <1>1, <2>1 DEF wb_submode1
<1>2. CASE h = 2
  <2>1. wb_submodes[h] = wb_submode2
    BY <1>2 DEF wb_submodes
  <2> QED BY <1>2, <2>1 DEF wb_submode2, split_cb_high_lbr
<1>3. CASE h = 3
  <2>1. wb_submodes[h] = wb_submode3
    BY <1>3 DEF wb_submodes
  <2> QED BY <1>3, <2>1 DEF wb_submode3, split_cb_high
<1>4. CASE h = 4
  <2>1. wb_submodes[h] = wb_submode4
    BY <1>4 DEF wb_submodes
  <2> QED BY <1>4, <2>1 DEF wb_submode4, split_cb_high
<1> HIDE DEF LayerLen, LayerLens, EncodedLayer, DecodedLayer
<1> QED BY <1>1, <1>2, <1>3, <1>4

(* In numbers, and how large they are.                                      *)
LEMMA Lengths ==
  /\ LowLen(0) = 5 /\ LayerLen(0) = 4 /\ wb_skip_table[0] = 0
  /\ LowLen(1) = 43 /\ LowLen(3) = 160
  /\ \A m \in 0 .. 8 : LowLen(m) \in 5 .. 492
  /\ \A h \in 0 .. 4 : LayerLen(h) \in 4 .. 352 /\ (h # 0 => wb_skip_table[h] = LayerLen(h))
<1>1. LowLen(0) = 5 /\ LayerLen(0) = 4
  BY DEF LowLen, LayerLen
<1>2. wb_skip_table[0] = 0
  BY DEF wb_skip_table
<1>3. ASSUME NEW m \in 1 .. 8 PROVE LowLen(m) = LowLens[m]
  BY LowWidths
<1>4. ASSUME NEW h \in 1 .. 4 PROVE LayerLen(h) = LayerLens[h] /\ wb_skip_table[h] = LayerLens[h]
  BY LayerWidths
<1>5. /\ \A m \in 1 .. 8 : LowLens[m] \in 5 .. 492
      /\ \A h \in 1 .. 4 : LayerLens[h] \in 4 .. 352
      /\ LowLens[1] = 43 /\ LowLens[3] = 160
  BY DEF LowLens, LayerLens
<1>6. LowLen(1) = 43 /\ LowLen(3) = 160
  BY <1>3, <1>5
<1>7. ASSUME NEW m \in 0 .. 8 PROVE LowLen(m) \in 5 .. 492
  <2>1. CASE m = 0
    BY <1>1, <2>1
  <2>2. CASE m \in 1 .. 8
    BY <1>3, <1>5, <2>2
  <2> QED BY <2>1, <2>2
<1>8. ASSUME NEW h \in 0 .. 4 PROVE LayerLen(h) \in 4 .. 352 /\ (h # 0 => wb_skip_table[h] = LayerLen(h))
  <2>1. CASE h = 0
    BY <1>1, <2>1
  <2>2. CASE h \in 1 .. 4
    BY <1>4, <1>5, <2>2
  <2> QED BY <2>1, <2>2
<1> QED BY <1>1, <1>2, <1>6, <1>7, <1>8

-----------------------------------------------------------------------------
(* Packing                                                                  *)

LEMMA Bytes == \A n \in Nat : n \div 8 \in Nat /\ 8 * (n \div 8) <= n /\ n < 8 * (n \div 8 + 1)
OBVIOUS

(* Two lists of bits behind each other.                                     *)
LEMMA Joins ==
  ASSUME NEW c \in Seq(Bit), NEW f \in Seq(Bit)
  PROVE  /\ c \o f \in Seq(Bit) /\ Len(c \o f) = Len(c) + Len(f)
         /\ Len(c) \in Nat /\ Len(f) \in Nat
         /\ \A k \in 1 .. Len(c) : (c \o f)[k] = c[k] /\ c[k] \in Bit
         /\ \A k \in 1 .. Len(f) : (c \o f)[Len(c) + k] = f[k] /\ f[k] \in Bit
OBVIOUS

(* The bits are or-ed into a cleared tail.                                  *)
LEMMA OrJoins ==
  ASSUME NEW b, NEW c, Holds(b, c), NEW f \in Seq(Bit)
  PROVE  Holds(OrInto(b, f), c \o f)
<1> DEFINE n == Len(f)
           end == b.pos + n
           old(k) == IF k <= 8 * (b.pos \div 8 + 1) THEN b.chars[k] ELSE 0
           new(k) == IF k > b.pos /\ k <= end THEN f[k - b.pos] ELSE 0
           chars == [k \in 1 .. 8 * (end \div 8 + 1) |-> IF old(k) = 1 \/ new(k) = 1 THEN 1 ELSE 0]
           d == c \o f
<1>1. /\ b \in Streams /\ c \in Seq(Bit) /\ b.nbBits = Len(c) /\ b.pos = Len(c)
      /\ b.chars = [k \in 1 .. 8 * (Len(c) \div 8 + 1) |-> IF k <= Len(c) THEN c[k] ELSE 0]
  BY DEF Holds
<1>2. /\ d \in Seq(Bit) /\ Len(d) = Len(c) + Len(f) /\ Len(c) \in Nat /\ Len(f) \in Nat
      /\ \A k \in 1 .. Len(c) : d[k] = c[k] /\ c[k] \in Bit
      /\ \A k \in 1 .. Len(f) : d[Len(c) + k] = f[k] /\ f[k] \in Bit
  BY <1>1, Joins
<1>3. OrInto(b, f) = [b EXCEPT !.chars = chars, !.pos = end, !.nbBits = @ + n]
  BY DEF OrInto, CharPtr, BITS_PER_CHAR
<1>4. end = Len(d) /\ end \in Nat /\ Len(c) <= end
  BY <1>1, <1>2
<1>5. 8 * (end \div 8 + 1) \in Nat /\ end < 8 * (end \div 8 + 1) /\ Len(c) < 8 * (Len(c) \div 8 + 1)
  BY <1>2, <1>4, Bytes
<1>6. ASSUME NEW k \in 1 .. 8 * (end \div 8 + 1)
      PROVE  (IF old(k) = 1 \/ new(k) = 1 THEN 1 ELSE 0) = (IF k <= Len(d) THEN d[k] ELSE 0)
  <2>1. k \in Nat /\ k >= 1
    OBVIOUS
  <2>2. CASE k <= Len(c)
    <3>1. k \in 1 .. Len(c) /\ k <= 8 * (Len(c) \div 8 + 1)
      BY <1>2, <1>5, <2>1, <2>2
    <3>2. b.chars[k] = c[k]
      <4>1. k \in 1 .. 8 * (Len(c) \div 8 + 1)
        BY <2>1, <3>1
      <4> QED BY <1>1, <2>2, <4>1
    <3>3. old(k) = c[k] /\ new(k) = 0
      BY <1>1, <1>2, <2>1, <2>2, <3>1, <3>2
    <3>4. k <= Len(d)
      BY <1>2, <1>4, <2>1, <2>2
    <3> HIDE DEF old, new, d
    <3> QED BY <1>2, <3>1, <3>3, <3>4 DEF Bit
  <2>3. CASE ~(k <= Len(c))
    <3>1. old(k) = 0
      <4>1. CASE k <= 8 * (Len(c) \div 8 + 1)
        BY <1>1, <2>1, <2>3, <4>1
      <4>2. CASE ~(k <= 8 * (Len(c) \div 8 + 1))
        BY <1>1, <4>2
      <4> QED BY <4>1, <4>2
    <3>2. CASE k <= Len(d)
      <4>1. k - Len(c) \in 1 .. Len(f) /\ Len(c) + (k - Len(c)) = k
        BY <1>2, <2>1, <2>3, <3>2
      <4>2. new(k) = f[k - Len(c)] /\ d[k] = f[k - Len(c)] /\ f[k - Len(c)] \in Bit
        <5>1. k > b.pos /\ k <= end
          BY <1>1, <1>2, <1>4, <2>1, <2>3, <3>2
        <5> HIDE DEF d, end
        <5> QED BY <1>1, <1>2, <4>1, <5>1
      <4> HIDE DEF old, new, d
      <4> QED BY <3>1, <3>2, <4>2 DEF Bit
    <3>3. CASE ~(k <= Len(d))
      <4>1. new(k) = 0
        BY <1>1, <1>2, <1>4, <2>1, <3>3
      <4> HIDE DEF old, new, d
      <4> QED BY <3>1, <3>3, <4>1
    <3> QED BY <3>2, <3>3
  <2> QED BY <2>2, <2>3
<1>7. chars = [k \in 1 .. 8 * (Len(d) \div 8 + 1) |-> IF k <= Len(d) THEN d[k] ELSE 0]
  BY <1>4, <1>6
<1>8. chars \in Seq(Bit)
  <2>1. \A k \in 1 .. 8 * (end \div 8 + 1) : (IF old(k) = 1 \/ new(k) = 1 THEN 1 ELSE 0) \in Bit
    BY DEF Bit
  <2> HIDE DEF old, new, end
  <2> QED BY <1>5, <2>1
<1>9. b.nbBits + n = Len(d)
  BY <1>1, <1>2
<1> HIDE DEF chars, d, end, n
<1>10. OrInto(b, f) \in Streams
  BY <1>1, <1>2, <1>3, <1>4, <1>8, <1>9, ZenonT(30) DEF Streams, n
<1>11. /\ OrInto(b, f).chars = chars /\ OrInto(b, f).pos = end /\ OrInto(b, f).nbBits = Len(d)
  BY <1>1, <1>3, <1>9 DEF Streams
<1>12. Holds(OrInto(b, f), d)
  BY <1>2, <1>4, <1>7, <1>10, <1>11 DEF Holds
<1> QED BY <1>12 DEF d

(* Packing a field behind the bits that were packed.                        *)
LEMMA Packs ==
  ASSUME NEW b, NEW c, Holds(b, c), NEW f \in Seq(Bit)
  PROVE  Holds(PackField(b, f), c \o f)
<1>1. b \in Streams
  BY DEF Holds
<1>2. b.owner = TRUE /\ b.buf_size \in Nat
  BY <1>1 DEF Streams
<1>3. PackField(b, f) = OrInto(Grown(b, Len(f)), f)
  BY <1>2 DEF PackField
<1>4. PICK size \in Nat : Grown(b, Len(f)) = [b EXCEPT !.buf_size = size]
  <2>1. CASE TooSmall(b, Len(f))
    <3>1. ((b.buf_size + 5) * 3) \div 2 \in Nat
      BY <1>2
    <3>2. Grown(b, Len(f)) = [b EXCEPT !.buf_size = ((b.buf_size + 5) * 3) \div 2]
      BY <2>1 DEF Grown
    <3> QED BY <3>1, <3>2
  <2>2. CASE ~TooSmall(b, Len(f))
    <3>1. Grown(b, Len(f)) = b /\ b = [b EXCEPT !.buf_size = b.buf_size]
      BY <1>1, <2>2 DEF Grown, Streams
    <3> QED BY <1>2, <3>1
  <2> QED BY <2>1, <2>2
<1>5. Holds([b EXCEPT !.buf_size = size], c)
  BY <1>1 DEF Holds, Streams
<1> QED BY <1>3, <1>4, <1>5, OrJoins

(* A packer that was reset holds nothing.                                   *)
LEMMA ResetHolds == ASSUME NEW b \in Streams PROVE Holds(speex_bits_reset(b), <<>>)
<1> DEFINE r == speex_bits_reset(b)
<1>1. r = [b EXCEPT !.chars = Zeros(8), !.nbBits = 0, !.pos = 0, !.overflow = FALSE]
  BY DEF speex_bits_reset, BITS_PER_CHAR
<1>2. Zeros(8) \in Seq(Bit) /\ Zeros(8) = [k \in 1 .. 8 |-> 0]
  BY DEF Zeros, Bit
<1>3. r \in Streams /\ r.nbBits = 0 /\ r.pos = 0 /\ r.chars = [k \in 1 .. 8 |-> 0]
  <2> DEFINE z == Zeros(8)
  <2>1. z \in Seq(Bit) /\ z = [k \in 1 .. 8 |-> 0]
    BY <1>2
  <2>2. r = [b EXCEPT !.chars = z, !.nbBits = 0, !.pos = 0, !.overflow = FALSE]
    BY <1>1
  <2> HIDE DEF z, r
  <2>3. r \in Streams /\ r.nbBits = 0 /\ r.pos = 0 /\ r.chars = z
    BY <2>1, <2>2 DEF Streams
  <2> QED BY <2>1, <2>3
<1>4. Len(<<>>) = 0 /\ <<>> \in Seq(Bit) /\ 8 * (0 \div 8 + 1) = 8
  OBVIOUS
<1>5. [k \in 1 .. 8 |-> 0] = [k \in 1 .. 8 |-> IF k <= 0 THEN <<>>[k] ELSE 0]
  OBVIOUS
<1> HIDE DEF r
<1>6. Holds(r, <<>>)
  BY <1>3, <1>4, <1>5 DEF Holds
<1> QED BY <1>6 DEF r

(* What is left of the last byte.                                           *)
LEMMA FillsByte ==
  ASSUME NEW n \in Nat
  PROVE  /\ (8 - (n % 8)) % 8 \in 0 .. 7 /\ n + ((8 - (n % 8)) % 8) = 8 * Chars(n) /\ Chars(n) \in Nat
         /\ (n % 8 = 0 => (8 - (n % 8)) % 8 = 0)
<1>1. PICK q \in Nat, r \in 0 .. 7 : n = 8 * q + r
  <2>1. n \div 8 \in Nat /\ n % 8 \in 0 .. 7 /\ n = 8 * (n \div 8) + (n % 8)
    OBVIOUS
  <2> QED BY <2>1
<1>2. n % 8 = r /\ (n + 8 - 1) \div 8 = (IF r = 0 THEN q ELSE q + 1)
  BY <1>1
<1>3. (8 - r) % 8 = (IF r = 0 THEN 0 ELSE 8 - r)
  BY <1>1
<1>4. Chars(n) = (IF r = 0 THEN q ELSE q + 1)
  BY <1>2 DEF Chars, BITS_PER_CHAR
<1>5. (8 - (n % 8)) % 8 = (IF r = 0 THEN 0 ELSE 8 - r)
  BY <1>2, <1>3
<1>6. n + (IF r = 0 THEN 0 ELSE 8 - r) = 8 * Chars(n) /\ Chars(n) \in Nat
  BY <1>1, <1>4
<1>7. n % 8 = 0 => (8 - (n % 8)) % 8 = 0
  BY <1>2, <1>5
<1> HIDE DEF Chars
<1> QED BY <1>1, <1>5, <1>6, <1>7

(* Writing appends the terminator to the bits.                              *)
Written(w, c) ==
  /\ w.bits \in Streams
  /\ w.packet \in Seq(Bit) /\ Len(w.packet) % 8 = 0
  /\ \A k \in 1 .. Len(c) : w.packet[k] = c[k]
  /\ Ends(w.packet, Len(c))
  /\ Len(c) % 8 = 0 => w.packet = c

(* speex_bits_write gives the bits, and fills the last byte.                *)
LEMMA Writes ==
  ASSUME NEW b, NEW c, Holds(b, c), NEW max \in Nat, Chars(Len(c)) <= max
  PROVE  Written(speex_bits_write(b, max), c)
<1> DEFINE n == Len(c)
           t == Terminator(b)
           d == c \o t
           p == PackField(b, t)
<1>1. /\ b \in Streams /\ c \in Seq(Bit) /\ b.nbBits = n /\ b.pos = n /\ n \in Nat
  BY DEF Holds
<1>2. t = [i \in 1 .. (8 - (n % 8)) % 8 |-> IF i = 1 THEN 0 ELSE 1]
  BY <1>1 DEF Terminator, BitPtr, BITS_PER_CHAR
<1>3. (8 - (n % 8)) % 8 \in 0 .. 7 /\ n + ((8 - (n % 8)) % 8) = 8 * Chars(n) /\ Chars(n) \in Nat
      /\ (n % 8 = 0 => (8 - (n % 8)) % 8 = 0)
  <2> HIDE DEF n
  <2> QED BY <1>1, FillsByte
<1>4. t \in Seq(Bit) /\ Len(t) = (8 - (n % 8)) % 8 /\ \A i \in 1 .. Len(t) : t[i] = IF i = 1 THEN 0 ELSE 1
  <2> DEFINE z == (8 - (n % 8)) % 8
  <2>1. z \in Nat
    BY <1>3
  <2> HIDE DEF z
  <2>2. t = [i \in 1 .. z |-> IF i = 1 THEN 0 ELSE 1]
    BY <1>2 DEF z
  <2> QED BY <2>1, <2>2 DEF Bit, z
<1>5. Holds(p, d)
  BY <1>4, Packs
<1>6. /\ d \in Seq(Bit) /\ Len(d) = n + Len(t) /\ Len(t) \in Nat
      /\ \A k \in 1 .. n : d[k] = c[k]
      /\ \A k \in 1 .. Len(t) : d[n + k] = t[k]
  BY <1>1, <1>4, Joins
<1>7. /\ p \in Streams
      /\ p.chars = [k \in 1 .. 8 * (Len(d) \div 8 + 1) |-> IF k <= Len(d) THEN d[k] ELSE 0]
  <2> HIDE DEF p, d
  <2> QED BY <1>5 DEF Holds
<1>8. Len(d) = 8 * Chars(n) /\ Len(d) < 8 * (Len(d) \div 8 + 1) /\ Len(d) \in Nat
  <2>1. Len(d) = 8 * Chars(n) /\ Len(d) \in Nat
    <3> HIDE DEF d, t, n
    <3>1. Len(d) = n + Len(t) /\ Len(t) = (8 - (n % 8)) % 8
      BY <1>4, <1>6
    <3>2. n + ((8 - (n % 8)) % 8) = 8 * Chars(n) /\ Chars(n) \in Nat
      BY <1>3
    <3>3. Len(d) = 8 * Chars(n)
      BY ONLY <3>1, <3>2
    <3> QED BY ONLY <3>2, <3>3
  <2> HIDE DEF d, t, n
  <2> QED BY <2>1, Bytes
<1>9. Terminated(b) = [p EXCEPT !.pos = n, !.nbBits = n]
  BY <1>1 DEF Terminated, speex_bits_insert_terminator
<1>10. /\ Terminated(b) \in Streams /\ Terminated(b).chars = p.chars
  <2> HIDE DEF p, n
  <2> QED BY <1>1, <1>7, <1>9 DEF Streams
<1> DEFINE w == speex_bits_write(b, max)
<1>11. w.bits = Terminated(b) /\ w.packet = SubSeq(p.chars, 1, 8 * Chars(n))
  <2> DEFINE nchars == IF max > Chars(b.nbBits) THEN Chars(b.nbBits) ELSE max
  <2>1. nchars = Chars(n)
    BY <1>1, <1>3
  <2>2. w = [bits |-> Terminated(b), packet |-> SubSeq(Terminated(b).chars, 1, 8 * nchars)]
    BY DEF speex_bits_write, BITS_PER_CHAR
  <2> HIDE DEF nchars, w, p
  <2> QED BY <1>10, <2>1, <2>2
<1>12. w.packet = d
  <2> DEFINE q == p.chars
  <2>1. q \in Seq(Bit) /\ Len(q) = 8 * (Len(d) \div 8 + 1) /\ \A k \in 1 .. Len(d) : q[k] = d[k]
    <3>1. 8 * (Len(d) \div 8 + 1) \in Nat
      BY <1>8
    <3>2. q \in Seq(Bit)
      BY <1>7 DEF Streams
    <3> HIDE DEF d, p
    <3> QED BY <1>7, <1>8, <3>1, <3>2
  <2>2. w.packet = SubSeq(q, 1, Len(d))
    BY <1>8, <1>11
  <2> HIDE DEF q, d, w
  <2>3. Len(SubSeq(q, 1, Len(d))) = Len(d) /\ \A k \in 1 .. Len(d) : SubSeq(q, 1, Len(d))[k] = q[k]
    BY <1>8, <2>1
  <2>4. SubSeq(q, 1, Len(d)) \in Seq(Bit)
    BY <1>8, <2>1
  <2> QED BY <1>6, <2>1, <2>2, <2>3, <2>4
<1>13. Ends(d, n)
  <2>1. n <= Len(d) /\ Len(d) <= n + 7
    BY <1>1, <1>3, <1>4, <1>6
  <2>2. ASSUME NEW k \in n + 1 .. Len(d) PROVE d[k] = (IF k = n + 1 THEN 0 ELSE 1)
    <3>1. k - n \in 1 .. Len(t) /\ n + (k - n) = k
      BY <1>1, <1>6
    <3>2. d[k] = t[k - n]
      BY <1>6, <3>1
    <3>3. t[k - n] = IF k - n = 1 THEN 0 ELSE 1
      BY <1>4, <3>1
    <3>4. k - n = 1 <=> k = n + 1
      BY <1>1
    <3> QED BY <3>2, <3>3, <3>4
  <2> QED BY <2>1, <2>2 DEF Ends
<1>14. Len(d) % 8 = 0
  BY <1>3, <1>8
<1>15. n % 8 = 0 => d = c
  <2> SUFFICES ASSUME n % 8 = 0 PROVE d = c
    OBVIOUS
  <2>1. Len(t) = 0
    BY <1>3, <1>4
  <2> QED BY <1>1, <1>6, <2>1
<1> HIDE DEF w, d, n
<1>16. /\ w.bits \in Streams /\ w.packet \in Seq(Bit) /\ Len(w.packet) % 8 = 0
       /\ \A k \in 1 .. n : w.packet[k] = c[k]
       /\ Ends(w.packet, n)
       /\ n % 8 = 0 => w.packet = c
  BY <1>6, <1>10, <1>11, <1>12, <1>13, <1>14, <1>15
<1> QED BY <1>16 DEF w, n, Written

-----------------------------------------------------------------------------
(* The bits of a frame                                                      *)

(* d is c, of length n, and f, of length l.                                 *)
Concat(d, c, f, n, l) ==
  c \in Seq(Bit) /\ f \in Seq(Bit) /\ Len(c) = n /\ Len(f) = l /\ d = c \o f

(* Places in a list that was joined.                                        *)
LEMMA JoinAt ==
  ASSUME NEW c, NEW f, NEW n, NEW l, NEW d, Concat(d, c, f, n, l)
  PROVE  /\ d \in Seq(Bit) /\ Len(d) = n + l
         /\ \A k \in 1 .. n : d[k] = c[k]
         /\ \A k \in 1 .. l : d[n + k] = f[k]
BY Joins DEF Concat

(* Fields of one, three and four bits.                                      *)
LEMMA Numerals ==
  /\ BitsOf(0, 1) \in Seq(Bit) /\ Len(BitsOf(0, 1)) = 1 /\ BitsOf(0, 1)[1] = 0
  /\ BitsOf(1, 1) \in Seq(Bit) /\ Len(BitsOf(1, 1)) = 1 /\ BitsOf(1, 1)[1] = 1
  /\ \A m \in 0 .. 15 : /\ BitsOf(m, 4) \in Seq(Bit) /\ Len(BitsOf(m, 4)) = 4
                        /\ Field4(BitsOf(m, 4), 0) = m
  /\ \A h \in 0 .. 7 : /\ BitsOf(h, 3) \in Seq(Bit) /\ Len(BitsOf(h, 3)) = 3
                       /\ Field3(BitsOf(h, 3), 0) = h
<1>1. /\ BitsOf(0, 1) \in Seq(Bit) /\ Len(BitsOf(0, 1)) = 1 /\ BitsOf(0, 1)[1] = 0
      /\ BitsOf(1, 1) \in Seq(Bit) /\ Len(BitsOf(1, 1)) = 1 /\ BitsOf(1, 1)[1] = 1
  BY DEF BitsOf, Bit
<1>2. ASSUME NEW m \in 0 .. 15
      PROVE  /\ BitsOf(m, 4) \in Seq(Bit) /\ Len(BitsOf(m, 4)) = 4
             /\ Field4(BitsOf(m, 4), 0) = m
  <2> DEFINE v(i) == (m \div 2^(4 - i)) % 2
  <2>1. v(1) = (m \div 8) % 2 /\ v(2) = (m \div 4) % 2 /\ v(3) = (m \div 2) % 2 /\ v(4) = m % 2
    OBVIOUS
  <2>2. \A i \in 1 .. 4 : v(i) \in Bit
    BY <2>1 DEF Bit
  <2>3. 8 * v(1) + 4 * v(2) + 2 * v(3) + v(4) = m
    BY <2>1
  <2>4. BitsOf(m, 4) = [i \in 1 .. 4 |-> v(i)]
    BY DEF BitsOf
  <2> HIDE DEF v
  <2>5. /\ BitsOf(m, 4) \in Seq(Bit) /\ Len(BitsOf(m, 4)) = 4
    <3> DEFINE s == BitsOf(m, 4)
    <3>1. s = [i \in 1 .. 4 |-> v(i)]
      BY <2>4
    <3> HIDE DEF s
    <3>2. s \in Seq(Bit) /\ Len(s) = 4
      BY <2>2, <3>1
    <3> QED BY <3>2 DEF s
  <2>6. \A i \in 1 .. 4 : BitsOf(m, 4)[i] = v(i)
    BY <2>4
  <2>7. Field4(BitsOf(m, 4), 0) = m
    BY <2>3, <2>6 DEF Field4
  <2> QED BY <2>5, <2>7
<1>3. ASSUME NEW h \in 0 .. 7
      PROVE  /\ BitsOf(h, 3) \in Seq(Bit) /\ Len(BitsOf(h, 3)) = 3
             /\ Field3(BitsOf(h, 3), 0) = h
  <2> DEFINE v(i) == (h \div 2^(3 - i)) % 2
  <2>1. v(1) = (h \div 4) % 2 /\ v(2) = (h \div 2) % 2 /\ v(3) = h % 2
    OBVIOUS
  <2>2. \A i \in 1 .. 3 : v(i) \in Bit
    BY <2>1 DEF Bit
  <2>3. 4 * v(1) + 2 * v(2) + v(3) = h
    BY <2>1
  <2>4. BitsOf(h, 3) = [i \in 1 .. 3 |-> v(i)]
    BY DEF BitsOf
  <2> HIDE DEF v
  <2>5. /\ BitsOf(h, 3) \in Seq(Bit) /\ Len(BitsOf(h, 3)) = 3
    <3> DEFINE s == BitsOf(h, 3)
    <3>1. s = [i \in 1 .. 3 |-> v(i)]
      BY <2>4
    <3> HIDE DEF s
    <3>2. s \in Seq(Bit) /\ Len(s) = 3
      BY <2>2, <3>1
    <3> QED BY <3>2 DEF s
  <2>6. \A i \in 1 .. 3 : BitsOf(h, 3)[i] = v(i)
    BY <2>4
  <2>7. Field3(BitsOf(h, 3), 0) = h
    BY <2>3, <2>6 DEF Field3
  <2> QED BY <2>5, <2>7
<1> QED BY <1>1, <1>2, <1>3

LEMMA Payloads ==
  ASSUME NEW n \in Nat, NEW p \in Bit
  PROVE  Payload(n, p) \in Seq(Bit) /\ Len(Payload(n, p)) = n
BY DEF Payload

(* The bits of a narrowband block.                                          *)
LEMMA LowBitsAt ==
  ASSUME NEW low, low.submodeID \in 0 .. 8, NEW p \in Bit
  PROVE  LET x == LowBits(low, p)
         IN  /\ x \in Seq(Bit) /\ Len(x) = LowLen(low.submodeID)
             /\ x[1] = 0 /\ Field4(x, 1) = low.submodeID
             /\ low.submodeID = 1 => Field4(x, 39) = (IF low.dtx_count # 0 THEN 15 ELSE 0)
<1> DEFINE m == low.submodeID
           z == BitsOf(0, 1)
           n == BitsOf(m, 4)
           w == IF m = 0 THEN 0 ELSE EncodedFields(nb_submodes[m])
           q == IF m = 0 THEN <<>> ELSE Payload(EncodedFields(nb_submodes[m]), p)
           v == IF low.dtx_count # 0 THEN 15 ELSE 0
           e == Extra(low)
           zn == z \o n
           znq == zn \o q
           x == LowBits(low, p)
<1>1. x = znq \o e
  <2>1. x = z \o n \o q \o e
    BY DEF LowBits, NB_SUBMODE_BITS
  <2> QED BY <2>1
<1>2. z \in Seq(Bit) /\ Len(z) = 1 /\ z[1] = 0
  BY Numerals
<1>3. n \in Seq(Bit) /\ Len(n) = 4 /\ Field4(n, 0) = m
  BY Numerals
<1>4. /\ w \in Nat /\ LowLen(m) = 5 + w + (IF m = 1 THEN 4 ELSE 0)
      /\ m = 1 => w = 34
  <2>1. CASE m = 0
    BY <2>1 DEF LowLen
  <2>2. CASE m \in 1 .. 8
    <3>1. LowLen(m) \in 5 .. 492 /\ LowLen(m) = LowLens[m]
      BY <2>2, LowWidths, Lengths
    <3>2. LowLen(m) = 5 + w + (IF m = 1 THEN 4 ELSE 0)
      BY <2>2 DEF LowLen
    <3>3. /\ EncodedFields(nb_submodes[m]) = DecodedHead(nb_submodes[m]) + DecodedSubframes(nb_submodes[m])
          /\ m = 1 => DecodedHead(nb_submodes[m]) = 34 /\ DecodedSubframes(nb_submodes[m]) = 0
      BY <2>2, LowWidths
    <3>4. EncodedFields(nb_submodes[m]) \in Nat
      BY <2>2, LowWidths
    <3> QED BY <2>2, <3>2, <3>3, <3>4
  <2> QED BY <2>1, <2>2
<1>5. q \in Seq(Bit) /\ Len(q) = w
  <2>1. CASE m = 0
    BY <2>1
  <2>2. CASE m # 0
    <3> HIDE DEF m
    <3> QED BY <1>4, <2>2, Payloads
  <2> QED BY <2>1, <2>2
<1>6. e \in Seq(Bit) /\ Len(e) = (IF m = 1 THEN 4 ELSE 0) /\ (m = 1 => Field4(e, 0) = v)
  <2>1. CASE m = 1
    <3>1. e = BitsOf(v, 4) /\ v \in 0 .. 15
      BY <2>1 DEF Extra
    <3> HIDE DEF v, e
    <3> QED BY <2>1, <3>1, Numerals
  <2>2. CASE m # 1
    BY <2>2 DEF Extra
  <2> QED BY <2>1, <2>2
<1> HIDE DEF m, z, n, w, q, v, e, x
<1>7. /\ zn \in Seq(Bit) /\ Len(zn) = 5 /\ zn[1] = 0 /\ Field4(zn, 1) = m
  <2>1. /\ zn \in Seq(Bit) /\ Len(zn) = 5 /\ zn[1] = z[1]
        /\ \A k \in 1 .. 4 : zn[1 + k] = n[k]
    <3>0. Concat(zn, z, n, Len(z), Len(n))
      BY <1>2, <1>3 DEF Concat
    <3> HIDE DEF zn
    <3>1. zn \in Seq(Bit) /\ Len(zn) = Len(z) + Len(n) /\ (\A k \in 1 .. Len(z) : zn[k] = z[k])
          /\ \A k \in 1 .. Len(n) : zn[Len(z) + k] = n[k]
      BY <3>0, JoinAt
    <3> QED BY <1>2, <1>3, <3>1
  <2>2. zn[2] = n[1] /\ zn[3] = n[2] /\ zn[4] = n[3] /\ zn[5] = n[4]
    BY <2>1
  <2> HIDE DEF zn
  <2> QED BY <1>2, <1>3, <2>1, <2>2 DEF Field4
<1> HIDE DEF zn
<1>8. /\ znq \in Seq(Bit) /\ Len(znq) = 5 + w /\ \A k \in 1 .. 5 : znq[k] = zn[k]
  <2>1. Concat(znq, zn, q, 5, w)
    BY <1>5, <1>7 DEF Concat
  <2> HIDE DEF znq
  <2> QED BY <2>1, JoinAt
<1> HIDE DEF znq
<1>9. /\ x \in Seq(Bit) /\ Len(x) = LowLen(m) /\ \A k \in 1 .. 5 : x[k] = zn[k]
      /\ \A k \in 1 .. Len(e) : x[5 + w + k] = e[k]
  <2>1. /\ x \in Seq(Bit) /\ Len(x) = Len(znq) + Len(e)
        /\ \A k \in 1 .. Len(znq) : x[k] = znq[k]
        /\ \A k \in 1 .. Len(e) : x[Len(znq) + k] = e[k]
    BY <1>1, <1>6, <1>8, Joins
  <2>2. \A k \in 1 .. 5 : k \in 1 .. Len(znq)
    BY <1>4, <1>8
  <2> QED BY <1>4, <1>6, <1>8, <2>1, <2>2
<1>10. x[1] = 0 /\ Field4(x, 1) = m
  BY <1>7, <1>9 DEF Field4
<1>11. m = 1 => Field4(x, 39) = v
  <2> SUFFICES ASSUME m = 1 PROVE Field4(x, 39) = v
    OBVIOUS
  <2>1. \A k \in 1 .. 4 : x[39 + k] = e[k]
    BY <1>4, <1>6, <1>9
  <2>2. x[40] = e[1] /\ x[41] = e[2] /\ x[42] = e[3] /\ x[43] = e[4]
    BY <2>1
  <2> QED BY <1>6, <2>2 DEF Field4
<1> QED BY <1>9, <1>10, <1>11 DEF x, m, v

(* The bits of a layer.                                                     *)
LEMMA HighBitsAt ==
  ASSUME NEW h \in 0 .. 4, NEW p \in Bit
  PROVE  LET x == HighBits(h, p)
         IN  x \in Seq(Bit) /\ Len(x) = LayerLen(h) /\ LayerAt(x, 0, h)
<1> DEFINE z == BitsOf(1, 1)
           n == BitsOf(h, 3)
           w == IF h = 0 THEN 0 ELSE EncodedLayer(wb_submodes[h])
           q == IF h = 0 THEN <<>> ELSE Payload(EncodedLayer(wb_submodes[h]), p)
           zn == z \o n
           x == HighBits(h, p)
<1>1. x = zn \o q
  BY DEF HighBits, SB_SUBMODE_BITS
<1>2. z \in Seq(Bit) /\ Len(z) = 1 /\ z[1] = 1
  BY Numerals
<1>3. n \in Seq(Bit) /\ Len(n) = 3 /\ Field3(n, 0) = h
  BY Numerals, SMTT(30)
<1>4. /\ w \in Nat /\ LayerLen(h) = 4 + w
  <2>1. CASE h = 0
    BY <2>1 DEF LayerLen
  <2>2. CASE h \in 1 .. 4
    <3>1. LayerLen(h) \in 4 .. 352
      BY <2>2, Lengths
    <3>2. LayerLen(h) = 4 + w
      BY <2>2 DEF LayerLen
    <3>3. EncodedLayer(wb_submodes[h]) \in Nat
      BY <2>2, LayerWidths
    <3> QED BY <2>2, <3>2, <3>3
  <2> QED BY <2>1, <2>2
<1>5. q \in Seq(Bit) /\ Len(q) = w
  <2>1. CASE h = 0
    BY <2>1
  <2>2. CASE h # 0
    BY <1>4, <2>2, Payloads
  <2> QED BY <2>1, <2>2
<1> HIDE DEF z, n, w, q, x
<1>7. /\ zn \in Seq(Bit) /\ Len(zn) = 4 /\ zn[1] = 1 /\ Field3(zn, 1) = h
  <2>1. /\ zn \in Seq(Bit) /\ Len(zn) = 4 /\ zn[1] = z[1]
        /\ \A k \in 1 .. 3 : zn[1 + k] = n[k]
    <3>0. Concat(zn, z, n, Len(z), Len(n))
      BY <1>2, <1>3 DEF Concat
    <3> HIDE DEF zn
    <3>1. zn \in Seq(Bit) /\ Len(zn) = Len(z) + Len(n) /\ (\A k \in 1 .. Len(z) : zn[k] = z[k])
          /\ \A k \in 1 .. Len(n) : zn[Len(z) + k] = n[k]
      BY <3>0, JoinAt
    <3> QED BY <1>2, <1>3, <3>1
  <2>2. zn[2] = n[1] /\ zn[3] = n[2] /\ zn[4] = n[3]
    BY <2>1
  <2> HIDE DEF zn
  <2> QED BY <1>2, <1>3, <2>1, <2>2 DEF Field3
<1> HIDE DEF zn
<1>8. /\ x \in Seq(Bit) /\ Len(x) = LayerLen(h) /\ \A k \in 1 .. 4 : x[k] = zn[k]
  <2>1. /\ x \in Seq(Bit) /\ Len(x) = 4 + w /\ \A k \in 1 .. 4 : x[k] = zn[k]
    <3>1. Concat(x, zn, q, 4, w)
      BY <1>1, <1>5, <1>7 DEF Concat
    <3> QED BY <3>1, JoinAt
  <2> QED BY <1>4, <2>1
<1>9. LayerAt(x, 0, h)
  BY <1>7, <1>8 DEF LayerAt, Field3
<1> QED BY <1>8, <1>9 DEF x

(* A frame is known by its own bits, wherever they are.                     *)
(* The l bits of y behind b are those of x behind a.                        *)
SameBits(y, b, x, a, l) == \A k \in 1 .. l : y[b + k] = x[a + k]

(* A frame is known by its bits, wherever it stands.                        *)
LEMMA FrameMoves ==
  ASSUME NEW x, NEW a \in Nat, NEW y, NEW b \in Nat, NEW l, NEW f \in SentFrames, NEW wide \in BOOLEAN,
         FrameAt(x, a, f, wide), l = FrameLen(f, wide), SameBits(y, b, x, a, l)
  PROVE  FrameAt(y, b, f, wide)
<1>1. /\ f.low \in 0 .. 8 /\ f.high \in 0 .. 4
  BY DEF SentFrames
<1>2. /\ LowLen(f.low) \in 5 .. 492 /\ LayerLen(f.high) \in 4 .. 352
      /\ f.low = 1 => LowLen(f.low) = 43
  BY <1>1, Lengths
<1> DEFINE n == LowLen(f.low)
           h == LayerLen(f.high)
<1>3. l = n + (IF wide THEN h ELSE 0)
  BY DEF FrameLen
<1> HIDE DEF n, h
<1>4. n \in 5 .. 492 /\ h \in 4 .. 352 /\ (f.low = 1 => n = 43)
  BY <1>2 DEF n, h
<1>5. \A k \in 1 .. n : y[b + k] = x[a + k]
  <2>1. \A k \in 1 .. n : k \in 1 .. l
    <3>1. CASE wide
      BY <1>3, <1>4, <3>1
    <3>2. CASE ~wide
      BY <1>3, <1>4, <3>2
    <3> QED BY <3>1, <3>2
  <2> QED BY <2>1 DEF SameBits
<1>6. y[b + 1] = x[a + 1] /\ y[b + 2] = x[a + 2] /\ y[b + 3] = x[a + 3] /\ y[b + 4] = x[a + 4]
      /\ y[b + 5] = x[a + 5]
  BY <1>4, <1>5
<1>7. f.low = 1 => /\ y[b + 40] = x[a + 40] /\ y[b + 41] = x[a + 41] /\ y[b + 42] = x[a + 42]
                   /\ y[b + 43] = x[a + 43]
  BY <1>4, <1>5
<1>8. LowAt(x, a, f) /\ (wide => LayerAt(x, a + n, f.high))
  BY DEF FrameAt, n
<1>9. Field4(y, b + 1) = Field4(x, a + 1)
  BY <1>6 DEF Field4
<1>10. f.low = 1 => Field4(y, b + 39) = Field4(x, a + 39)
  BY <1>7 DEF Field4
<1>11. LowAt(y, b, f)
  BY <1>6, <1>8, <1>9, <1>10 DEF LowAt
<1>12. wide => LayerAt(y, b + n, f.high)
  <2> SUFFICES ASSUME wide PROVE LayerAt(y, b + n, f.high)
    OBVIOUS
  <2>1. n + 1 \in 1 .. n + h /\ n + 2 \in 1 .. n + h /\ n + 3 \in 1 .. n + h /\ n + 4 \in 1 .. n + h
    BY <1>4
  <2>2. \A k \in 1 .. n + h : y[b + k] = x[a + k]
    BY <1>3 DEF SameBits
  <2>3. /\ y[b + (n + 1)] = x[a + (n + 1)] /\ y[b + (n + 2)] = x[a + (n + 2)]
        /\ y[b + (n + 3)] = x[a + (n + 3)] /\ y[b + (n + 4)] = x[a + (n + 4)]
    BY <2>1, <2>2
  <2>4. \A i \in 1 .. 4 : b + (n + i) = (b + n) + i /\ a + (n + i) = (a + n) + i
    BY <1>4
  <2>5. \A i \in 0 .. 3 : /\ ((b + n) + 1) + i = (b + n) + (i + 1)
                          /\ ((a + n) + 1) + i = (a + n) + (i + 1)
    BY <1>4
  <2>6. /\ y[(b + n) + 1] = x[(a + n) + 1] /\ y[((b + n) + 1) + 1] = x[((a + n) + 1) + 1]
        /\ y[((b + n) + 1) + 2] = x[((a + n) + 1) + 2] /\ y[((b + n) + 1) + 3] = x[((a + n) + 1) + 3]
    BY <2>3, <2>4, <2>5
  <2>7. LayerAt(x, a + n, f.high)
    BY <1>8
  <2> QED BY <2>6, <2>7 DEF LayerAt, Field3
<1> QED BY <1>11, <1>12 DEF FrameAt, n

(* What the encoder packs is the frame it notes.                            *)
LEMMA FrameBitsAt ==
  ASSUME NEW e, NEW low, NEW high, NEW p \in Bit, NEW f \in SentFrames,
         e.wide \in BOOLEAN, low.submodeID \in 0 .. 8, LayerMode(low, high) \in 0 .. 4,
         f.low = low.submodeID, e.wide => f.high = LayerMode(low, high),
         f.analysed => (low.dtx_count # 0 <=> f.silent)
  PROVE  LET x == FrameBits(e, low, high, p)
         IN  x \in Seq(Bit) /\ Len(x) = FrameLen(f, e.wide) /\ FrameAt(x, 0, f, e.wide)
<1> DEFINE u == LowBits(low, p)
           n == LowLen(f.low)
           x == FrameBits(e, low, high, p)
<1>1. /\ u \in Seq(Bit) /\ Len(u) = n /\ u[1] = 0 /\ Field4(u, 1) = f.low
      /\ f.low = 1 => Field4(u, 39) = (IF low.dtx_count # 0 THEN 15 ELSE 0)
  BY LowBitsAt
<1>2. n \in 5 .. 492
  BY Lengths
<1> HIDE DEF u, n
<1>3. LowAt(u, 0, f)
  BY <1>1 DEF LowAt
<1>4. CASE ~e.wide
  <2>1. x = u \o <<>>
    BY <1>4 DEF FrameBits, u
  <2>2. x = u
    BY <1>1, <2>1
  <2>3. FrameLen(f, e.wide) = n
    BY <1>2, <1>4 DEF FrameLen, n
  <2>4. FrameAt(u, 0, f, e.wide)
    BY <1>3, <1>4 DEF FrameAt
  <2> HIDE DEF x
  <2> QED BY <1>1, <2>2, <2>3, <2>4 DEF x
<1>5. CASE e.wide
  <2> DEFINE v == HighBits(f.high, p)
             g == [f EXCEPT !.low = 0]
  <2>1. x = u \o v
    BY <1>5 DEF FrameBits, u
  <2>2. v \in Seq(Bit) /\ Len(v) = LayerLen(f.high) /\ LayerAt(v, 0, f.high)
    BY <1>5, HighBitsAt
  <2>3. LayerLen(f.high) \in 4 .. 352
    BY <1>5, Lengths
  <2> HIDE DEF v, x
  <2>4. /\ x \in Seq(Bit) /\ Len(x) = n + LayerLen(f.high)
        /\ \A k \in 1 .. n : x[k] = u[k]
        /\ \A k \in 1 .. LayerLen(f.high) : x[n + k] = v[k]
    <3>1. Concat(x, u, v, n, LayerLen(f.high))
      BY <1>1, <2>1, <2>2 DEF Concat
    <3> QED BY <3>1, JoinAt
  <2>5. Len(x) = FrameLen(f, e.wide)
    BY <1>5, <2>4 DEF FrameLen, n
  <2>6. FrameAt(u, 0, f, FALSE)
    BY <1>3 DEF FrameAt
  <2>7. FrameAt(x, 0, f, FALSE)
    <3>1. FrameLen(f, FALSE) = n
      BY <1>2 DEF FrameLen, n
    <3>2. \A k \in 1 .. n : 0 + k = k
      BY <1>2
    <3>3. SameBits(x, 0, u, 0, n)
      BY <2>4, <3>2 DEF SameBits
    <3> QED BY <2>6, <3>1, <3>3, FrameMoves
  <2>8. LayerAt(x, n, f.high)
    <3>1. x[n + 1] = v[1] /\ x[n + 2] = v[2] /\ x[n + 3] = v[3] /\ x[n + 4] = v[4]
      <4>1. \A k \in 1 .. 4 : k \in 1 .. LayerLen(f.high)
        BY <2>3
      <4> QED BY <2>4, <4>1
    <3>2. x[(n + 1) + 1] = v[2] /\ x[(n + 1) + 2] = v[3] /\ x[(n + 1) + 3] = v[4]
      <4>1. (n + 1) + 1 = n + 2 /\ (n + 1) + 2 = n + 3 /\ (n + 1) + 3 = n + 4
        BY <1>2
      <4> QED BY <3>1, <4>1
    <3> QED BY <2>2, <3>1, <3>2 DEF LayerAt, Field3
  <2>9. 0 + n = n
    BY <1>2
  <2>10. FrameAt(x, 0, f, e.wide)
    BY <1>5, <2>7, <2>8, <2>9 DEF FrameAt, n
  <2> QED BY <2>4, <2>5, <2>10 DEF x
<1> QED BY <1>4, <1>5

(* Induction over data: a set of numbers has a least one, and one that is   *)
(* bounded has a greatest one.                                              *)
LEMMA LessWellFounded == IsWellFoundedOn({ss \in Nat \X Nat : ss[1] < ss[2]}, Nat)
BY NatLessThanWellFounded, Zenon DEF OpToRel

LEMMA NatMin ==
  ASSUME NEW T, T \subseteq Nat, T # {}
  PROVE  \E x \in T : \A y \in T : x <= y
<1> DEFINE LT == {ss \in Nat \X Nat : ss[1] < ss[2]}
<1>1. \A x, y \in Nat : y < x => <<y, x>> \in LT
  OBVIOUS
<1>2. IsWellFoundedOn(LT, Nat)
  BY LessWellFounded
<1> HIDE DEF LT
<1>3. PICK x \in T : \A y \in T : ~ (<<y, x>> \in LT)
  BY WFMin, <1>2
<1>4. \A y \in T : ~(y < x)
  BY <1>1, <1>3
<1> QED BY <1>4

LEMMA NatMax ==
  ASSUME NEW n \in Nat, NEW T, T \subseteq 0 .. n, T # {}
  PROVE  \E x \in T : \A y \in T : y <= x
<1> DEFINE U == {n - i : i \in T}
<1>1. U \subseteq Nat /\ U # {}
  <2>1. \A i \in T : i \in 0 .. n /\ n - i \in Nat
    OBVIOUS
  <2>2. PICK i \in T : TRUE
    OBVIOUS
  <2>3. n - i \in U
    OBVIOUS
  <2> QED BY <2>1, <2>3
<1>2. PICK u \in U : \A v \in U : u <= v
  BY <1>1, NatMin
<1>3. PICK i \in T : u = n - i
  OBVIOUS
<1>4. \A y \in T : n - i <= n - y
  BY <1>2, <1>3
<1>5. ASSUME NEW y \in T PROVE y <= i
  <2>1. y \in 0 .. n /\ i \in 0 .. n /\ n - i <= n - y
    BY <1>4
  <2> QED BY <2>1
<1> QED BY <1>5

-----------------------------------------------------------------------------
(* Frames behind each other                                                 *)

LEMMA FrameLens ==
  ASSUME NEW f \in SentFrames, NEW wide \in BOOLEAN
  PROVE  FrameLen(f, wide) \in 5 .. 844
<1> DEFINE n == LowLen(f.low)
           l == LayerLen(f.high)
<1>1. n \in 5 .. 492 /\ l \in 4 .. 352
  BY Lengths DEF SentFrames
<1>2. FrameLen(f, wide) = n + (IF wide THEN l ELSE 0)
  BY DEF FrameLen
<1> HIDE DEF n, l
<1>3. n + (IF wide THEN l ELSE 0) \in 5 .. 844
  <2>1. CASE wide
    BY <1>1, <2>1
  <2>2. CASE ~wide
    BY <1>1, <2>2
  <2> QED BY <2>1, <2>2
<1> QED BY <1>2, <1>3

(* Places that climb, each step by at most the longest frame.               *)
Climbs(at, n) ==
  /\ at \in [1 .. n + 1 -> Nat]
  /\ \A i \in 1 .. n : at[i] <= at[i + 1] /\ at[i + 1] <= at[i] + 844

(* The places of the frames go up, by no more than the longest frame.       *)
LEMMA ClimbFrom ==
  ASSUME NEW n \in Nat, NEW at, Climbs(at, n)
  PROVE  \A i \in 1 .. n + 1 : at[1] <= at[i] /\ at[i] <= at[1] + 844 * (i - 1)
<1> DEFINE Good(i) == at[1] <= at[i] /\ at[i] <= at[1] + 844 * (i - 1)
           T == {i \in 1 .. n + 1 : ~Good(i)}
<1>1. \A i \in 1 .. n + 1 : at[i] \in Nat
  BY DEF Climbs
<1>2. T = {}
  <2> SUFFICES ASSUME T # {} PROVE FALSE
    OBVIOUS
  <2>1. T \subseteq Nat
    OBVIOUS
  <2>2. PICK i \in T : \A j \in T : i <= j
    <3> HIDE DEF T
    <3> QED BY <2>1, NatMin
  <2>3. i \in 1 .. n + 1 /\ ~Good(i)
    OBVIOUS
  <2>4. at[1] \in Nat
    <3>1. 1 \in 1 .. n + 1
      OBVIOUS
    <3> QED BY <1>1, <3>1
  <2>5. i # 1
    <3>1. Good(1)
      BY <2>4
    <3> QED BY <2>3, <3>1
  <2>6. PICK j \in 1 .. n : i = j + 1
    <3>1. i - 1 \in 1 .. n /\ i = (i - 1) + 1
      BY <2>3, <2>5
    <3> QED BY <3>1
  <2>7. j \in 1 .. n + 1 /\ ~(i <= j)
    BY <2>6
  <2>8. Good(j)
    <3>1. j \notin T
      BY <2>2, <2>7
    <3> QED BY <2>7, <3>1
  <2>9. at[j] <= at[j + 1] /\ at[j + 1] <= at[j] + 844
    BY DEF Climbs
  <2>10. at[j] \in Nat /\ at[j + 1] \in Nat
    BY <1>1, <2>3, <2>6, <2>7
  <2>11. Good(j + 1)
    BY <2>4, <2>8, <2>9, <2>10
  <2> QED BY <2>3, <2>6, <2>11
<1> QED BY <1>2

LEMMA ClimbTo ==
  ASSUME NEW n \in Nat, NEW at, Climbs(at, n)
  PROVE  \A i \in 1 .. n + 1 : at[i] <= at[n + 1]
<1> DEFINE Good(i) == at[i] <= at[n + 1]
           T == {k \in 0 .. n : ~Good(n + 1 - k)}
<1>1. \A i \in 1 .. n + 1 : at[i] \in Nat
  BY DEF Climbs
<1>2. T = {}
  <2> SUFFICES ASSUME T # {} PROVE FALSE
    OBVIOUS
  <2>1. T \subseteq Nat
    OBVIOUS
  <2>2. PICK k \in T : \A j \in T : k <= j
    <3> HIDE DEF T
    <3> QED BY <2>1, NatMin
  <2>3. k \in 0 .. n /\ ~Good(n + 1 - k)
    OBVIOUS
  <2>4. at[n + 1] \in Nat
    <3>1. n + 1 \in 1 .. n + 1
      OBVIOUS
    <3> QED BY <1>1, <3>1
  <2>5. k # 0
    <3>1. Good(n + 1) /\ n + 1 - 0 = n + 1
      BY <2>4
    <3> QED BY <2>3, <3>1
  <2>6. PICK i \in 1 .. n : n + 1 - k = i /\ n + 1 - (k - 1) = i + 1
    <3>1. n + 1 - k \in 1 .. n /\ n + 1 - (k - 1) = (n + 1 - k) + 1
      BY <2>3, <2>5
    <3> QED BY <3>1
  <2>7. k - 1 \in 0 .. n /\ ~(k <= k - 1)
    BY <2>3, <2>5
  <2>8. Good(i + 1)
    <3>1. k - 1 \notin T
      BY <2>2, <2>7
    <3>2. Good(n + 1 - (k - 1))
      BY <2>7, <3>1
    <3> QED BY <2>6, <3>2
  <2>9. at[i] <= at[i + 1]
    BY DEF Climbs
  <2>10. at[i] \in Nat /\ at[i + 1] \in Nat
    <3>1. i \in 1 .. n + 1 /\ i + 1 \in 1 .. n + 1
      OBVIOUS
    <3> QED BY <1>1, <3>1
  <2>11. Good(i)
    BY <2>4, <2>8, <2>9, <2>10
  <2> QED BY <2>3, <2>6, <2>11
<1>3. ASSUME NEW i \in 1 .. n + 1 PROVE Good(i)
  <2>1. n + 1 - i \in 0 .. n /\ n + 1 - (n + 1 - i) = i
    OBVIOUS
  <2>2. n + 1 - i \notin T
    BY <1>2
  <2>3. Good(n + 1 - (n + 1 - i))
    BY <2>1, <2>2
  <2> QED BY <2>1, <2>3
<1> QED BY <1>3

(* Frames lie inside the packet, which is not longer than its frames can be. *)
Inside(at, fs, wide, n) ==
  /\ \A i \in 1 .. n + 1 : /\ at[i] \in Nat /\ at[1] <= at[i] /\ at[i] <= at[n + 1]
                           /\ at[i] <= 17 + 844 * (i - 1)
  /\ \A i \in 1 .. n : /\ fs[i] \in SentFrames /\ FrameLen(fs[i], wide) \in 5 .. 844
                       /\ at[i + 1] = at[i] + FrameLen(fs[i], wide)
                       /\ at[i] + FrameLen(fs[i], wide) <= at[n + 1]

(* Every frame of a packet lies inside of it, and the packet is not too     *)
(* long.                                                                    *)
LEMMA LayoutSize ==
  ASSUME NEW c, NEW at, NEW fs \in Seq(SentFrames), NEW wide \in BOOLEAN, Layout(c, at, fs, wide)
  PROVE  Inside(at, fs, wide, Len(fs))
<1>1. PICK n \in Nat : Len(fs) = n
  OBVIOUS
<1>2. /\ at \in [1 .. n + 1 -> Nat]
      /\ at[1] = 0 \/ at[1] = 17
      /\ \A i \in 1 .. n : at[i + 1] = at[i] + FrameLen(fs[i], wide)
  BY <1>1 DEF Layout
<1>3. \A i \in 1 .. n : fs[i] \in SentFrames
  BY <1>1
<1>4. \A i \in 1 .. n : FrameLen(fs[i], wide) \in 5 .. 844
  BY <1>3, FrameLens, ZenonT(30)
<1>5. \A i \in 1 .. n : i \in 1 .. n + 1 /\ i + 1 \in 1 .. n + 1
  OBVIOUS
<1>6. \A i \in 1 .. n + 1 : at[i] \in Nat
  BY <1>2
<1>7. ASSUME NEW i \in 1 .. n PROVE at[i] <= at[i + 1] /\ at[i + 1] <= at[i] + 844
  <2>1. at[i] \in Nat /\ at[i + 1] \in Nat /\ at[i + 1] = at[i] + FrameLen(fs[i], wide)
    BY <1>2, <1>5, <1>6
  <2>2. FrameLen(fs[i], wide) \in 5 .. 844
    BY <1>4
  <2>3. PICK u, v, l : u = at[i] /\ v = at[i + 1] /\ l = FrameLen(fs[i], wide)
    OBVIOUS
  <2>4. u \in Nat /\ v \in Nat /\ l \in 5 .. 844 /\ v = u + l
    BY <2>1, <2>2, <2>3
  <2>5. u <= v /\ v <= u + 844
    BY ONLY <2>4
  <2> QED BY <2>3, <2>5
<1>8. Climbs(at, n)
  BY <1>2, <1>7 DEF Climbs
<1>9. \A i \in 1 .. n + 1 : at[1] <= at[i] /\ at[i] <= at[1] + 844 * (i - 1)
  BY <1>8, ClimbFrom
<1>10. \A i \in 1 .. n + 1 : at[i] <= at[n + 1]
  BY <1>8, ClimbTo
<1>11. ASSUME NEW i \in 1 .. n + 1 PROVE at[i] <= 17 + 844 * (i - 1)
  <2>1. at[1] \in Nat /\ at[1] <= 17
    BY <1>2
  <2>2. at[i] \in Nat /\ at[i] <= at[1] + 844 * (i - 1)
    BY <1>6, <1>9
  <2> QED BY <2>1, <2>2
<1>12. ASSUME NEW i \in 1 .. n PROVE at[i] + FrameLen(fs[i], wide) <= at[n + 1]
  <2>1. at[i + 1] <= at[n + 1] /\ at[i + 1] = at[i] + FrameLen(fs[i], wide)
    BY <1>2, <1>5, <1>10
  <2> QED BY <2>1
<1>13. Inside(at, fs, wide, n)
  BY <1>2, <1>3, <1>4, <1>6, <1>9, <1>10, <1>11, <1>12 DEF Inside
<1> QED BY <1>1, <1>13

(* Bits behind the packet do not matter.                                    *)
LEMMA LayoutMoves ==
  ASSUME NEW c, NEW d, NEW at, NEW fs \in Seq(SentFrames), NEW wide \in BOOLEAN,
         Layout(c, at, fs, wide), \A k \in 1 .. at[Len(fs) + 1] : d[k] = c[k]
  PROVE  Layout(d, at, fs, wide)
<1>1. PICK n \in Nat : Len(fs) = n
  OBVIOUS
<1>2. PICK end : end = at[n + 1]
  OBVIOUS
<1>3. /\ at \in [1 .. n + 1 -> Nat]
      /\ at[1] = 0 \/ (at[1] = 17 /\ HeaderAt(c))
      /\ \A i \in 1 .. n : at[i + 1] = at[i] + FrameLen(fs[i], wide)
      /\ \A i \in 1 .. n : FrameAt(c, at[i], fs[i], wide)
  BY <1>1 DEF Layout
<1>4. Inside(at, fs, wide, n)
  BY <1>1, LayoutSize
<1>5. \A k \in 1 .. end : d[k] = c[k]
  BY <1>1, <1>2
<1>6. at[1] = 17 => HeaderAt(d)
  <2> SUFFICES ASSUME at[1] = 17 PROVE HeaderAt(d)
    OBVIOUS
  <2>1. 1 \in 1 .. n + 1 /\ n + 1 \in 1 .. n + 1
    OBVIOUS
  <2>2. 17 <= end /\ end \in Nat
    BY <1>2, <1>4, <2>1 DEF Inside
  <2>3. \A k \in 1 .. 9 : d[k] = c[k]
    BY <1>5, <2>2
  <2>4. HeaderAt(c)
    BY <1>3
  <2>5. d[1] = c[1] /\ Field4(d, 1) = Field4(c, 1) /\ Field4(d, 5) = Field4(c, 5)
    BY <2>3 DEF Field4
  <2> QED BY <2>4, <2>5 DEF HeaderAt
<1>7. ASSUME NEW i \in 1 .. n PROVE FrameAt(d, at[i], fs[i], wide)
  <2>1. i \in 1 .. n + 1 /\ n + 1 \in 1 .. n + 1
    BY SMTT(30)
  <2>2. PICK a \in Nat, l \in 5 .. 844, f \in SentFrames :
          a = at[i] /\ l = FrameLen(f, wide) /\ f = fs[i] /\ a + l <= end /\ end \in Nat
    <3>1. /\ at[i] \in Nat /\ end \in Nat /\ FrameLen(fs[i], wide) \in 5 .. 844
          /\ fs[i] \in SentFrames /\ at[i] + FrameLen(fs[i], wide) <= end
      <4>1. end \in Nat
        BY <1>2, <1>4, <2>1 DEF Inside
      <4> QED BY <1>2, <1>4, <2>1, <4>1 DEF Inside
    <3> QED BY <3>1
  <2>3. FrameAt(c, a, f, wide)
    BY <1>3, <2>2
  <2>4. ASSUME NEW k \in 1 .. l PROVE d[a + k] = c[a + k]
    <3>1. a + k \in 1 .. end
      BY <2>2
    <3> QED BY <1>5, <3>1
  <2>5. FrameAt(d, a, f, wide)
    <3>1. SameBits(d, a, c, a, l)
      BY <2>4 DEF SameBits
    <3> QED BY <2>2, <2>3, <3>1, FrameMoves
  <2> QED BY <2>2, <2>5
<1> QED BY <1>1, <1>3, <1>6, <1>7 DEF Layout

(* One frame more.                                                          *)
LEMMA LayoutGrows ==
  ASSUME NEW c \in Seq(Bit), NEW at, NEW fs \in Seq(SentFrames), NEW wide \in BOOLEAN,
         Layout(c, at, fs, wide), Len(c) = at[Len(fs) + 1],
         NEW x \in Seq(Bit), NEW f \in SentFrames, Len(x) = FrameLen(f, wide), FrameAt(x, 0, f, wide)
  PROVE  \E at2 : /\ Layout(c \o x, at2, Append(fs, f), wide)
                  /\ Len(c \o x) = at2[Len(Append(fs, f)) + 1]
<1>1. PICK n \in Nat : Len(fs) = n
  OBVIOUS
<1>2. PICK gs : gs = Append(fs, f)
  OBVIOUS
<1>3. PICK d : d = c \o x
  OBVIOUS
<1>4. PICK end, l : end = at[n + 1] /\ l = Len(x)
  OBVIOUS
<1>5. at \in [1 .. n + 1 -> Nat] /\ end \in Nat /\ l \in Nat
  <2>1. at \in [1 .. n + 1 -> Nat]
    BY <1>1 DEF Layout
  <2>2. n + 1 \in 1 .. n + 1
    OBVIOUS
  <2> QED BY <1>4, <2>1, <2>2
<1>6. /\ d \in Seq(Bit) /\ Len(d) = end + l
      /\ \A k \in 1 .. end : d[k] = c[k]
      /\ \A k \in 1 .. l : d[end + k] = x[k]
  <2>1. Concat(d, c, x, end, l)
    BY <1>1, <1>3, <1>4 DEF Concat
  <2> QED BY <2>1, JoinAt
<1>7. Layout(d, at, fs, wide)
  BY <1>1, <1>4, <1>6, LayoutMoves
<1>8. Len(gs) = n + 1 /\ gs[n + 1] = f /\ \A i \in 1 .. n : gs[i] = fs[i]
  BY <1>1, <1>2
<1>9. PICK at2 : at2 = [i \in 1 .. n + 2 |-> IF i <= n + 1 THEN at[i] ELSE end + l]
  OBVIOUS
<1>10. /\ at2 \in [1 .. n + 2 -> Nat] /\ at2[n + 2] = end + l
       /\ \A i \in 1 .. n + 1 : at2[i] = at[i]
  <2>1. \A i \in 1 .. n + 1 : i \in 1 .. n + 2 /\ i <= n + 1
    OBVIOUS
  <2>2. n + 2 \in 1 .. n + 2 /\ ~(n + 2 <= n + 1)
    OBVIOUS
  <2>3. \A i \in 1 .. n + 2 : i <= n + 1 => i \in 1 .. n + 1
    OBVIOUS
  <2>4. end + l \in Nat
    BY <1>5
  <2>5. \A i \in 1 .. n + 2 : (IF i <= n + 1 THEN at[i] ELSE end + l) \in Nat
    BY <1>5, <2>3, <2>4
  <2> QED BY <1>9, <2>1, <2>2, <2>5
<1>11. at2[1] = 0 \/ (at2[1] = 17 /\ HeaderAt(d))
  <2>1. at2[1] = at[1]
    <3>1. 1 \in 1 .. n + 1
      OBVIOUS
    <3> QED BY <1>10, <3>1
  <2> QED BY <1>7, <2>1 DEF Layout
<1>12. ASSUME NEW i \in 1 .. n + 1
       PROVE  /\ at2[i + 1] = at2[i] + FrameLen(gs[i], wide)
              /\ FrameAt(d, at2[i], gs[i], wide)
  <2>1. CASE i \in 1 .. n
    <3>1. /\ i \in 1 .. n + 1 /\ i + 1 \in 1 .. n + 1
      BY <2>1
    <3>2. at[i + 1] = at[i] + FrameLen(fs[i], wide) /\ FrameAt(d, at[i], fs[i], wide)
      BY <1>1, <1>7, <2>1 DEF Layout
    <3> QED BY <1>8, <1>10, <2>1, <3>1, <3>2
  <2>2. CASE i = n + 1
    <3>1. at2[i] = end /\ at2[i + 1] = end + l /\ gs[i] = f
      <4>1. i + 1 = n + 2 /\ i \in 1 .. n + 1
        BY <2>2
      <4> QED BY <1>4, <1>8, <1>10, <2>2, <4>1
    <3>2. l = FrameLen(f, wide)
      BY <1>4
    <3>3. \A k \in 1 .. l : d[end + k] = x[0 + k]
      <4>1. \A k \in 1 .. l : 0 + k = k
        BY <1>5
      <4> QED BY <1>6, <4>1
    <3>4. FrameAt(d, end, f, wide)
      <4>1. PICK zero \in Nat : zero = 0
        OBVIOUS
      <4>2. FrameAt(x, zero, f, wide) /\ SameBits(d, end, x, zero, l)
        BY <3>3, <4>1 DEF SameBits
      <4> QED BY <1>5, <3>2, <4>2, FrameMoves
    <3> QED BY <3>1, <3>2, <3>4
  <2>3. i \in 1 .. n \/ i = n + 1
    OBVIOUS
  <2> QED BY <2>1, <2>2, <2>3
<1>13. Len(gs) + 1 = n + 2
  BY <1>8
<1>14. Layout(d, at2, gs, wide) /\ Len(d) = at2[Len(gs) + 1]
  BY <1>6, <1>8, <1>10, <1>11, <1>12, <1>13 DEF Layout
<1> QED BY <1>2, <1>3, <1>14

-----------------------------------------------------------------------------
(* Reading                                                                  *)

(* A packet that is read at place p.                                        *)
Readable(b, p) ==
  /\ b \in Streams /\ b.nbBits = Len(b.chars) /\ ~b.overflow
  /\ b.pos = p /\ p \in Nat /\ p <= Len(b.chars)

At(b, p) == [b EXCEPT !.pos = p]

(* Advancing inside of the packet does not overflow.                        *)
LEMMA Reads ==
  ASSUME NEW b, NEW p, Readable(b, p), NEW n \in Int, 0 <= p + n, p + n <= Len(b.chars)
  PROVE  /\ Advanced(b, n) = At(b, p + n) /\ ~Exhausted(b, n)
         /\ Readable(At(b, p + n), p + n) /\ At(b, p + n).chars = b.chars
<1>1. b \in Streams /\ b.nbBits = Len(b.chars) /\ b.overflow = FALSE /\ b.pos = p
      /\ p \in Nat /\ p <= Len(b.chars)
  BY DEF Readable, Streams
<1>2. Len(b.chars) \in Nat
  BY <1>1 DEF Streams
<1>3. PICK q, l \in Nat : q = p + n /\ l = Len(b.chars) /\ q \in Nat
  BY <1>1, <1>2
<1>4. ~Exhausted(b, n)
  BY <1>1, <1>3 DEF Exhausted
<1>5. Advanced(b, n) = At(b, q)
  BY <1>1, <1>3, <1>4 DEF Advanced, At
<1>6. /\ At(b, q).chars = b.chars /\ At(b, q).nbBits = b.nbBits /\ At(b, q).overflow = FALSE
      /\ At(b, q).pos = q /\ At(b, q) \in Streams
  BY <1>1, <1>3 DEF At, Streams
<1>7. Readable(At(b, q), q)
  <2>1. q <= Len(b.chars)
    BY <1>3
  <2> QED BY <1>1, <1>3, <1>6, <2>1 DEF Readable
<1> QED BY <1>3, <1>4, <1>5, <1>6, <1>7

LEMMA Remaining ==
  ASSUME NEW b, NEW p, Readable(b, p)
  PROVE  /\ speex_bits_remaining(b) = Len(b.chars) - p /\ p \in Nat /\ Len(b.chars) \in Nat /\ p <= Len(b.chars)
         /\ b.chars \in Seq(Bit) /\ \A k \in 1 .. Len(b.chars) : b.chars[k] \in Bit
<1>1. b \in Streams /\ b.nbBits = Len(b.chars) /\ b.overflow = FALSE /\ b.pos = p
      /\ p \in Nat /\ p <= Len(b.chars)
  BY DEF Readable, Streams
<1>2. b.chars \in Seq(Bit)
  BY <1>1 DEF Streams
<1>3. Len(b.chars) \in Nat /\ \A k \in 1 .. Len(b.chars) : b.chars[k] \in Bit
  BY <1>2
<1> QED BY <1>1, <1>2, <1>3 DEF speex_bits_remaining

LEMMA Moves ==
  ASSUME NEW b, NEW p, NEW q
  PROVE  At(At(b, p), q) = At(b, q)
BY DEF At

(* A field is a number in base two.                                         *)
Horner(v, c, p, n) == v = [i \in 0 .. n |-> IF i = 0 THEN 0 ELSE 2 * v[i - 1] + c[p + i]]

(* The recursion of speex_bits_unpack_unsigned, on few bits.                *)
LEMMA UnpackedIs ==
  ASSUME NEW b, NEW n \in Nat, NEW w, Horner(w, b.chars, b.pos, n), ~Exhausted(b, n)
  PROVE  \E v : Horner(v, b.chars, b.pos, n) /\ Unpacked(b, n) = v[n]
<1> DEFINE v == CHOOSE f : f = [i \in 0 .. n |-> IF i = 0 THEN 0 ELSE 2 * f[i - 1] + b.chars[b.pos + i]]
<1>1. v = [i \in 0 .. n |-> IF i = 0 THEN 0 ELSE 2 * v[i - 1] + b.chars[b.pos + i]]
  BY DEF Horner
<1>2. Unpacked(b, n) = v[n]
  BY DEF Unpacked
<1> QED BY <1>1, <1>2 DEF Horner

LEMMA Bit1 ==
  ASSUME NEW b, NEW p, Readable(b, p), p + 1 <= Len(b.chars)
  PROVE  Unpacked(b, 1) = b.chars[p + 1] /\ b.chars[p + 1] \in Bit
<1> DEFINE c == b.chars
           w == [i \in 0 .. 1 |-> IF i = 0 THEN 0 ELSE c[p + 1]]
<1>1. b.pos = p /\ p \in Nat
  BY DEF Readable
<1>2. c[p + 1] \in Bit
  <2>1. p + 1 \in 1 .. Len(c)
    BY <1>1, Remaining
  <2> HIDE DEF c
  <2> QED BY <2>1, Remaining DEF c
<1>3. ~Exhausted(b, 1)
  <2>1. PICK n \in Int : n = 1
    OBVIOUS
  <2>2. ~Exhausted(b, n)
    BY <1>1, <2>1, Reads
  <2> QED BY <2>1, <2>2
<1> HIDE DEF c
<1>4. w = [i \in 0 .. 1 |-> IF i = 0 THEN 0 ELSE 2 * w[i - 1] + c[p + i]]
  <2>1. w[0] = 0
    OBVIOUS
  <2>2. \A i \in 0 .. 1 : i # 0 => i = 1
    OBVIOUS
  <2>3. \A i \in 0 .. 1 : i # 0 => 2 * w[i - 1] + c[p + i] = c[p + 1]
    BY <1>2, <2>1, <2>2 DEF Bit
  <2> QED BY <2>3
<1>5. PICK v : /\ v = [i \in 0 .. 1 |-> IF i = 0 THEN 0 ELSE 2 * v[i - 1] + c[p + i]]
               /\ Unpacked(b, 1) = v[1]
  <2> HIDE DEF w
  <2>1. PICK n \in Nat : n = 1
    OBVIOUS
  <2>2. Horner(w, b.chars, b.pos, n) /\ ~Exhausted(b, n)
    BY <1>1, <1>3, <1>4, <2>1 DEF Horner, c
  <2>3. PICK v : Horner(v, b.chars, b.pos, n) /\ Unpacked(b, n) = v[n]
    BY <2>2, UnpackedIs
  <2>4. v = [i \in 0 .. 1 |-> IF i = 0 THEN 0 ELSE 2 * v[i - 1] + c[p + i]] /\ Unpacked(b, 1) = v[1]
    BY <1>1, <2>1, <2>3 DEF Horner, c
  <2> QED BY <2>4
<1>6. v[0] = 0 /\ v[1] = 2 * v[0] + c[p + 1]
  BY <1>5
<1> QED BY <1>2, <1>5, <1>6 DEF Bit, c

LEMMA Bits3 ==
  ASSUME NEW b, NEW p, Readable(b, p), p + 3 <= Len(b.chars)
  PROVE  Unpacked(b, 3) = Field3(b.chars, p) /\ Field3(b.chars, p) \in 0 .. 7
<1> DEFINE c == b.chars
           w == [i \in 0 .. 3 |-> IF i = 0 THEN 0 ELSE IF i = 1 THEN c[p + 1]
                                  ELSE IF i = 2 THEN 2 * c[p + 1] + c[p + 2] ELSE Field3(c, p)]
<1>1. b.pos = p /\ p \in Nat
  BY DEF Readable
<1>2. c[p + 1] \in Bit /\ c[p + 2] \in Bit /\ c[p + 3] \in Bit
  <2>1. p + 1 \in 1 .. Len(c) /\ p + 2 \in 1 .. Len(c) /\ p + 3 \in 1 .. Len(c)
    BY <1>1, Remaining
  <2> HIDE DEF c
  <2> QED BY <2>1, Remaining DEF c
<1>3. ~Exhausted(b, 3)
  <2>1. PICK n \in Int : n = 3
    OBVIOUS
  <2>2. ~Exhausted(b, n)
    BY <1>1, <2>1, Reads
  <2> QED BY <2>1, <2>2
<1> HIDE DEF c
<1>4. w = [i \in 0 .. 3 |-> IF i = 0 THEN 0 ELSE 2 * w[i - 1] + c[p + i]]
  <2>1. w[0] = 0 /\ w[1] = c[p + 1] /\ w[2] = 2 * c[p + 1] + c[p + 2] /\ w[3] = Field3(c, p)
    OBVIOUS
  <2>2. /\ c[p + 1] = 2 * 0 + c[p + 1]
        /\ Field3(c, p) = 2 * (2 * c[p + 1] + c[p + 2]) + c[p + 3]
    BY <1>2 DEF Field3, Bit
  <2>3. \A i \in 0 .. 3 : w[i] = IF i = 0 THEN 0 ELSE 2 * w[i - 1] + c[p + i]
    <3> HIDE DEF w
    <3>1. \A i \in 0 .. 3 : i = 0 \/ i = 1 \/ i = 2 \/ i = 3
      OBVIOUS
    <3> QED BY <2>1, <2>2, <3>1
  <2>4. w = [i \in 0 .. 3 |-> w[i]]
    OBVIOUS
  <2> HIDE DEF w
  <2> QED BY <2>3, <2>4
<1>5. PICK v : /\ v = [i \in 0 .. 3 |-> IF i = 0 THEN 0 ELSE 2 * v[i - 1] + c[p + i]]
               /\ Unpacked(b, 3) = v[3]
  <2> HIDE DEF w
  <2>1. PICK n \in Nat : n = 3
    OBVIOUS
  <2>2. Horner(w, b.chars, b.pos, n) /\ ~Exhausted(b, n)
    BY <1>1, <1>3, <1>4, <2>1 DEF Horner, c
  <2>3. PICK v : Horner(v, b.chars, b.pos, n) /\ Unpacked(b, n) = v[n]
    BY <2>2, UnpackedIs
  <2>4. v = [i \in 0 .. 3 |-> IF i = 0 THEN 0 ELSE 2 * v[i - 1] + c[p + i]] /\ Unpacked(b, 3) = v[3]
    BY <1>1, <2>1, <2>3 DEF Horner, c
  <2> QED BY <2>4
<1>6. v[0] = 0 /\ v[1] = 2 * v[0] + c[p + 1] /\ v[2] = 2 * v[1] + c[p + 2] /\ v[3] = 2 * v[2] + c[p + 3]
  BY <1>5
<1>7. v[3] = Field3(c, p) /\ Field3(c, p) \in 0 .. 7
  BY <1>2, <1>6 DEF Field3, Bit
<1> QED BY <1>5, <1>7 DEF c

LEMMA Bits4 ==
  ASSUME NEW b, NEW p, Readable(b, p), p + 4 <= Len(b.chars)
  PROVE  Unpacked(b, 4) = Field4(b.chars, p) /\ Field4(b.chars, p) \in 0 .. 15
<1> DEFINE c == b.chars
           w == [i \in 0 .. 4 |-> IF i = 0 THEN 0 ELSE IF i = 1 THEN c[p + 1]
                                  ELSE IF i = 2 THEN 2 * c[p + 1] + c[p + 2]
                                  ELSE IF i = 3 THEN Field3(c, p) ELSE Field4(c, p)]
<1>1. b.pos = p /\ p \in Nat
  BY DEF Readable
<1>2. c[p + 1] \in Bit /\ c[p + 2] \in Bit /\ c[p + 3] \in Bit /\ c[p + 4] \in Bit
  <2>1. p + 1 \in 1 .. Len(c) /\ p + 2 \in 1 .. Len(c) /\ p + 3 \in 1 .. Len(c) /\ p + 4 \in 1 .. Len(c)
    BY <1>1, Remaining
  <2> HIDE DEF c
  <2> QED BY <2>1, Remaining DEF c
<1>3. ~Exhausted(b, 4)
  <2>1. PICK n \in Int : n = 4
    OBVIOUS
  <2>2. ~Exhausted(b, n)
    BY <1>1, <2>1, Reads
  <2> QED BY <2>1, <2>2
<1> HIDE DEF c
<1>4. w = [i \in 0 .. 4 |-> IF i = 0 THEN 0 ELSE 2 * w[i - 1] + c[p + i]]
  <2>1. w[0] = 0 /\ w[1] = c[p + 1] /\ w[2] = 2 * c[p + 1] + c[p + 2] /\ w[3] = Field3(c, p)
        /\ w[4] = Field4(c, p)
    OBVIOUS
  <2>2. /\ c[p + 1] = 2 * 0 + c[p + 1]
        /\ Field3(c, p) = 2 * (2 * c[p + 1] + c[p + 2]) + c[p + 3]
        /\ Field4(c, p) = 2 * Field3(c, p) + c[p + 4]
    BY <1>2 DEF Field3, Field4, Bit
  <2>3. \A i \in 0 .. 4 : w[i] = IF i = 0 THEN 0 ELSE 2 * w[i - 1] + c[p + i]
    <3> HIDE DEF w
    <3>1. \A i \in 0 .. 4 : i = 0 \/ i = 1 \/ i = 2 \/ i = 3 \/ i = 4
      OBVIOUS
    <3> QED BY <2>1, <2>2, <3>1
  <2>4. w = [i \in 0 .. 4 |-> w[i]]
    OBVIOUS
  <2> HIDE DEF w
  <2> QED BY <2>3, <2>4
<1>5. PICK v : /\ v = [i \in 0 .. 4 |-> IF i = 0 THEN 0 ELSE 2 * v[i - 1] + c[p + i]]
               /\ Unpacked(b, 4) = v[4]
  <2> HIDE DEF w
  <2>1. PICK n \in Nat : n = 4
    OBVIOUS
  <2>2. Horner(w, b.chars, b.pos, n) /\ ~Exhausted(b, n)
    BY <1>1, <1>3, <1>4, <2>1 DEF Horner, c
  <2>3. PICK v : Horner(v, b.chars, b.pos, n) /\ Unpacked(b, n) = v[n]
    BY <2>2, UnpackedIs
  <2>4. v = [i \in 0 .. 4 |-> IF i = 0 THEN 0 ELSE 2 * v[i - 1] + c[p + i]] /\ Unpacked(b, 4) = v[4]
    BY <1>1, <2>1, <2>3 DEF Horner, c
  <2> QED BY <2>4
<1>6. v[0] = 0 /\ v[1] = 2 * v[0] + c[p + 1] /\ v[2] = 2 * v[1] + c[p + 2] /\ v[3] = 2 * v[2] + c[p + 3]
      /\ v[4] = 2 * v[3] + c[p + 4]
  BY <1>5
<1>7. v[4] = Field4(c, p) /\ Field4(c, p) \in 0 .. 15
  BY <1>2, <1>6, SMTT(30) DEF Field4, Bit
<1> QED BY <1>5, <1>7 DEF c

-----------------------------------------------------------------------------
(* The search for a block                                                   *)

(* What the search says of the block behind place q.                        *)
Found(s, b, q) ==
  LET m == Field4(b.chars, q + 1)
  IN  /\ s.m = m /\ s.bits = At(b, q + 5) /\ Readable(At(b, q + 5), q + 5)
      /\ m \in 0 .. 8 \cup {13, 14} => s.ret = 0
      /\ m = 15 => s.ret # 0

(* The search finds a narrowband block where it stands, and refuses the     *)
LEMMA SearchBlock ==
  ASSUME NEW b, NEW p, Readable(b, p), p + 5 <= Len(b.chars), b.chars[p + 1] = 0
  PROVE  Found(Search(b), b, p)
<1> DEFINE wide == Unpacked(b, 1) = 1
           b1 == Advanced(b, 1)
           s1 == IF wide THEN SkipLayer(b1) ELSE b1
           wide2 == wide /\ Unpacked(s1, 1) = 1
           b2 == Advanced(s1, 1)
           s2 == IF wide2 THEN SkipLayer(b2) ELSE b2
           wide3 == wide2 /\ Unpacked(s2, 1) = 1
           at == IF ~wide THEN b1 ELSE IF ~wide2 THEN b2 ELSE Advanced(s2, 1)
           m == Unpacked(at, 4)
           code == CASE speex_bits_remaining(b) < 5 -> -1
                     [] wide /\ speex_bits_remaining(s1) < 5 -> -1
                     [] wide3 -> -2
                     [] speex_bits_remaining(at) < 4 -> -1
                     [] m = 15 -> -1
                     [] m \in 9 .. 12 -> -2
                     [] OTHER -> 0
<1>1. Search(b) = [ret |-> code, m |-> m, bits |-> Advanced(at, 4)]
  BY DEF Search
<1>2. p \in Nat /\ Len(b.chars) \in Nat
  BY Remaining
<1>3. Unpacked(b, 1) = 0
  <2>1. p + 1 <= Len(b.chars)
    BY <1>2
  <2> QED BY <2>1, Bit1
<1>4. b1 = At(b, p + 1) /\ Readable(At(b, p + 1), p + 1) /\ At(b, p + 1).chars = b.chars
  <2>1. PICK n \in Int : n = 1 /\ 0 <= p + n /\ p + n <= Len(b.chars)
    BY <1>2
  <2> QED BY <2>1, Reads
<1>5. ~wide /\ ~wide2 /\ ~wide3 /\ at = b1
  BY <1>3
<1>6. (p + 1) + 4 = p + 5
  BY <1>2
<1> DEFINE q == p + 1
           a == At(b, q)
<1>7. Readable(a, q) /\ a.chars = b.chars /\ q + 4 <= Len(a.chars) /\ q \in Nat /\ at = a
  BY <1>2, <1>4, <1>5
<1>8. m = Field4(b.chars, p + 1) /\ m \in 0 .. 15
  <2> HIDE DEF a, q, at
  <2>1. Unpacked(a, 4) = Field4(a.chars, q) /\ Field4(a.chars, q) \in 0 .. 15
    BY <1>7, Bits4
  <2> QED BY <1>7, <2>1 DEF q
<1>9. Advanced(a, 4) = At(b, p + 5) /\ Readable(At(b, p + 5), p + 5)
  <2>1. PICK n \in Int : n = 4
    OBVIOUS
  <2>2. 0 <= q + n /\ q + n <= Len(a.chars) /\ q + n = p + 5
    BY <1>6, <1>7, <2>1
  <2> HIDE DEF a, q
  <2>3. Advanced(a, n) = At(a, q + n) /\ Readable(At(a, q + n), q + n)
    BY <1>7, <2>2, Reads
  <2>4. At(a, q + n) = At(b, q + n)
    BY Moves DEF a
  <2> QED BY <2>1, <2>2, <2>3, <2>4
<1>10. ~(speex_bits_remaining(b) < 5)
  <2>1. speex_bits_remaining(b) = Len(b.chars) - p
    BY Remaining
  <2> QED BY <1>2, <2>1
<1>11. ~(speex_bits_remaining(at) < 4)
  <2>1. speex_bits_remaining(a) = Len(a.chars) - q
    <3> HIDE DEF a, q
    <3> QED BY <1>7, Remaining
  <2> HIDE DEF a, at
  <2> QED BY <1>2, <1>7, <2>1
<1> HIDE DEF wide, wide2, wide3, m, at
<1>12. m = 15 => code # 0
  BY <1>5, <1>10, <1>11
<1>13. m \in 0 .. 8 \cup {13, 14} => code = 0
  BY <1>5, <1>10, <1>11
<1> HIDE DEF code
<1> QED BY <1>1, <1>7, <1>8, <1>9, <1>12, <1>13 DEF Found

LEMMA SearchEnds ==
  ASSUME NEW b, NEW p, Readable(b, p), Len(b.chars) < p + 5
  PROVE  Search(b).ret # 0
<1>1. speex_bits_remaining(b) = Len(b.chars) - p /\ p \in Nat /\ Len(b.chars) \in Nat
  BY Remaining
<1>2. speex_bits_remaining(b) < 5
  BY <1>1
<1> QED BY <1>2 DEF Search

(* A layer is skipped; a null layer is stepped back onto.                   *)
Target(p, h) == IF h = 0 THEN p ELSE p + LayerLen(h)

LEMMA Skipped ==
  ASSUME NEW b, NEW p, Readable(b, p), p + 4 <= Len(b.chars), NEW h \in 0 .. 4,
         Field3(b.chars, p + 1) = h, Target(p, h) <= Len(b.chars)
  PROVE  /\ SkipLayer(At(b, p + 1)) = At(b, Target(p, h))
         /\ Readable(At(b, Target(p, h)), Target(p, h))
         /\ At(b, Target(p, h)).chars = b.chars
<1>1. p \in Nat /\ Len(b.chars) \in Nat
  BY Remaining
<1> DEFINE q == p + 1
           a == At(b, q)
           r == p + 4
           d == At(b, r)
           k == wb_skip_table[h] - 4
           t == Target(p, h)
<1>2. Readable(a, q) /\ a.chars = b.chars /\ q \in Nat /\ Len(a.chars) = Len(b.chars)
  <2>1. PICK n \in Int : n = 1 /\ 0 <= p + n /\ p + n <= Len(b.chars)
    BY <1>1
  <2>2. Readable(At(b, p + n), p + n) /\ At(b, p + n).chars = b.chars
    BY <2>1, Reads
  <2> QED BY <1>1, <2>1, <2>2
<1>3. q + 3 = r /\ r <= Len(b.chars) /\ r \in Nat
  BY <1>1
<1>4. k \in Int /\ r + k = t /\ t \in Nat /\ t <= Len(b.chars)
  <2>1. CASE h = 0
    BY <1>1, <2>1, Lengths DEF Target
  <2>2. CASE h # 0
    <3>1. PICK l \in 4 .. 352 : LayerLen(h) = l /\ wb_skip_table[h] = l
      BY <2>2, Lengths, ZenonT(30)
    <3>2. k = l - 4 /\ t = p + l
      BY <2>2, <3>1 DEF Target
    <3> HIDE DEF k, t
    <3>3. r + (l - 4) = p + l
      BY <1>1
    <3>4. t <= Len(b.chars)
      BY DEF t
    <3> QED BY <1>1, <3>2, <3>3, <3>4
  <2> QED BY <2>1, <2>2
<1> HIDE DEF q, a, k, t, r, d
<1>5. Unpacked(a, 3) = h
  <2>1. q + 3 <= Len(a.chars)
    BY <1>2, <1>3
  <2>2. Unpacked(a, 3) = Field3(a.chars, q)
    BY <1>2, <2>1, Bits3
  <2> QED BY <1>2, <2>2 DEF q
<1>6. Advanced(a, 3) = d /\ Readable(d, r) /\ d.chars = b.chars
  <2>1. PICK n \in Int : n = 3
    OBVIOUS
  <2>2. 0 <= q + n /\ q + n <= Len(a.chars) /\ q + n = r
    BY <1>2, <1>3, <2>1
  <2>3. Advanced(a, n) = At(a, q + n) /\ Readable(At(a, q + n), q + n) /\ At(a, q + n).chars = a.chars
    BY <1>2, <2>2, Reads
  <2>4. At(a, q + n) = At(b, q + n)
    BY Moves DEF a
  <2> QED BY <1>2, <2>1, <2>2, <2>3, <2>4 DEF d
<1>7. Advanced(d, k) = At(b, t) /\ Readable(At(b, t), t) /\ At(b, t).chars = b.chars
  <2>1. 0 <= r + k /\ r + k <= Len(d.chars)
    BY <1>4, <1>6
  <2>2. Advanced(d, k) = At(d, r + k) /\ Readable(At(d, r + k), r + k) /\ At(d, r + k).chars = d.chars
    BY <1>4, <1>6, <2>1, Reads
  <2>3. At(d, r + k) = At(b, r + k)
    BY Moves DEF d
  <2> QED BY <1>4, <1>6, <2>2, <2>3
<1>8. SkipLayer(a) = Advanced(Advanced(a, 3), wb_skip_table[Unpacked(a, 3)] - (3 + 1))
  BY DEF SkipLayer, speex_bits_advance, SB_SUBMODE_BITS
<1>9. SkipLayer(a) = Advanced(d, k)
  BY <1>5, <1>6, <1>8 DEF k
<1> QED BY <1>7, <1>9 DEF a, q, t

(* A null layer is taken for a third one.                                   *)
LEMMA SearchNull ==
  ASSUME NEW b, NEW p, Readable(b, p), p + 4 <= Len(b.chars),
         LayerAt(b.chars, p, 0)
  PROVE  Search(b).ret # 0
<1>1. p \in Nat /\ Len(b.chars) \in Nat /\ b.chars[p + 1] = 1 /\ Field3(b.chars, p + 1) = 0
  BY Remaining DEF LayerAt
<1> DEFINE b1 == At(b, p + 1)
           back == At(b, p)
<1>2. Advanced(b, 1) = b1
  <2>1. PICK n \in Int : n = 1 /\ 0 <= p + n /\ p + n <= Len(b.chars)
    BY <1>1
  <2> QED BY <2>1, Reads
<1>3. SkipLayer(b1) = back /\ Readable(back, p) /\ back.chars = b.chars
  <2>1. PICK h \in 0 .. 4 : h = 0
    OBVIOUS
  <2>2. Target(p, h) = p
    BY <2>1 DEF Target
  <2>3. Field3(b.chars, p + 1) = h /\ Target(p, h) <= Len(b.chars)
    BY <1>1, <2>1, <2>2
  <2> QED BY <2>2, <2>3, Skipped
<1>4. Unpacked(b, 1) = 1
  <2>1. p + 1 <= Len(b.chars)
    BY <1>1
  <2> QED BY <1>1, <2>1, Bit1
<1>5. back = b
  BY DEF At, Readable, Streams
<1> HIDE DEF b1, back
<1>6. Unpacked(back, 1) = 1 /\ Advanced(back, 1) = b1
  BY <1>2, <1>4, <1>5
<1> DEFINE wide == Unpacked(b, 1) = 1
           s1 == IF wide THEN SkipLayer(b1) ELSE b1
           wide2 == wide /\ Unpacked(s1, 1) = 1
           b2 == Advanced(s1, 1)
           s2 == IF wide2 THEN SkipLayer(b2) ELSE b2
           wide3 == wide2 /\ Unpacked(s2, 1) = 1
           at == IF ~wide THEN b1 ELSE IF ~wide2 THEN b2 ELSE Advanced(s2, 1)
           m == Unpacked(at, 4)
           code == CASE speex_bits_remaining(b) < 5 -> -1
                     [] wide /\ speex_bits_remaining(s1) < 5 -> -1
                     [] wide3 -> -2
                     [] speex_bits_remaining(at) < 4 -> -1
                     [] m = 15 -> -1
                     [] m \in 9 .. 12 -> -2
                     [] OTHER -> 0
<1>7. Search(b).ret = code
  BY <1>2 DEF Search
<1>8. wide /\ s1 = back
  BY <1>3, <1>4
<1>9. wide2 /\ b2 = b1
  BY <1>6, <1>8
<1>10. s2 = back /\ wide3
  BY <1>3, <1>6, <1>9
<1> HIDE DEF wide, wide2, wide3, s1, m, at
<1>11. code # 0
  BY <1>10
<1> QED BY <1>7, <1>11

(* Behind a layer with fields the search goes on at the next frame.         *)
LEMMA SearchLayer ==
  ASSUME NEW b, NEW p, Readable(b, p), NEW h \in 1 .. 4, LayerAt(b.chars, p, h),
         NEW q, q = p + LayerLen(h), q + 5 <= Len(b.chars), b.chars[q + 1] = 0
  PROVE  Found(Search(b), b, q)
<1>1. p \in Nat /\ Len(b.chars) \in Nat /\ b.chars[p + 1] = 1 /\ Field3(b.chars, p + 1) = h
  BY Remaining DEF LayerAt
<1>2. q \in Nat /\ p + 4 <= q /\ q + 5 <= Len(b.chars)
  <2>1. h \in 0 .. 4
    OBVIOUS
  <2>2. PICK l \in 4 .. 352 : l = LayerLen(h)
    BY <2>1, Lengths
  <2>3. q = p + l /\ l \in 4 .. 352 /\ p \in Nat
    BY <1>1, <2>2
  <2>4. p + l \in Nat /\ p + 4 <= p + l
    BY ONLY <2>3
  <2> QED BY <2>3, <2>4
<1> DEFINE b1 == At(b, p + 1)
           s == At(b, q)
<1>3. Advanced(b, 1) = b1
  <2>1. PICK n \in Int : n = 1 /\ 0 <= p + n /\ p + n <= Len(b.chars)
    BY <1>1, <1>2
  <2> QED BY <2>1, Reads
<1>4. SkipLayer(b1) = s /\ Readable(s, q) /\ s.chars = b.chars
  <2>1. h \in 0 .. 4 /\ Target(p, h) = q
    BY DEF Target
  <2>2. p + 4 <= Len(b.chars) /\ q <= Len(b.chars)
    BY <1>1, <1>2
  <2> QED BY <1>1, <2>1, <2>2, Skipped, SMTT(30)
<1>5. Unpacked(b, 1) = 1
  <2>1. p + 1 <= Len(b.chars)
    BY <1>1, <1>2
  <2> QED BY <1>1, <2>1, Bit1
<1> HIDE DEF b1, s
<1>6. Unpacked(s, 1) = 0
  <2>1. q + 1 <= Len(s.chars)
    BY <1>1, <1>2, <1>4
  <2> QED BY <1>4, <2>1, Bit1
<1> DEFINE b2 == At(b, q + 1)
<1>7. Advanced(s, 1) = b2 /\ Readable(b2, q + 1) /\ b2.chars = b.chars
  <2>1. PICK n \in Int : n = 1 /\ 0 <= q + n /\ q + n <= Len(s.chars)
    BY <1>2, <1>4
  <2>2. Advanced(s, n) = At(s, q + n) /\ Readable(At(s, q + n), q + n) /\ At(s, q + n).chars = s.chars
    BY <1>4, <2>1, Reads
  <2>3. At(s, q + n) = At(b, q + n)
    BY Moves DEF s
  <2> QED BY <1>4, <2>1, <2>2, <2>3
<1> DEFINE r == q + 1
<1>8. r + 4 = q + 5 /\ r \in Nat /\ r + 4 <= Len(b2.chars)
  BY <1>2, <1>7
<1>9. Readable(b2, r)
  BY <1>7
<1> HIDE DEF b2, r
<1>10. Unpacked(b2, 4) = Field4(b.chars, r) /\ Field4(b.chars, r) \in 0 .. 15
  BY <1>7, <1>8, <1>9, Bits4
<1>11. Advanced(b2, 4) = At(b, q + 5) /\ Readable(At(b, q + 5), q + 5)
  <2>1. PICK n \in Int : n = 4 /\ 0 <= r + n /\ r + n <= Len(b2.chars) /\ r + n = q + 5
    BY <1>8
  <2>2. Advanced(b2, n) = At(b2, r + n) /\ Readable(At(b2, r + n), r + n)
    BY <1>9, <2>1, Reads
  <2>3. At(b2, r + n) = At(b, r + n)
    BY Moves DEF b2
  <2> QED BY <2>1, <2>2, <2>3
<1> DEFINE wide == Unpacked(b, 1) = 1
           s1 == IF wide THEN SkipLayer(b1) ELSE b1
           wide2 == wide /\ Unpacked(s1, 1) = 1
           c2 == Advanced(s1, 1)
           s2 == IF wide2 THEN SkipLayer(c2) ELSE c2
           wide3 == wide2 /\ Unpacked(s2, 1) = 1
           at == IF ~wide THEN b1 ELSE IF ~wide2 THEN c2 ELSE Advanced(s2, 1)
           m == Unpacked(at, 4)
           code == CASE speex_bits_remaining(b) < 5 -> -1
                     [] wide /\ speex_bits_remaining(s1) < 5 -> -1
                     [] wide3 -> -2
                     [] speex_bits_remaining(at) < 4 -> -1
                     [] m = 15 -> -1
                     [] m \in 9 .. 12 -> -2
                     [] OTHER -> 0
<1>12. Search(b) = [ret |-> code, m |-> m, bits |-> Advanced(at, 4)]
  BY <1>3 DEF Search
<1>13. wide /\ s1 = s
  BY <1>4, <1>5
<1>14. ~wide2 /\ ~wide3 /\ c2 = b2 /\ at = b2
  BY <1>6, <1>7, <1>13
<1>15. m = Field4(b.chars, q + 1) /\ m \in 0 .. 15
  BY <1>10, <1>14 DEF r
<1>16. ~(speex_bits_remaining(b) < 5)
  <2>1. speex_bits_remaining(b) = Len(b.chars) - p
    BY Remaining
  <2> QED BY <1>1, <1>2, <2>1
<1>17. ~(speex_bits_remaining(s1) < 5)
  <2>1. speex_bits_remaining(s) = Len(b.chars) - q
    BY <1>4, Remaining
  <2> HIDE DEF s1
  <2> QED BY <1>1, <1>2, <1>13, <2>1
<1>18. ~(speex_bits_remaining(at) < 4)
  <2>1. speex_bits_remaining(b2) = Len(b.chars) - r
    BY <1>7, <1>9, Remaining
  <2> HIDE DEF at
  <2> QED BY <1>1, <1>2, <1>7, <1>8, <1>14, <2>1
<1> HIDE DEF wide, wide2, wide3, s1, m, at
<1>19. m = 15 => code # 0
  BY <1>14, <1>16, <1>17, <1>18
<1>20. m \in 0 .. 8 \cup {13, 14} => code = 0
  BY <1>14, <1>16, <1>17, <1>18
<1> HIDE DEF code
<1> QED BY <1>11, <1>12, <1>14, <1>15, <1>19, <1>20 DEF Found

(* Fewer than five bits behind the layer.                                   *)
LEMMA SearchLayerEnds ==
  ASSUME NEW b, NEW p, Readable(b, p), NEW h \in 1 .. 4, LayerAt(b.chars, p, h),
         NEW q, q = p + LayerLen(h), q <= Len(b.chars), Len(b.chars) < q + 5
  PROVE  Search(b).ret # 0
<1>1. p \in Nat /\ Len(b.chars) \in Nat /\ b.chars[p + 1] = 1 /\ Field3(b.chars, p + 1) = h
  BY Remaining DEF LayerAt
<1>2. q \in Nat /\ p + 4 <= q
  <2>1. h \in 0 .. 4
    OBVIOUS
  <2>2. PICK l \in 4 .. 352 : l = LayerLen(h)
    BY <2>1, Lengths
  <2>3. q = p + l /\ l \in 4 .. 352 /\ p \in Nat
    BY <1>1, <2>2
  <2>4. p + l \in Nat /\ p + 4 <= p + l
    BY ONLY <2>3
  <2> QED BY <2>3, <2>4
<1> DEFINE b1 == At(b, p + 1)
           s == At(b, q)
<1>3. Advanced(b, 1) = b1
  <2>1. PICK n \in Int : n = 1 /\ 0 <= p + n /\ p + n <= Len(b.chars)
    BY <1>1, <1>2
  <2> QED BY <2>1, Reads
<1>4. SkipLayer(b1) = s /\ Readable(s, q) /\ s.chars = b.chars
  <2>1. h \in 0 .. 4 /\ Target(p, h) = q
    BY DEF Target
  <2>2. p + 4 <= Len(b.chars) /\ q <= Len(b.chars)
    BY <1>1, <1>2
  <2> QED BY <1>1, <2>1, <2>2, Skipped, SMTT(30)
<1>5. Unpacked(b, 1) = 1
  <2>1. p + 1 <= Len(b.chars)
    BY <1>1, <1>2
  <2> QED BY <1>1, <2>1, Bit1
<1>6. speex_bits_remaining(s) < 5
  <2>1. speex_bits_remaining(s) = Len(s.chars) - q
    BY <1>4, Remaining
  <2> HIDE DEF s
  <2> QED BY <1>1, <1>2, <1>4, <2>1
<1> HIDE DEF b1, s
<1> QED BY <1>3, <1>4, <1>5, <1>6 DEF Search

-----------------------------------------------------------------------------
(* The search in a packet                                                   *)

(* A decoder that has k of the n frames fs of a packet, and skips layers or not. *)
Positioned(b, p, at, fs, wide, skip, k, n) ==
  /\ Readable(b, p) /\ fs \in Seq(SentFrames) /\ Len(fs) = n /\ n \in Nat /\ n >= 1 /\ k \in 0 .. n
  /\ wide \in BOOLEAN /\ skip \in BOOLEAN /\ (skip => wide)
  /\ Layout(b.chars, at, fs, wide) /\ Ends(b.chars, at[n + 1])
  /\ IF k = 0 THEN p \in {0, at[1]}
     ELSE p = at[k + 1] - (IF skip THEN LayerLen(fs[k].high) ELSE 0)

(* Frame i of the packet.                                                   *)
FrameFacts(c, at, fs, wide, i, n) ==
  /\ fs[i] \in SentFrames /\ at[i] \in Nat /\ at[i + 1] \in Nat
  /\ at[i + 1] = at[i] + FrameLen(fs[i], wide)
  /\ FrameAt(c, at[i], fs[i], wide)
  /\ FrameLen(fs[i], wide) \in 5 .. 844
  /\ at[n + 1] \in Nat /\ at[i] + FrameLen(fs[i], wide) <= at[n + 1] /\ at[n + 1] <= Len(c)
  /\ Len(c) \in Nat

(* The facts about frame i, whatever frame the decoder stands at.           *)
LEMMA FrameInside ==
  ASSUME NEW b, NEW p, NEW at, NEW fs, NEW wide, NEW skip, NEW k, NEW n, NEW i \in 1 .. n,
         Positioned(b, p, at, fs, wide, skip, k, n)
  PROVE  FrameFacts(b.chars, at, fs, wide, i, n)
<1>1. /\ fs \in Seq(SentFrames) /\ Len(fs) = n /\ wide \in BOOLEAN /\ n \in Nat
      /\ Layout(b.chars, at, fs, wide) /\ Readable(b, p) /\ Ends(b.chars, at[n + 1])
  BY DEF Positioned
<1>2. Inside(at, fs, wide, n)
  BY <1>1, LayoutSize
<1>3. i \in 1 .. n + 1 /\ i + 1 \in 1 .. n + 1 /\ n + 1 \in 1 .. n + 1
  BY <1>1
<1>4. at[i] \in Nat /\ at[i + 1] \in Nat /\ at[n + 1] \in Nat
  BY <1>2, <1>3 DEF Inside
<1>5. /\ fs[i] \in SentFrames /\ at[i + 1] = at[i] + FrameLen(fs[i], wide)
      /\ FrameLen(fs[i], wide) \in 5 .. 844
      /\ at[i] + FrameLen(fs[i], wide) <= at[n + 1]
  BY <1>2 DEF Inside
<1>6. FrameAt(b.chars, at[i], fs[i], wide)
  BY <1>1 DEF Layout
<1>7. at[n + 1] <= Len(b.chars)
  BY <1>1 DEF Ends
<1>8. Len(b.chars) \in Nat
  BY <1>1, Remaining
<1> QED BY <1>4, <1>5, <1>6, <1>7, <1>8 DEF FrameFacts

(* Its low band.                                                            *)
BlockFacts(c, at, fs, i) ==
  /\ at[i] \in Nat /\ c[at[i] + 1] = 0 /\ Field4(c, at[i] + 1) = fs[i].low /\ fs[i].low \in 0 .. 8
  /\ at[i] + 5 <= Len(c) /\ Len(c) \in Nat
  /\ fs[i].low = 1 /\ fs[i].analysed => (Field4(c, at[i] + 39) = 15 <=> fs[i].silent)

LEMMA BlockInside ==
  ASSUME NEW b, NEW p, NEW at, NEW fs, NEW wide, NEW skip, NEW k, NEW n, NEW i \in 1 .. n,
         Positioned(b, p, at, fs, wide, skip, k, n)
  PROVE  BlockFacts(b.chars, at, fs, i)
<1>1. PICK f, a, l, e, m : f = fs[i] /\ a = at[i] /\ l = FrameLen(fs[i], wide) /\ e = at[n + 1] /\ m = Len(b.chars)
  OBVIOUS
<1>2. f \in SentFrames /\ a \in Nat /\ l \in 5 .. 844 /\ e \in Nat /\ a + l <= e /\ e <= m /\ m \in Nat
      /\ FrameAt(b.chars, a, f, wide)
  <2>1. FrameFacts(b.chars, at, fs, wide, i, n)
    BY FrameInside
  <2> QED BY <1>1, <2>1 DEF FrameFacts
<1>3. LowAt(b.chars, a, f)
  BY <1>2 DEF FrameAt
<1>4. f.low \in 0 .. 8
  BY <1>2 DEF SentFrames
<1>5. a + 5 <= m
  BY ONLY <1>2, SMTT(30)
<1> QED BY <1>1, <1>2, <1>3, <1>4, <1>5 DEF LowAt, BlockFacts

(* Its layer.                                                               *)
LayerFacts(c, at, fs, i, q, h, l) ==
  /\ q = at[i] + LowLen(fs[i].low) /\ h = fs[i].high /\ l = LayerLen(h)
  /\ q + l = at[i + 1] /\ q = at[i + 1] - l
  /\ LayerAt(c, q, h) /\ q + l <= Len(c)

LEMMA LayerInside ==
  ASSUME NEW b, NEW p, NEW at, NEW fs, NEW wide, NEW skip, NEW k, NEW n, NEW i \in 1 .. n,
         Positioned(b, p, at, fs, wide, skip, k, n), wide
  PROVE  \E q \in Nat, h \in 0 .. 4, l \in 4 .. 352 : LayerFacts(b.chars, at, fs, i, q, h, l)
<1>1. PICK f, a, e, m, d : f = fs[i] /\ a = at[i] /\ e = at[n + 1] /\ m = Len(b.chars) /\ d = at[i + 1]
  OBVIOUS
<1>2. f \in SentFrames /\ a \in Nat /\ e \in Nat /\ a + FrameLen(f, wide) <= e /\ e <= m /\ m \in Nat
      /\ FrameAt(b.chars, a, f, wide) /\ d = a + FrameLen(f, wide)
  <2>1. FrameFacts(b.chars, at, fs, wide, i, n)
    BY FrameInside
  <2> QED BY <1>1, <2>1 DEF FrameFacts
<1>3. PICK u \in 5 .. 492, l \in 4 .. 352, h \in 0 .. 4 : u = LowLen(f.low) /\ l = LayerLen(h) /\ h = f.high
  <2>1. f.low \in 0 .. 8 /\ f.high \in 0 .. 4
    BY <1>2 DEF SentFrames
  <2> QED BY <2>1, Lengths, ZenonT(30)
<1>4. FrameLen(f, wide) = u + l
  BY <1>3 DEF FrameLen
<1>5. LayerAt(b.chars, a + u, h)
  BY <1>2, <1>3 DEF FrameAt
<1>6. a + u \in Nat /\ (a + u) + l = d /\ a + u = d - l /\ (a + u) + l <= m
  <2>1. d = a + (u + l) /\ a + (u + l) <= e
    BY <1>2, <1>4
  <2> QED BY ONLY <1>2, <1>3, <2>1
<1>7. LayerFacts(b.chars, at, fs, i, a + u, h, l)
  BY <1>1, <1>3, <1>5, <1>6 DEF LayerFacts
<1> QED BY <1>6, <1>7

(* Behind the packet there are fewer than five bits, or the submode of the  *)
(* terminator.                                                              *)
LEMMA EndOf ==
  ASSUME NEW b, NEW p, NEW at, NEW fs, NEW wide, NEW skip, NEW k, NEW n,
         Positioned(b, p, at, fs, wide, skip, k, n)
  PROVE  LET e == at[n + 1]
         IN  /\ e \in Nat /\ e <= Len(b.chars) /\ Len(b.chars) \in Nat
             /\ e + 5 <= Len(b.chars) => b.chars[e + 1] = 0 /\ Field4(b.chars, e + 1) = 15
             /\ e < Len(b.chars) => b.chars[e + 1] = 0
<1>1. PICK e, m, c : e = at[n + 1] /\ m = Len(b.chars) /\ c = b.chars
  OBVIOUS
<1>2. n \in 1 .. n
  BY DEF Positioned
<1>3. e \in Nat /\ e <= m /\ m \in Nat
  <2>1. PICK i \in 1 .. n : i = n
    BY <1>2
  <2>2. FrameFacts(b.chars, at, fs, wide, i, n)
    BY FrameInside
  <2> QED BY <1>1, <2>1, <2>2 DEF FrameFacts
<1>4. \A j \in e + 1 .. m : c[j] = (IF j = e + 1 THEN 0 ELSE 1)
  BY <1>1 DEF Positioned, Ends
<1>5. e < m => c[e + 1] = 0
  <2>1. e < m => e + 1 \in e + 1 .. m
    BY <1>3
  <2> QED BY <1>4, <2>1
<1>6. e + 5 <= m => c[e + 2] = 1 /\ c[e + 3] = 1 /\ c[e + 4] = 1 /\ c[e + 5] = 1
  <2> SUFFICES ASSUME e + 5 <= m PROVE c[e + 2] = 1 /\ c[e + 3] = 1 /\ c[e + 4] = 1 /\ c[e + 5] = 1
    OBVIOUS
  <2>1. /\ e + 2 \in e + 1 .. m /\ e + 3 \in e + 1 .. m /\ e + 4 \in e + 1 .. m /\ e + 5 \in e + 1 .. m
        /\ e + 2 # e + 1 /\ e + 3 # e + 1 /\ e + 4 # e + 1 /\ e + 5 # e + 1
    BY <1>3
  <2> QED BY <1>4, <2>1
<1>7. e + 5 <= m => Field4(c, e + 1) = 15
  <2>1. (e + 1) + 1 = e + 2 /\ (e + 1) + 2 = e + 3 /\ (e + 1) + 3 = e + 4 /\ (e + 1) + 4 = e + 5
    BY <1>3
  <2> QED BY <1>6, <2>1 DEF Field4
<1>8. e + 5 <= m => e < m
  BY <1>3
<1> QED BY <1>1, <1>3, <1>5, <1>7, <1>8

-----------------------------------------------------------------------------
(* Blocked: a narrowband decoder behind a null layer.                       *)
Blocked(fs, skip, k) == skip /\ k > 0 /\ fs[k].high = 0

(* Standing on the frame itself, and not on the message in front.           *)
OnHeader(p, at, k) == k = 0 /\ p = 0 /\ at[1] = 17

(* The search finds the next frame, unless a null layer or a message is     *)
(* ahead.                                                                   *)
LEMMA FrameAhead ==
  ASSUME NEW b, NEW p, NEW at, NEW fs, NEW wide, NEW skip, NEW k, NEW n,
         Positioned(b, p, at, fs, wide, skip, k, n), k < n,
         ~Blocked(fs, skip, k), ~OnHeader(p, at, k)
  PROVE  LET q == at[k + 1]
         IN  /\ Search(b).ret = 0 /\ Search(b).m = fs[k + 1].low /\ fs[k + 1].low \in 0 .. 8
             /\ Search(b).bits = At(b, q + 5)
             /\ Readable(At(b, q + 5), q + 5)
<1>1. PICK q, f : q = at[k + 1] /\ f = fs[k + 1]
  OBVIOUS
<1>2. k \in Nat /\ k + 1 \in 1 .. n /\ (k # 0 => k \in 1 .. n)
  BY DEF Positioned
<1>3. q \in Nat /\ b.chars[q + 1] = 0 /\ Field4(b.chars, q + 1) = f.low /\ f.low \in 0 .. 8
      /\ q + 5 <= Len(b.chars)
  <2>1. PICK i \in 1 .. n : i = k + 1
    BY <1>2
  <2>2. BlockFacts(b.chars, at, fs, i)
    BY BlockInside
  <2> QED BY <1>1, <2>1, <2>2 DEF BlockFacts
<1>4. Found(Search(b), b, q)
  <2>1. CASE k = 0 \/ ~skip
    <3>1. p = q
      <4>1. CASE k = 0
        <5>1. p \in {0, at[1]} /\ (at[1] = 0 \/ at[1] = 17)
          BY <4>1 DEF Positioned, Layout
        <5>2. k + 1 = 1
          BY <4>1
        <5> QED BY <1>1, <4>1, <5>1, <5>2 DEF OnHeader
      <4>2. CASE k # 0
        <5>1. p = at[k + 1] - 0
          BY <2>1, <4>2 DEF Positioned
        <5> QED BY <1>1, <1>3, <5>1
      <4> QED BY <4>1, <4>2
    <3>2. Readable(b, p)
      BY DEF Positioned
    <3> QED BY <1>3, <3>1, <3>2, SearchBlock
  <2>2. CASE k # 0 /\ skip
    <3>1. wide
      BY <2>2 DEF Positioned
    <3>2. PICK r \in Nat, h \in 0 .. 4, l \in 4 .. 352 :
            /\ h = fs[k].high /\ l = LayerLen(h) /\ r + l = at[k + 1] /\ r = at[k + 1] - l
            /\ LayerAt(b.chars, r, h) /\ r + l <= Len(b.chars)
      <4>1. PICK i \in 1 .. n : i = k
        BY <1>2, <2>2
      <4>2. PICK r \in Nat, h \in 0 .. 4, l \in 4 .. 352 : LayerFacts(b.chars, at, fs, i, r, h, l)
        BY <3>1, LayerInside
      <4> QED BY <4>1, <4>2 DEF LayerFacts
    <3>3. Readable(b, p) /\ p = r
      BY <2>2, <3>2 DEF Positioned
    <3>4. h \in 1 .. 4
      <4>1. k > 0
        BY <1>2, <2>2
      <4> QED BY <2>2, <3>2, <4>1 DEF Blocked
    <3>5. q = r + LayerLen(h)
      BY <1>1, <3>2
    <3> QED BY <1>3, <3>2, <3>3, <3>4, <3>5, SearchLayer
  <2> QED BY <2>1, <2>2
<1> QED BY <1>1, <1>3, <1>4 DEF Found

(* The search finds the message in front of the packet, and it is skipped.  *)
LEMMA HeaderAhead ==
  ASSUME NEW b, NEW p, NEW at, NEW fs, NEW wide, NEW skip, NEW k, NEW n,
         Positioned(b, p, at, fs, wide, skip, k, n), OnHeader(p, at, k)
  PROVE  /\ Search(b).ret = 0 /\ Search(b).m = 14 /\ Search(b).bits = At(b, 5)
         /\ speex_inband_handler(At(b, 5)) = At(b, 17)
         /\ Readable(At(b, 17), 17)
<1>1. k = 0 /\ p = 0 /\ at[1] = 17 /\ HeaderAt(b.chars) /\ Readable(b, p)
  BY DEF OnHeader, Positioned, Layout
<1>2. 1 \in 1 .. n
  BY DEF Positioned
<1>3. 17 + 5 <= Len(b.chars) /\ Len(b.chars) \in Nat
  <2>1. PICK i \in 1 .. n : i = 1
    BY <1>2
  <2>2. BlockFacts(b.chars, at, fs, i)
    BY BlockInside
  <2> QED BY <1>1, <2>1, <2>2 DEF BlockFacts
<1>4. b.chars[1] = 0 /\ Field4(b.chars, 1) = 14 /\ Field4(b.chars, 5) = 9
  BY <1>1 DEF HeaderAt
<1>5. PICK q \in Nat, q5 \in Nat : q = 0 /\ q = p /\ q5 = 5
  BY <1>1
<1>6. b.chars[q + 1] = 0 /\ q + 5 = q5 /\ q + 1 = 1 /\ q + 5 <= Len(b.chars)
  BY <1>3, <1>4, <1>5
<1>7. Found(Search(b), b, q)
  BY <1>1, <1>5, <1>6, SearchBlock
<1>8. Search(b).ret = 0 /\ Search(b).m = 14 /\ Search(b).bits = At(b, q5) /\ Readable(At(b, q5), q5)
  <2>1. Field4(b.chars, q + 1) = 14
    BY <1>4, <1>6
  <2> QED BY <1>6, <1>7, <2>1 DEF Found
<1> DEFINE a == At(b, q5)
           r == q5 + 4
           d == At(b, r)
<1>9. a.chars = b.chars
  BY <1>1 DEF At, Readable, Streams
<1>10. Readable(a, q5)
  BY <1>8
<1> HIDE DEF a
<1>11. Unpacked(a, 4) = 9
  <2>1. q5 + 4 <= Len(a.chars)
    BY <1>3, <1>5, <1>9
  <2>2. Unpacked(a, 4) = Field4(a.chars, q5)
    BY <1>10, <2>1, Bits4
  <2> QED BY <1>4, <1>5, <1>9, <2>2
<1>12. Advanced(a, 4) = d /\ Readable(d, r) /\ d.chars = b.chars
  <2>1. PICK j \in Int : j = 4 /\ 0 <= q5 + j /\ q5 + j <= Len(a.chars)
    BY <1>3, <1>5, <1>9
  <2>2. Advanced(a, j) = At(a, q5 + j) /\ Readable(At(a, q5 + j), q5 + j) /\ At(a, q5 + j).chars = a.chars
    BY <1>10, <2>1, Reads
  <2>3. At(a, q5 + j) = At(b, q5 + j)
    BY Moves DEF a
  <2> QED BY <1>9, <2>1, <2>2, <2>3
<1>13. r \in Nat /\ r + 8 = 17
  BY <1>5
<1> HIDE DEF d, r
<1>14. Advanced(d, 8) = At(b, 17) /\ Readable(At(b, 17), 17)
  <2>1. PICK j \in Int : j = 8 /\ 0 <= r + j /\ r + j <= Len(d.chars) /\ r + j = 17
    BY <1>3, <1>12, <1>13
  <2>2. Advanced(d, j) = At(d, r + j) /\ Readable(At(d, r + j), r + j)
    BY <1>12, <2>1, Reads
  <2>3. At(d, r + j) = At(b, r + j)
    BY Moves DEF d
  <2> QED BY <2>1, <2>2, <2>3
<1>15. InbandSkip(9) = 8
  BY DEF InbandSkip
<1>16. speex_inband_handler(a) = At(b, 17)
  BY <1>11, <1>12, <1>14, <1>15 DEF speex_inband_handler, speex_bits_advance
<1> QED BY <1>5, <1>8, <1>14, <1>16 DEF a

(* The search ends with the packet.                                         *)
LEMMA PacketEnds ==
  ASSUME NEW b, NEW p, NEW at, NEW fs, NEW wide, NEW skip, NEW k, NEW n,
         Positioned(b, p, at, fs, wide, skip, k, n), k = n
  PROVE  Search(b).ret # 0
<1>1. PICK e, m : e = at[n + 1] /\ m = Len(b.chars)
  OBVIOUS
<1>2. /\ e \in Nat /\ e <= m /\ m \in Nat
      /\ e + 5 <= m => b.chars[e + 1] = 0 /\ Field4(b.chars, e + 1) = 15
  BY <1>1, EndOf
<1>3. k # 0 /\ n \in 1 .. n /\ Readable(b, p)
  BY DEF Positioned
<1>4. CASE ~skip
  <2>1. p = e
    BY <1>1, <1>2, <1>3, <1>4 DEF Positioned
  <2>2. CASE e + 5 <= m
    <3>1. Found(Search(b), b, e)
      BY <1>1, <1>2, <1>3, <2>1, <2>2, SearchBlock
    <3> QED BY <1>2, <2>2, <3>1 DEF Found
  <2>3. CASE m < e + 5
    BY <1>1, <1>3, <2>1, <2>3, SearchEnds
  <2> QED BY <1>2, <2>2, <2>3
<1>5. CASE skip
  <2>1. wide
    BY <1>5 DEF Positioned
  <2>2. PICK i \in 1 .. n : i = n
    BY <1>3
  <2>3. PICK q \in Nat, h \in 0 .. 4, l \in 4 .. 352 : LayerFacts(b.chars, at, fs, i, q, h, l)
    BY <2>1, LayerInside
  <2>4. p = q /\ q + l = e /\ LayerAt(b.chars, q, h) /\ l = LayerLen(h)
    BY <1>1, <1>3, <1>5, <2>2, <2>3 DEF LayerFacts, Positioned
  <2>5. CASE h = 0
    <3>1. q + 4 <= Len(b.chars)
      <4>1. q \in Nat /\ l \in 4 .. 352 /\ q + l = e /\ e <= m /\ m \in Nat /\ e \in Nat
        BY <1>2, <2>4
      <4>2. q + 4 <= m
        BY ONLY <4>1
      <4> QED BY <1>1, <4>2
    <3> QED BY <1>3, <2>4, <2>5, <3>1, SearchNull
  <2>6. CASE h # 0
    <3>1. h \in 1 .. 4 /\ e = q + LayerLen(h)
      BY <2>4, <2>6
    <3>2. CASE e + 5 <= m
      <4>1. Found(Search(b), b, e)
        BY <1>1, <1>2, <1>3, <2>4, <3>1, <3>2, SearchLayer
      <4> QED BY <1>2, <3>2, <4>1 DEF Found
    <3>3. CASE m < e + 5
      BY <1>1, <1>2, <1>3, <2>4, <3>1, <3>3, SearchLayerEnds
    <3> QED BY <1>2, <3>2, <3>3
  <2> QED BY <2>5, <2>6
<1> QED BY <1>4, <1>5

(* The search fails on the null layer a narrowband decoder stands at.       *)
LEMMA NullStops ==
  ASSUME NEW b, NEW p, NEW at, NEW fs, NEW wide, NEW skip, NEW k, NEW n,
         Positioned(b, p, at, fs, wide, skip, k, n), Blocked(fs, skip, k)
  PROVE  Search(b).ret # 0
<1>1. skip /\ wide /\ k # 0 /\ k \in 1 .. n /\ fs[k].high = 0 /\ Readable(b, p)
  BY DEF Blocked, Positioned
<1>2. PICK i \in 1 .. n : i = k
  BY <1>1
<1>3. PICK q \in Nat, h \in 0 .. 4, l \in 4 .. 352 : LayerFacts(b.chars, at, fs, i, q, h, l)
  <2>1. wide
    BY <1>1
  <2> QED BY <2>1, LayerInside
<1>4. p = q /\ LayerAt(b.chars, q, 0) /\ q + l <= Len(b.chars)
  BY <1>1, <1>2, <1>3 DEF LayerFacts, Positioned
<1>5. q + 4 <= Len(b.chars)
  <2>1. Len(b.chars) \in Nat
    BY <1>1, Remaining
  <2> QED BY <1>4, <2>1
<1> QED BY <1>1, <1>4, <1>5, SearchNull

-----------------------------------------------------------------------------
(* A frame is read                                                          *)

LEMMA ReadsOn ==
  ASSUME NEW b, NEW q \in Nat, NEW n \in Nat, Readable(At(b, q), q), q + n <= Len(b.chars)
  PROVE  /\ Advanced(At(b, q), n) = At(b, q + n)
         /\ Readable(At(b, q + n), q + n)
<1> DEFINE a == At(b, q)
<1>2. PICK e : e = q + n /\ 0 <= e /\ n \in Int
  OBVIOUS
<1>3. At(a, e) = At(b, e)
  BY Moves
<1>4. a.chars = b.chars
  BY DEF At, Readable, Streams
<1> HIDE DEF a
<1>5. Readable(a, q) /\ q + n <= Len(a.chars)
  BY <1>4 DEF a
<1>6. Advanced(a, n) = At(a, q + n) /\ Readable(At(a, q + n), q + n)
  BY <1>2, <1>5, Reads
<1> QED BY <1>2, <1>3, <1>6 DEF a

(* What nb_decode makes of frame m behind place q.                          *)
LowAhead(b, q, m, n) ==
  /\ q \in Nat /\ m \in 0 .. 8 /\ n \in 5 .. 492
  /\ n = LowLen(m) /\ q + n <= Len(b.chars) /\ Len(b.chars) \in Nat
  /\ Readable(At(b, q + 5), q + 5)

LowRead(b, q, m, n, low, d) ==
  /\ d.bits = At(b, q + n) /\ Readable(At(b, q + n), q + n)
  /\ m = 0 => d.low = [low EXCEPT !.first = TRUE, !.count_lost = 0]
  /\ m # 0 => d.low = [first |-> FALSE, count_lost |-> 0,
                      dtx_enabled |-> m = 1 /\ Field4(b.chars, q + 39) = 15]

(* The narrowband block is read up to its end.                              *)
LEMMA LowReads ==
  ASSUME NEW b, NEW q, NEW m, NEW low, NEW n, LowAhead(b, q, m, n)
  PROVE  LowRead(b, q, m, n, low, LowDecoded(low, m, At(b, q + 5)))
<1> q \in Nat /\ m \in 0 .. 8 /\ n \in 5 .. 492
  BY DEF LowAhead
<1> n = LowLen(m) /\ q + n <= Len(b.chars) /\ Len(b.chars) \in Nat
  BY DEF LowAhead
<1> Readable(At(b, q + 5), q + 5)
  BY DEF LowAhead
<1>1. CASE m = 0
  <2>1. n = 5
    BY <1>1, Lengths
  <2>2. LowDecoded(low, m, At(b, q + 5)) = [low |-> [low EXCEPT !.first = TRUE, !.count_lost = 0],
                                            bits |-> At(b, q + 5)]
    BY <1>1 DEF LowDecoded
  <2> QED BY <1>1, <2>1, <2>2 DEF LowRead
<1>2. CASE m # 0
  <2> DEFINE s == nb_submodes[m]
             a == At(b, q + 5)
             u == DecodedHead(s)
             v == DecodedSubframes(s)
             head == Advanced(a, u)
             silent == Unpacked(head, 4) = 15
             rest == IF m = 1 THEN Advanced(head, 4) ELSE head
  <2>1. LowDecoded(low, m, a) =
          [low |-> [first |-> FALSE, count_lost |-> 0, dtx_enabled |-> m = 1 /\ silent],
           bits |-> Advanced(rest, v)]
    BY <1>2 DEF LowDecoded
  <2>2. u \in Nat /\ v \in Nat /\ n = 5 + u + v + (IF m = 1 THEN 4 ELSE 0)
        /\ (m = 1 => u = 34 /\ v = 0 /\ n = 43)
    <3>1. m \in 1 .. 8
      BY <1>2
    <3>2. /\ EncodedFields(s) = u + v /\ u \in Nat /\ v \in Nat
          /\ m = 1 => u = 34 /\ v = 0
      BY <3>1, LowWidths
    <3>3. n = 5 + EncodedFields(s) + (IF m = 1 THEN 4 ELSE 0)
      BY <1>2 DEF LowLen
    <3>4. m = 1 => n = 43
      BY Lengths
    <3> HIDE DEF u, v, s
    <3> QED BY <3>2, <3>3, <3>4
  <2> HIDE DEF u, v, s
  <2>3. PICK r \in Nat, t \in Nat : r = q + 5 /\ t = r + u /\ a = At(b, r)
    BY <2>2
  <2>4. r + u <= Len(b.chars) /\ (IF m = 1 THEN t + 4 ELSE t) + v = q + n
    <3>1. CASE m = 1
      BY <2>2, <2>3, <3>1
    <3>2. CASE m # 1
      BY <2>2, <2>3, <3>2
    <3> QED BY <3>1, <3>2
  <2>5. Readable(At(b, r), r)
    BY <2>3
  <2>6. head = At(b, t) /\ Readable(At(b, t), t)
    <3>1. Advanced(At(b, r), u) = At(b, r + u) /\ Readable(At(b, r + u), r + u)
      BY <2>2, <2>4, <2>5, ReadsOn
    <3> QED BY <2>3, <3>1
  <2> HIDE DEF head, a
  <2>7. m = 1 => Unpacked(head, 4) = Field4(b.chars, q + 39)
    <3> SUFFICES ASSUME m = 1 PROVE Unpacked(head, 4) = Field4(b.chars, q + 39)
      OBVIOUS
    <3>1. head.chars = b.chars /\ t = q + 39 /\ t + 4 <= Len(b.chars)
      <4>1. head.chars = b.chars
        BY <2>6 DEF At, Readable, Streams
      <4> QED BY <2>2, <2>3, <4>1
    <3>2. Unpacked(head, 4) = Field4(head.chars, t)
      BY <2>6, <3>1, Bits4
    <3> QED BY <3>1, <3>2
  <2>8. Advanced(rest, v) = At(b, q + n) /\ Readable(At(b, q + n), q + n)
    <3>1. CASE m = 1
      <4>1. PICK j \in Nat, w \in Nat : j = 4 /\ w = t + j /\ w + v = q + n /\ w + v <= Len(b.chars)
                                      /\ t + j <= Len(b.chars)
        BY <2>2, <2>3, <2>4, <3>1
      <4>2. Advanced(At(b, t), j) = At(b, t + j) /\ Readable(At(b, t + j), t + j)
        BY <2>6, <4>1, ReadsOn
      <4>3. Advanced(At(b, w), v) = At(b, w + v) /\ Readable(At(b, w + v), w + v)
        BY <2>2, <4>1, <4>2, ReadsOn
      <4> QED BY <2>6, <3>1, <4>1, <4>2, <4>3
    <3>2. CASE m # 1
      <4>1. t + v = q + n /\ t + v <= Len(b.chars)
        BY <2>4, <3>2
      <4>2. Advanced(At(b, t), v) = At(b, t + v) /\ Readable(At(b, t + v), t + v)
        BY <2>2, <2>6, <4>1, ReadsOn
      <4> QED BY <2>6, <3>2, <4>1, <4>2
    <3> QED BY <3>1, <3>2
  <2> HIDE DEF silent, rest
  <2>9. (m = 1 /\ silent) = (m = 1 /\ Field4(b.chars, q + 39) = 15)
    BY <2>7 DEF silent
  <2> DEFINE z == [first |-> FALSE, count_lost |-> 0,
                   dtx_enabled |-> m = 1 /\ Field4(b.chars, q + 39) = 15]
  <2>10. LowDecoded(low, m, a) = [low |-> z, bits |-> At(b, q + n)]
    BY <2>1, <2>8, <2>9, Zenon
  <2> HIDE DEF z
  <2> DEFINE d == LowDecoded(low, m, At(b, q + 5))
  <2>11. d.bits = At(b, q + n)
    BY <2>10 DEF a
  <2>12. d.low = z
    BY <2>10 DEF a
  <2> HIDE DEF d
  <2>13. d.low = [first |-> FALSE, count_lost |-> 0,
                  dtx_enabled |-> m = 1 /\ Field4(b.chars, q + 39) = 15]
    BY <2>12, Zenon DEF z
  <2> QED BY <1>2, <2>8, <2>11, <2>13, Zenon DEF d, LowRead
<1> QED BY <1>1, <1>2

(* What sb_decode makes of the layer behind place q.                        *)
AfterLayer(a) ==
  LET y == LayerRead(a)
  IN IF y.mode = 0 THEN y.bits ELSE Advanced(y.bits, DecodedLayer(wb_submodes[y.mode]))

LayerAhead(b, q, h, l) ==
  /\ q \in Nat /\ h \in 0 .. 4 /\ l \in 4 .. 352
  /\ l = LayerLen(h) /\ q + l <= Len(b.chars) /\ Len(b.chars) \in Nat
  /\ Readable(At(b, q), q) /\ LayerAt(b.chars, q, h)

(* The layer is read up to its end.                                         *)
LEMMA LayerReads ==
  ASSUME NEW b, NEW q, NEW h, NEW l, LayerAhead(b, q, h, l)
  PROVE  LayerRead(At(b, q)).mode = h /\ AfterLayer(At(b, q)) = At(b, q + l)
<1> q \in Nat /\ h \in 0 .. 4 /\ l \in 4 .. 352
  BY DEF LayerAhead
<1> l = LayerLen(h) /\ q + l <= Len(b.chars) /\ Len(b.chars) \in Nat
  BY DEF LayerAhead
<1> Readable(At(b, q), q) /\ LayerAt(b.chars, q, h)
  BY DEF LayerAhead
<1> DEFINE a == At(b, q)
           r == q + 1
           d == At(b, r)
<1>0. PICK len \in Nat : /\ len = Len(b.chars) /\ q + 4 <= len /\ q + 1 <= len /\ (q + 1) + 3 <= len
                         /\ len - q > 0
  <2>1. PICK len \in Nat : len = Len(b.chars)
    OBVIOUS
  <2>2. q \in Nat /\ l \in 4 .. 352 /\ len \in Nat /\ q + l <= len
    BY <2>1
  <2>3. q + 4 <= len /\ q + 1 <= len /\ (q + 1) + 3 <= len /\ len - q > 0
    BY ONLY <2>2
  <2> QED BY <2>1, <2>3
<1>1. a.chars = b.chars
  BY DEF At, Readable, Streams
<1>2. speex_bits_remaining(a) > 0
  <2>1. speex_bits_remaining(a) = Len(a.chars) - q
    <3> HIDE DEF a
    <3> QED BY Remaining DEF a
  <2> HIDE DEF a
  <2>2. Len(a.chars) = Len(b.chars)
    BY <1>1
  <2> QED BY <1>0, <2>1, <2>2
<1>3. speex_bits_peek(a) = 1
  <2>1. q + 1 <= Len(a.chars)
    BY <1>0, <1>1
  <2>2. Unpacked(a, 1) = a.chars[q + 1]
    <3> HIDE DEF a
    <3> QED BY <2>1, Bit1 DEF a
  <2> QED BY <1>1, <2>2 DEF speex_bits_peek, LayerAt
<1>4. Advanced(a, 1) = d /\ Readable(d, r)
  <2>1. PICK j \in Nat : j = 1 /\ q + j <= Len(b.chars)
    BY <1>0
  <2> QED BY <2>1, ReadsOn
<1>5. Unpacked(d, 3) = h
  <2>1. d.chars = b.chars
    BY <1>4 DEF At, Readable, Streams
  <2>2. r + 3 <= Len(d.chars)
    BY <1>0, <2>1
  <2> HIDE DEF d, r
  <2>3. Unpacked(d, 3) = Field3(d.chars, r)
    BY <1>4, <2>2, Bits3
  <2> QED BY <2>1, <2>3 DEF LayerAt, r
<1>6. Advanced(a, 4) = At(b, q + 4) /\ Readable(At(b, q + 4), q + 4)
  <2>1. PICK j \in Nat : j = 4 /\ q + j <= Len(b.chars)
    BY <1>0
  <2> QED BY <2>1, ReadsOn
<1> HIDE DEF a, d, r
<1>7. LayerRead(a) = [mode |-> h, bits |-> At(b, q + 4)]
  BY <1>2, <1>3, <1>4, <1>5, <1>6 DEF LayerRead, SB_SUBMODE_BITS
<1>8. AfterLayer(a) = At(b, q + l)
  <2>1. CASE h = 0
    <3>1. l = 4
      BY <2>1, Lengths
    <3> QED BY <1>7, <2>1, <3>1 DEF AfterLayer
  <2>2. CASE h # 0
    <3>1. PICK w \in Nat : w = DecodedLayer(wb_submodes[h]) /\ l = 4 + w
      <4>1. h \in 1 .. 4
        BY <2>2
      <4>2. EncodedLayer(wb_submodes[h]) = DecodedLayer(wb_submodes[h]) /\ EncodedLayer(wb_submodes[h]) \in Nat
        BY <4>1, LayerWidths
      <4>3. LayerLen(h) = 4 + EncodedLayer(wb_submodes[h])
        BY <2>2 DEF LayerLen
      <4> QED BY <4>2, <4>3
    <3>2. PICK u \in Nat : u = q + 4 /\ u + w = q + l /\ u + w <= Len(b.chars)
      BY <3>1
    <3>3. Advanced(At(b, u), w) = At(b, u + w)
      BY <1>6, <3>1, <3>2, ReadsOn
    <3> QED BY <1>7, <2>2, <3>1, <3>2, <3>3 DEF AfterLayer
  <2> QED BY <2>1, <2>2
<1> QED BY <1>7, <1>8 DEF a

(* A zero, or nothing, is no layer.                                         *)
LEMMA NoLayer ==
  ASSUME NEW b, NEW q \in Nat, Readable(At(b, q), q), q < Len(b.chars) => b.chars[q + 1] = 0
  PROVE  LayerRead(At(b, q)).mode = 0 /\ AfterLayer(At(b, q)) = At(b, q)
<1> DEFINE a == At(b, q)
<1>1. a.chars = b.chars
  BY DEF At, Readable, Streams
<1>2. Readable(a, q)
  OBVIOUS
<1> HIDE DEF a
<1>3. ~(speex_bits_remaining(a) > 0 /\ speex_bits_peek(a) = 1)
  <2>1. speex_bits_remaining(a) = Len(a.chars) - q /\ Len(a.chars) \in Nat
    BY <1>2, Remaining
  <2>2. CASE q < Len(b.chars)
    <3>1. q + 1 <= Len(a.chars)
      BY <1>1, <2>1, <2>2
    <3>2. Unpacked(a, 1) = a.chars[q + 1]
      BY <1>2, <3>1, Bit1
    <3> QED BY <1>1, <2>2, <3>2 DEF speex_bits_peek
  <2>3. CASE ~(q < Len(b.chars))
    BY <1>1, <2>1, <2>3
  <2> QED BY <2>2, <2>3
<1>4. LayerRead(a) = [mode |-> 0, bits |-> a]
  BY <1>3 DEF LayerRead
<1> QED BY <1>4 DEF AfterLayer, a

(* The decoder reads a frame and stands behind it.                          *)
Behind(at, fs, i, dwide, wide) ==
  at[i + 1] - (IF wide /\ ~dwide THEN LayerLen(fs[i].high) ELSE 0)

LowEnds(c, at, fs, wide, i, e, u) ==
  /\ u = LowLen(fs[i].low) /\ e = at[i] + u /\ e <= Len(c)
  /\ ~wide => e = at[i + 1]
  /\ wide => /\ e = at[i + 1] - LayerLen(fs[i].high) /\ LayerAt(c, e, fs[i].high)
             /\ e + LayerLen(fs[i].high) = at[i + 1] /\ at[i + 1] <= Len(c)

(* A low band ends where its layer begins.                                  *)
LEMMA BehindIn ==
  ASSUME NEW b, NEW p, NEW at, NEW fs, NEW wide, NEW skip, NEW k, NEW n,
         Positioned(b, p, at, fs, wide, skip, k, n), NEW i \in 1 .. n
  PROVE  \E e \in Nat, u \in 5 .. 492 : LowEnds(b.chars, at, fs, wide, i, e, u)
<1>1. FrameFacts(b.chars, at, fs, wide, i, n)
  BY FrameInside, SMTT(30)
<1>2. PICK u \in 5 .. 492 : u = LowLen(fs[i].low)
  <2>1. fs[i].low \in 0 .. 8
    BY <1>1 DEF FrameFacts, SentFrames
  <2> QED BY <2>1, Lengths
<1>3. PICK a, len, d : a = at[i] /\ len = Len(b.chars) /\ d = at[i + 1]
  OBVIOUS
<1>4. a \in Nat /\ len \in Nat /\ d \in Nat
  BY <1>1, <1>3 DEF FrameFacts
<1>5. CASE wide
  <2>1. PICK q \in Nat, h \in 0 .. 4, l \in 4 .. 352 : LayerFacts(b.chars, at, fs, i, q, h, l)
    BY <1>5, LayerInside, ZenonT(40)
  <2>2. /\ q = a + u /\ h = fs[i].high /\ l = LayerLen(h) /\ q + l = d /\ q = d - l
        /\ LayerAt(b.chars, q, h) /\ q + l <= len
    BY <1>2, <1>3, <2>1 DEF LayerFacts
  <2>3. q <= len /\ d <= len
    BY <1>4, <2>2
  <2>4. LowEnds(b.chars, at, fs, wide, i, q, u)
    BY <1>2, <1>3, <1>5, <2>2, <2>3 DEF LowEnds
  <2> WITNESS q \in Nat, u \in 5 .. 492
  <2> QED BY ONLY <2>4, Zenon
<1>6. CASE ~wide
  <2>1. FrameLen(fs[i], wide) = u
    BY <1>2, <1>6 DEF FrameLen
  <2>2. PICK e : e = at[n + 1] /\ e \in Nat /\ a + u <= e /\ e <= len /\ d = a + u
    BY <1>1, <1>3, <2>1 DEF FrameFacts
  <2>3. a + u \in Nat /\ a + u <= len
    BY ONLY <1>4, <2>2, u \in 5 .. 492
  <2>4. LowEnds(b.chars, at, fs, wide, i, a + u, u)
    BY <1>2, <1>3, <1>6, <2>2, <2>3 DEF LowEnds
  <2> QED BY <2>3, <2>4
<1> QED BY <1>5, <1>6, SMTT(30)

(* Behind a frame follows a zero: the next frame, or the terminator.        *)
LEMMA NextZero ==
  ASSUME NEW b, NEW p, NEW at, NEW fs, NEW wide, NEW skip, NEW k, NEW n,
         Positioned(b, p, at, fs, wide, skip, k, n), NEW i \in 1 .. n
  PROVE  /\ at[i + 1] < Len(b.chars) => b.chars[at[i + 1] + 1] = 0
<1>1. n \in Nat
  BY DEF Positioned
<1>2. CASE i = n
  BY <1>2, EndOf
<1>3. CASE i # n
  <2>1. PICK j \in 1 .. n : j = i + 1
    BY <1>1, <1>3
  <2>2. BlockFacts(b.chars, at, fs, j)
    BY BlockInside
  <2> QED BY <2>1, <2>2 DEF BlockFacts
<1> QED BY <1>2, <1>3

(* What the decoder knows of frame i when it has read it.                   *)
Understood(b, at, f, i, low, dwide, wide, place) ==
  LET d == LowDecoded(low, f.low, At(b, at[i] + 5))
  IN  /\ f.low = 0 => d.low = [low EXCEPT !.first = TRUE, !.count_lost = 0]
      /\ f.low # 0 => d.low = [first |-> FALSE, count_lost |-> 0,
                               dtx_enabled |-> f.low = 1 /\ Field4(b.chars, at[i] + 39) = 15]
      /\ dwide => LayerRead(d.bits).mode = (IF wide THEN f.high ELSE 0) /\ AfterLayer(d.bits) = At(b, place)
      /\ ~dwide => d.bits = At(b, place)

(* The decoder reads frame i to its end.                                    *)
LEMMA FrameRead ==
  ASSUME NEW b, NEW p, NEW at, NEW fs, NEW wide, NEW skip, NEW k, NEW n, NEW low, NEW dwide \in BOOLEAN,
         Positioned(b, p, at, fs, wide, skip, k, n), NEW i \in 1 .. n,
         Readable(At(b, at[i] + 5), at[i] + 5)
  PROVE  /\ Understood(b, at, fs[i], i, low, dwide, wide, Behind(at, fs, i, dwide, wide))
         /\ Behind(at, fs, i, dwide, wide) \in Nat /\ Behind(at, fs, i, dwide, wide) <= Len(b.chars)
<1>0. PICK e \in Nat, u \in 5 .. 492 : LowEnds(b.chars, at, fs, wide, i, e, u)
  BY BehindIn, SMTT(30)
<1>1. /\ u = LowLen(fs[i].low) /\ e = at[i] + u /\ e <= Len(b.chars)
      /\ ~wide => e = at[i + 1]
      /\ wide => /\ e = at[i + 1] - LayerLen(fs[i].high) /\ LayerAt(b.chars, e, fs[i].high)
                 /\ e + LayerLen(fs[i].high) = at[i + 1] /\ at[i + 1] <= Len(b.chars)
  BY <1>0 DEF LowEnds
<1>2. PICK q, f : q = at[i] /\ f = fs[i]
  OBVIOUS
<1>3. /\ q \in Nat /\ Len(b.chars) \in Nat /\ f.low \in 0 .. 8 /\ f.high \in 0 .. 4 /\ at[i + 1] \in Nat
      /\ wide \in BOOLEAN
  <2>1. FrameFacts(b.chars, at, fs, wide, i, n)
    BY FrameInside
  <2>2. wide \in BOOLEAN
    BY DEF Positioned
  <2> QED BY <1>2, <2>1, <2>2 DEF FrameFacts, SentFrames
<1>4. PICK d : d = LowDecoded(low, f.low, At(b, q + 5))
  OBVIOUS
<1>5. /\ d.bits = At(b, e) /\ Readable(At(b, e), e)
      /\ f.low = 0 => d.low = [low EXCEPT !.first = TRUE, !.count_lost = 0]
      /\ f.low # 0 => d.low = [first |-> FALSE, count_lost |-> 0,
                               dtx_enabled |-> f.low = 1 /\ Field4(b.chars, q + 39) = 15]
  <2>1. PICK m \in 0 .. 8 : m = f.low
    BY <1>3
  <2>2. u = LowLen(m) /\ q + u <= Len(b.chars) /\ Readable(At(b, q + 5), q + 5) /\ q + u = e
    BY <1>1, <1>2, <2>1
  <2>3. LowAhead(b, q, m, u)
    BY <1>3, <2>2 DEF LowAhead
  <2>4. LowRead(b, q, m, u, low, d)
    BY <1>4, <2>1, <2>3, LowReads
  <2> QED BY <2>1, <2>2, <2>4, Zenon DEF LowRead
<1>6. CASE wide
  <2>1. PICK h \in 0 .. 4, l \in 4 .. 352 : h = f.high /\ l = LayerLen(h)
    BY <1>3, Lengths, ZenonT(30)
  <2>2. LayerAt(b.chars, e, h) /\ e + l = at[i + 1] /\ e = at[i + 1] - l /\ e + l <= Len(b.chars)
    BY <1>1, <1>2, <1>6, <2>1
  <2>3. LayerRead(At(b, e)).mode = h /\ AfterLayer(At(b, e)) = At(b, e + l)
    <3>1. LayerAhead(b, e, h, l)
      BY <1>3, <1>5, <2>1, <2>2 DEF LayerAhead
    <3> QED BY <3>1, LayerReads
  <2>4. CASE dwide
    <3>1. Behind(at, fs, i, dwide, wide) = e + l
      BY <1>3, <2>2, <2>4 DEF Behind
    <3>2. e + l \in Nat
      BY <2>1
    <3>3. LayerRead(d.bits).mode = (IF wide THEN f.high ELSE 0) /\ AfterLayer(d.bits) = At(b, e + l)
      BY <1>5, <1>6, <2>1, <2>3
    <3>4. Understood(b, at, f, i, low, dwide, wide, e + l)
      BY <1>2, <1>4, <1>5, <2>4, <3>3, Zenon DEF Understood
    <3> QED BY <1>2, <2>2, <3>1, <3>2, <3>4
  <2>5. CASE ~dwide
    <3>1. Behind(at, fs, i, dwide, wide) = e
      BY <1>2, <1>6, <2>1, <2>2, <2>5 DEF Behind
    <3>2. Understood(b, at, f, i, low, dwide, wide, e)
      BY <1>2, <1>4, <1>5, <2>5, Zenon DEF Understood
    <3> QED BY <1>1, <1>2, <3>1, <3>2
  <2> QED BY <2>4, <2>5, Zenon
<1>7. CASE ~wide
  <2>1. Behind(at, fs, i, dwide, wide) = e
    BY <1>1, <1>3, <1>7 DEF Behind
  <2>2. e < Len(b.chars) => b.chars[e + 1] = 0
    BY <1>1, <1>7, NextZero
  <2>3. LayerRead(At(b, e)).mode = 0 /\ AfterLayer(At(b, e)) = At(b, e)
    BY <1>5, <2>2, NoLayer
  <2>4. LayerRead(d.bits).mode = (IF wide THEN f.high ELSE 0) /\ AfterLayer(d.bits) = At(b, e)
    BY <1>5, <1>7, <2>3
  <2>5. Understood(b, at, f, i, low, dwide, wide, e)
    BY <1>2, <1>4, <1>5, <2>4, Zenon DEF Understood
  <2> QED BY <1>1, <1>2, <2>1, <2>5
<1> QED BY <1>3, <1>6, <1>7

(* The decoder stands behind frame i.                                       *)
LEMMA NowBehind ==
  ASSUME NEW b, NEW p, NEW at, NEW fs, NEW wide, NEW skip, NEW k, NEW n, NEW dwide \in BOOLEAN,
         Positioned(b, p, at, fs, wide, skip, k, n), NEW i \in 1 .. n, skip = (wide /\ ~dwide),
         NEW place \in Nat, place = Behind(at, fs, i, dwide, wide), place <= Len(b.chars)
  PROVE  Positioned(At(b, place), place, at, fs, wide, skip, i, n)
<1>1. /\ b \in Streams /\ b.nbBits = Len(b.chars) /\ ~b.overflow
  BY DEF Positioned, Readable
<1>2. /\ At(b, place).chars = b.chars /\ Readable(At(b, place), place)
  <2>1. /\ At(b, place).chars = b.chars /\ At(b, place).nbBits = b.nbBits /\ At(b, place).pos = place
        /\ At(b, place).overflow = b.overflow /\ At(b, place) \in Streams
    BY <1>1 DEF At, Streams
  <2> QED BY <1>1, <2>1 DEF Readable
<1>3. place = at[i + 1] - (IF skip THEN LayerLen(fs[i].high) ELSE 0)
  BY DEF Behind
<1>4. i \in 0 .. n /\ i # 0
  OBVIOUS
<1> QED BY <1>2, <1>3, <1>4 DEF Positioned

-----------------------------------------------------------------------------
(* The choice of a submode                                                  *)

LEMMA BitRates ==
  /\ GetBitrate(0) = 250 /\ GetBitrate(1) = 2150
  /\ \A m \in 1 .. 8 : GetBitrate(m) \in Nat /\ GetBitrate(m) >= 2150
<1>1. /\ \A m \in 1 .. 8 : nb_submodes[m].bits_per_frame \in 43 .. 492
      /\ nb_submodes[1].bits_per_frame = 43
  BY DEF nb_submodes, nb_submode1, nb_submode2, nb_submode3, nb_submode4, nb_submode5, nb_submode6,
         nb_submode7, nb_submode8, Submode
<1>2. \A m \in 1 .. 8 : GetBitrate(m) = (8000 * nb_submodes[m].bits_per_frame) \div 160
  BY DEF GetBitrate, frameSize
<1>3. \A x \in 43 .. 492 : (8000 * x) \div 160 = 50 * x
  OBVIOUS
<1>4. ASSUME NEW m \in 1 .. 8 PROVE GetBitrate(m) \in Nat /\ GetBitrate(m) >= 2150
  <2>1. PICK x \in 43 .. 492 : x = nb_submodes[m].bits_per_frame
    BY <1>1
  <2>2. GetBitrate(m) = 50 * x
    BY <1>2, <1>3, <2>1
  <2> QED BY <2>2
<1>5. GetBitrate(1) = 2150
  BY <1>1, <1>2
<1>6. GetBitrate(0) = 250
  BY DEF GetBitrate, NB_SUBMODE_BITS, frameSize
<1> QED BY <1>4, <1>5, <1>6

(* The maps of SPEEX_SET_QUALITY.                                           *)
LEMMA QualityModes == \A q \in 0 .. 10 : /\ SetQuality(q) \in 1 .. 8
                                         /\ wb_low_quality_map[q + 1] \in 1 .. 8
                                         /\ wb_quality_map[q + 1] \in 0 .. 4
<1>1. \A j \in 1 .. 11 : nb_quality_map[j] \in 1 .. 8 /\ wb_low_quality_map[j] \in 1 .. 8 /\ wb_quality_map[j] \in 0 .. 4
  BY DEF nb_quality_map, wb_low_quality_map, wb_quality_map
<1>2. ASSUME NEW q \in 0 .. 10
      PROVE SetQuality(q) = nb_quality_map[q + 1] /\ q + 1 \in 1 .. 11
  BY DEF SetQuality
<1> QED BY <1>1, <1>2

(* SPEEX_SET_BITRATE selects a submode that has fields.                     *)
LEMMA BitrateModes ==
  ASSUME NEW t \in Nat
  PROVE  SetBitrate(t) \in 1 .. 8 /\ (t < 2150 => SetBitrate(t) = 1)
<1> DEFINE fits == {q \in 0 .. 10 : GetBitrate(SetQuality(q)) <= t}
           best == CHOOSE q \in fits : \A p \in fits : p <= q
<1>1. SetBitrate(t) = IF fits = {} THEN SetQuality(0) ELSE SetQuality(best)
  BY DEF SetBitrate
<1>2. SetQuality(0) = 1
  BY DEF SetQuality, nb_quality_map
<1>3. CASE fits = {}
  BY <1>1, <1>2, <1>3
<1>4. CASE fits # {}
  <2>1. best \in fits
    <3>1. fits \subseteq 0 .. 10
      OBVIOUS
    <3> HIDE DEF fits
    <3>2. PICK ten \in Nat : ten = 10
      OBVIOUS
    <3>3. \E x \in fits : \A y \in fits : y <= x
      BY <1>4, <3>1, <3>2, NatMax
    <3> QED BY <3>3
  <2>2. best \in 0 .. 10 /\ GetBitrate(SetQuality(best)) <= t
    <3> HIDE DEF best
    <3> QED BY <2>1
  <2> HIDE DEF best
  <2>3. SetQuality(best) \in 1 .. 8
    BY <2>2, QualityModes
  <2>4. ~(t < 2150)
    <3>1. GetBitrate(SetQuality(best)) >= 2150 /\ GetBitrate(SetQuality(best)) \in Nat
      BY <2>3, BitRates
    <3> QED BY <2>2, <3>1
  <2> QED BY <1>1, <1>4, <2>3, <2>4
<1> QED BY <1>3, <1>4

LowStates == [submodeID : 0 .. 8, submodeSelect : 0 .. 8, dtx_count : Nat, first : BOOLEAN]
HighStates == [submodeID : 0 .. 4, submodeSelect : 0 .. 4, first : BOOLEAN]

LEMMA ModeSet ==
  /\ \A low \in LowStates : \A m \in 0 .. 8 :
       /\ SetMode(low, m) \in LowStates /\ SetMode(low, m).submodeID = m
       /\ SetMode(low, m).first = low.first /\ SetMode(low, m).dtx_count = low.dtx_count
  /\ \A high \in HighStates : \A m \in 0 .. 4 :
       SetMode(high, m) \in HighStates /\ SetMode(high, m).first = high.first
BY DEF SetMode, LowStates, HighStates

LEMMA EncoderParts ==
  ASSUME NEW e \in Encoders
  PROVE  /\ e.low \in LowStates /\ e.high \in HighStates /\ e.wide \in BOOLEAN /\ e.vbr \in BOOLEAN
         /\ e.vad \in BOOLEAN /\ e.dtx \in BOOLEAN /\ e.vbr_max \in Nat
BY DEF Encoders, LowStates, HighStates

LEMMA SilenceModes ==
  ASSUME NEW e \in Encoders, NEW jump
  PROVE  Silence(e, jump).mode \in {0, 1} /\ Silence(e, jump).dtx_count \in Nat \ {0}
<1>1. e.low.dtx_count \in Nat
  BY EncoderParts DEF LowStates
<1> QED BY <1>1 DEF Silence

(* What the analysis does to the low band.                                  *)
Chosen(e, a, low) ==
  /\ low \in LowStates /\ low.first = e.low.first
  /\ AnalysisOn(e) => (low.dtx_count # 0 <=> a.silent)
  /\ AnalysisOn(e) /\ a.silent => low.submodeID \in {0, 1}
  /\ ~AnalysisOn(e) => low = e.low

(* The analysis selects a narrowband submode, and counts silence.           *)
LEMMA LowChosen ==
  ASSUME NEW e \in Encoders, NEW a \in Analyses(e)
  PROVE  Chosen(e, a, LowMode(e, a))
<1>1. /\ a.silent \in BOOLEAN /\ (e.vbr => a.mode \in 1 .. 8)
  BY SpeexCodecAssumption DEF Analyses
<1>2. e.low \in LowStates /\ e.vbr \in BOOLEAN /\ e.vad \in BOOLEAN /\ e.vbr_max \in Nat
  BY EncoderParts
<1>3. CASE e.vbr
  <2> DEFINE c == IF a.silent THEN Silence(e, a.jump) ELSE [mode |-> a.mode, dtx_count |-> 0]
             mode == IF e.vbr_max > 0 /\ GetBitrate(c.mode) > e.vbr_max
                     THEN SetBitrate(e.vbr_max) ELSE c.mode
             l0 == [e.low EXCEPT !.dtx_count = c.dtx_count]
  <2>1. LowMode(e, a) = SetMode(l0, mode)
    BY <1>3 DEF LowMode, VbrMode
  <2>2. /\ c.dtx_count \in Nat /\ (c.dtx_count # 0 <=> a.silent)
        /\ c.mode \in 0 .. 8 /\ (a.silent => c.mode \in {0, 1})
    <3>1. CASE a.silent
      BY <3>1, SilenceModes
    <3>2. CASE ~a.silent
      BY <1>1, <1>3, <3>2
    <3> QED BY <3>1, <3>2
  <2> HIDE DEF c
  <2>3. mode \in 0 .. 8 /\ (a.silent => mode \in {0, 1})
    <3>1. CASE e.vbr_max > 0 /\ GetBitrate(c.mode) > e.vbr_max
      <4>1. mode = SetBitrate(e.vbr_max)
        BY <3>1
      <4>2. SetBitrate(e.vbr_max) \in 1 .. 8 /\ (e.vbr_max < 2150 => SetBitrate(e.vbr_max) = 1)
        BY <1>2, BitrateModes
      <4>3. a.silent => GetBitrate(c.mode) \in {250, 2150}
        BY <2>2, BitRates
      <4>4. a.silent => e.vbr_max < 2150
        BY <1>2, <3>1, <4>3
      <4> HIDE DEF mode
      <4> QED BY <4>1, <4>2, <4>4
    <3>2. CASE ~(e.vbr_max > 0 /\ GetBitrate(c.mode) > e.vbr_max)
      BY <2>2, <3>2
    <3> QED BY <3>1, <3>2
  <2>4. l0 \in LowStates /\ l0.first = e.low.first /\ l0.dtx_count = c.dtx_count
    BY <1>2, <2>2 DEF LowStates
  <2> HIDE DEF mode, l0
  <2>5. SetMode(l0, mode) \in LowStates /\ SetMode(l0, mode).submodeID = mode
        /\ SetMode(l0, mode).first = l0.first /\ SetMode(l0, mode).dtx_count = l0.dtx_count
    BY <2>3, <2>4, ModeSet
  <2>6. AnalysisOn(e)
    BY <1>3 DEF AnalysisOn
  <2> QED BY <2>1, <2>2, <2>3, <2>4, <2>5, <2>6 DEF Chosen
<1>4. CASE ~e.vbr /\ e.vad
  <2> DEFINE c == IF a.silent THEN Silence(e, a.jump)
                  ELSE [mode |-> e.low.submodeSelect, dtx_count |-> 0]
             l0 == [e.low EXCEPT !.submodeID = c.mode, !.dtx_count = c.dtx_count]
  <2>1. LowMode(e, a) = l0
    BY <1>4 DEF LowMode, VadMode
  <2>2. /\ c.dtx_count \in Nat /\ (c.dtx_count # 0 <=> a.silent)
        /\ c.mode \in 0 .. 8 /\ (a.silent => c.mode \in {0, 1})
    <3>1. CASE a.silent
      BY <3>1, SilenceModes
    <3>2. CASE ~a.silent
      BY <1>2, <3>2 DEF LowStates
    <3> QED BY <3>1, <3>2
  <2> HIDE DEF c
  <2>3. l0 \in LowStates /\ l0.first = e.low.first /\ l0.dtx_count = c.dtx_count /\ l0.submodeID = c.mode
    BY <1>2, <2>2 DEF LowStates
  <2> HIDE DEF l0
  <2>4. AnalysisOn(e)
    BY <1>4 DEF AnalysisOn
  <2> QED BY <2>1, <2>2, <2>3, <2>4 DEF Chosen
<1>5. CASE ~e.vbr /\ ~e.vad
  <2>1. LowMode(e, a) = e.low /\ ~AnalysisOn(e)
    BY <1>5 DEF LowMode, AnalysisOn
  <2> QED BY <1>2, <2>1 DEF Chosen
<1> QED BY <1>2, <1>3, <1>4, <1>5

(* It selects a high-band submode.                                          *)
LEMMA HighChosen ==
  ASSUME NEW e \in Encoders, NEW a \in Analyses(e), NEW low \in LowStates
  PROVE  HighMode(e, low, a) \in HighStates /\ HighMode(e, low, a).first = e.high.first
<1>1. e.high \in HighStates /\ e.vbr \in BOOLEAN /\ e.vad \in BOOLEAN
  BY EncoderParts
<1>2. a.high \in 0 .. 4
  <2>1. a.high \in (IF e.vbr /\ e.wide THEN HighModes ELSE {0})
    BY DEF Analyses
  <2>2. CASE e.vbr /\ e.wide
    BY <2>1, <2>2, SpeexCodecAssumption
  <2>3. CASE ~(e.vbr /\ e.wide)
    BY <2>1, <2>3
  <2> QED BY <2>2, <2>3
<1>3. CASE low.submodeID = 0 \/ ~AnalysisOn(e)
  <2>1. ~(low.submodeID # 0 /\ e.vbr)
    BY <1>3 DEF AnalysisOn
  <2>2. HighMode(e, low, a) = e.high
    BY <1>3, <2>1 DEF HighMode
  <2> QED BY <1>1, <2>2
<1>4. CASE low.submodeID # 0 /\ AnalysisOn(e) /\ e.vbr
  <2>1. HighMode(e, low, a) = SetMode(e.high, a.high)
    BY <1>4 DEF HighMode
  <2> QED BY <1>1, <1>2, <2>1, ModeSet
<1>5. CASE low.submodeID # 0 /\ AnalysisOn(e) /\ ~e.vbr
  <2>1. HighMode(e, low, a) = [e.high EXCEPT !.submodeID = IF a.silent THEN 1 ELSE e.high.submodeSelect]
    BY <1>5 DEF HighMode
  <2>2. e.high.submodeSelect \in 0 .. 4
    BY <1>1 DEF HighStates
  <2>3. (IF a.silent THEN 1 ELSE e.high.submodeSelect) \in 0 .. 4
    BY <2>2
  <2> QED BY <1>1, <2>1, <2>3 DEF HighStates
<1> QED BY <1>3, <1>4, <1>5

-----------------------------------------------------------------------------
(* A frame is encoded                                                       *)

(* Frame f with the bits x is what encoder e makes, and e2 what it is then. *)
Makes(e, f, x, e2) ==
  /\ f \in SentFrames /\ x \in Seq(Bit) /\ Len(x) = FrameLen(f, e.wide) /\ FrameAt(x, 0, f, e.wide)
  /\ ~e.wide => f.high = 0
  /\ f.analysed /\ f.silent => f.low \in {0, 1}
  /\ f.fresh = e.low.first /\ f.freshHigh = e.high.first
  /\ e2 \in Encoders /\ e2.wide = e.wide /\ e2.vbr = e.vbr /\ e2.vad = e.vad
  /\ e2.low.first = (f.low = 0) /\ (e.wide => e2.high.first = (f.high = 0))
  /\ ~e.vbr /\ ~e.vad => f.low = e.low.submodeID /\ e2.low.submodeID = e.low.submodeID

(* The encoder notes the frame it packs.                                    *)
LEMMA FrameMade ==
  ASSUME NEW e \in Encoders, NEW a \in Analyses(e), NEW p \in Bit, NEW low, NEW high,
         low = LowMode(e, a), high = HighMode(e, low, a)
  PROVE  Makes(e, Frame(e, low, high, a), FrameBits(e, low, high, p), AfterFrame(e, low, high))
<1> DEFINE f == Frame(e, low, high, a)
           x == FrameBits(e, low, high, p)
           e2 == AfterFrame(e, low, high)
           h == LayerMode(low, high)
<1>1. /\ e.low \in LowStates /\ e.high \in HighStates /\ e.wide \in BOOLEAN /\ e.vbr \in BOOLEAN
      /\ e.vad \in BOOLEAN
  BY EncoderParts
<1>2. Chosen(e, a, low)
  BY LowChosen
<1>3. low \in LowStates /\ low.first = e.low.first
  BY <1>2 DEF Chosen
<1>4. high \in HighStates /\ high.first = e.high.first
  BY <1>3, HighChosen
<1>5. low.submodeID \in 0 .. 8 /\ high.submodeID \in 0 .. 4 /\ low.first \in BOOLEAN /\ high.first \in BOOLEAN
  BY <1>3, <1>4 DEF LowStates, HighStates
<1>6. h \in 0 .. 4
  BY <1>5 DEF LayerMode
<1>7. a.silent \in BOOLEAN
  BY DEF Analyses
<1>8. AnalysisOn(e) \in BOOLEAN
  BY <1>1 DEF AnalysisOn
<1> HIDE DEF h
<1>9. f = [low |-> low.submodeID, high |-> IF e.wide THEN h ELSE 0,
           fresh |-> e.low.first, freshHigh |-> e.high.first,
           silent |-> a.silent, analysed |-> AnalysisOn(e)]
  BY DEF Frame, h
<1> HIDE DEF f
<1>10. f \in SentFrames
  <2>1. (IF e.wide THEN h ELSE 0) \in 0 .. 4
    BY <1>6
  <2> QED BY <1>3, <1>4, <1>5, <1>7, <1>8, <1>9, <2>1 DEF SentFrames
<1>11. /\ f.low = low.submodeID /\ f.high = (IF e.wide THEN h ELSE 0)
       /\ f.fresh = e.low.first /\ f.freshHigh = e.high.first /\ f.silent = a.silent
       /\ f.analysed = AnalysisOn(e)
  BY <1>9
<1>12. f.analysed => (low.dtx_count # 0 <=> f.silent)
  BY <1>2, <1>11 DEF Chosen
<1>13. x \in Seq(Bit) /\ Len(x) = FrameLen(f, e.wide) /\ FrameAt(x, 0, f, e.wide)
  <2>1. e.wide => f.high = LayerMode(low, high)
    BY <1>11 DEF h
  <2>2. LayerMode(low, high) \in 0 .. 4
    BY <1>6 DEF h
  <2> QED BY <1>1, <1>5, <1>10, <1>11, <1>12, <2>1, <2>2, FrameBitsAt
<1>14. f.analysed /\ f.silent => f.low \in {0, 1}
  BY <1>2, <1>11 DEF Chosen
<1> DEFINE l2 == [low EXCEPT !.first = (low.submodeID = 0)]
           h2 == IF e.wide THEN [high EXCEPT !.first = (h = 0)] ELSE e.high
<1>15. e2 = [e EXCEPT !.low = l2, !.high = h2]
  BY DEF AfterFrame, h
<1>16. l2 \in LowStates /\ l2.first = (f.low = 0) /\ l2.submodeID = low.submodeID
  BY <1>3, <1>11 DEF LowStates
<1>17. h2 \in HighStates /\ (e.wide => h2.first = (f.high = 0))
  BY <1>1, <1>4, <1>11 DEF HighStates
<1> HIDE DEF l2, h2, e2
<1>18. /\ e2 \in Encoders /\ e2.wide = e.wide /\ e2.vbr = e.vbr /\ e2.vad = e.vad
       /\ e2.low = l2 /\ e2.high = h2
  BY <1>15, <1>16, <1>17 DEF Encoders, LowStates, HighStates
<1>19. ~e.vbr /\ ~e.vad => f.low = e.low.submodeID /\ e2.low.submodeID = e.low.submodeID
  BY <1>2, <1>11, <1>16, <1>18 DEF Chosen, AnalysisOn
<1> HIDE DEF x
<1>20. Makes(e, f, x, e2)
  BY <1>10, <1>11, <1>13, <1>14, <1>16, <1>17, <1>18, <1>19 DEF Makes
<1> QED BY <1>20 DEF f, x, e2

(* Where the packet under way is.                                           *)
LibPacket(b, fs, wide) ==
  \E at, c : Layout(c, at, fs, wide) /\ Holds(b, c) /\ Len(c) = at[Len(fs) + 1]
AppPacket(w, fs) ==
  (\E at : Layout(w, at, fs, FALSE) /\ Len(w) = at[Len(fs) + 1]) /\ Len(w) % 8 = 0

(* One more frame behind the bits that were packed.                         *)
LEMMA LibGrows ==
  ASSUME NEW b, NEW fs \in Seq(SentFrames), NEW e, NEW f, NEW x, NEW e2,
         e.wide \in BOOLEAN, LibPacket(b, fs, e.wide), Makes(e, f, x, e2)
  PROVE  LibPacket(PackField(b, x), Append(fs, f), e.wide)
<1>1. PICK at, c : Layout(c, at, fs, e.wide) /\ Holds(b, c) /\ Len(c) = at[Len(fs) + 1]
  BY DEF LibPacket
<1>2. x \in Seq(Bit) /\ f \in SentFrames /\ Len(x) = FrameLen(f, e.wide) /\ FrameAt(x, 0, f, e.wide)
  BY DEF Makes
<1>3. Holds(PackField(b, x), c \o x)
  BY <1>1, <1>2, Packs
<1>4. c \in Seq(Bit)
  BY <1>1 DEF Holds
<1>5. PICK wide \in BOOLEAN : wide = e.wide
  OBVIOUS
<1>6. \E at2 : /\ Layout(c \o x, at2, Append(fs, f), wide)
               /\ Len(c \o x) = at2[Len(Append(fs, f)) + 1]
  BY <1>1, <1>2, <1>4, <1>5, LayoutGrows
<1> QED BY <1>3, <1>5, <1>6 DEF LibPacket

(* One more frame, written, behind the bytes that were written.             *)
LEMMA AppGrows ==
  ASSUME NEW b \in Streams, NEW w \in Seq(Bit), NEW fs \in Seq(SentFrames), NEW e, NEW f, NEW x, NEW e2,
         e.wide = FALSE, AppPacket(w, fs), Makes(e, f, x, e2), f.low = 3,
         NEW y, y = speex_bits_write(PackField(speex_bits_reset(b), x), MaxBytes)
  PROVE  /\ y.bits \in Streams /\ w \o y.packet \in Seq(Bit)
         /\ AppPacket(w \o y.packet, Append(fs, f))
<1>1. PICK at : Layout(w, at, fs, FALSE) /\ Len(w) = at[Len(fs) + 1]
  BY DEF AppPacket
<1>2. x \in Seq(Bit) /\ f \in SentFrames /\ Len(x) = FrameLen(f, FALSE) /\ FrameAt(x, 0, f, FALSE)
  BY DEF Makes
<1>3. Len(x) = 160
  BY <1>2, Lengths DEF FrameLen
<1>4. Holds(PackField(speex_bits_reset(b), x), x)
  <2>1. Holds(speex_bits_reset(b), <<>>)
    BY ResetHolds
  <2>2. <<>> \o x = x
    BY <1>2
  <2>3. Holds(PackField(speex_bits_reset(b), x), <<>> \o x)
    BY <1>2, <2>1, Packs
  <2> QED BY <2>2, <2>3
<1>5. PICK max \in Nat : max = MaxBytes /\ max = 160
  BY DEF MaxBytes, frameSize
<1>6. Chars(Len(x)) <= max /\ Len(x) % 8 = 0
  BY <1>3, <1>5 DEF Chars, BITS_PER_CHAR
<1>7. PICK d : d = PackField(speex_bits_reset(b), x)
  OBVIOUS
<1>8. y.bits \in Streams /\ y.packet = x
  <2>1. Written(speex_bits_write(d, max), x)
    BY <1>4, <1>6, <1>7, Writes
  <2>2. y = speex_bits_write(d, max)
    BY <1>5, <1>7
  <2> QED BY <1>6, <2>1, <2>2 DEF Written
<1>9. PICK wide \in BOOLEAN : wide = FALSE
  OBVIOUS
<1>10. \E at2 : /\ Layout(w \o x, at2, Append(fs, f), wide)
                /\ Len(w \o x) = at2[Len(Append(fs, f)) + 1]
  BY <1>1, <1>2, <1>9, LayoutGrows
<1>11. w \o x \in Seq(Bit) /\ Len(w \o x) = Len(w) + 160 /\ Len(w) \in Nat
  <2>1. x \in Seq(Bit)
    BY <1>2
  <2>2. w \o x \in Seq(Bit) /\ Len(w \o x) = Len(w) + Len(x) /\ Len(w) \in Nat
    BY <2>1, Joins
  <2> QED BY <1>3, <2>2
<1>12. Len(w \o x) % 8 = 0
  <2>1. Len(w) % 8 = 0
    BY DEF AppPacket
  <2>2. \A z \in Nat : z % 8 = 0 => (z + 160) % 8 = 0
    OBVIOUS
  <2> QED BY <1>11, <2>1, <2>2
<1> QED BY <1>8, <1>9, <1>10, <1>11, <1>12 DEF AppPacket

LEMMA Appended ==
  ASSUME NEW S, NEW fs \in Seq(S), NEW f \in S
  PROVE  /\ Append(fs, f) \in Seq(S) /\ Len(Append(fs, f)) = Len(fs) + 1 /\ Len(fs) \in Nat
         /\ Append(fs, f)[Len(fs) + 1] = f
         /\ \A i \in 1 .. Len(fs) : Append(fs, f)[i] = fs[i] /\ fs[i] \in S
OBVIOUS

(* Each action keeps the invariant: a frame is encoded.                     *)
LEMMA EncodeFrameKeeps ==
  ASSUME CodecIInv, NEW a \in Analyses(enc), EncodeFrame(a)
  PROVE  CodecIInv'
<1>1. /\ CodecTypes /\ OneSubmode /\ NarrowSent /\ PacketOK /\ SilenceCounts /\ GotOK /\ SentChain /\ Agreement
  BY DEF CodecIInv
<1>2. PICK low, high, p, f, x, n :
        /\ low = LowMode(enc, a) /\ high = HighMode(enc, low, a)
        /\ p = (Len(sent) + 1) % 2
        /\ f = Frame(enc, low, high, a) /\ x = FrameBits(enc, low, high, p) /\ n = Len(sent)
  OBVIOUS
<1>3. /\ phase = "encode" /\ n < FramesPerPacket
      /\ enc' = AfterFrame(enc, low, high)
      /\ IF framing = "app"
         THEN /\ out' = speex_bits_write(PackField(speex_bits_reset(out), x), MaxBytes).bits
              /\ wire' = wire \o speex_bits_write(PackField(speex_bits_reset(out), x), MaxBytes).packet
         ELSE out' = PackField(out, x) /\ wire' = wire
      /\ sent' = Append(sent, f)
      /\ framing' = framing /\ dec' = dec /\ inp' = inp /\ phase' = phase /\ ret' = ret /\ got' = got
      /\ agree' = agree
  BY <1>2 DEF EncodeFrame
<1>4. /\ enc \in Encoders /\ sent \in Seq(SentFrames) /\ n \in Nat /\ Len(got) = 0 /\ ret = 0
      /\ out \in Streams /\ wire \in Seq(Bit) /\ framing \in {"app", "lib"} /\ got \in Seq(GotFrames)
      /\ dec \in Decoders /\ inp \in Streams /\ agree \in {"yes", "lost", "no"}
  BY <1>1, <1>2, <1>3 DEF CodecTypes
<1>5. Makes(enc, f, x, enc')
  <2>1. p \in Bit
    BY <1>2, <1>4 DEF Bit
  <2> QED BY <1>2, <1>3, <1>4, <2>1, FrameMade
<1>6. /\ sent' \in Seq(SentFrames) /\ Len(sent') = n + 1 /\ sent'[n + 1] = f /\ f \in SentFrames
      /\ \A i \in 1 .. n : sent'[i] = sent[i] /\ sent[i] \in SentFrames
  <2>1. f \in SentFrames
    BY <1>5 DEF Makes
  <2> QED BY <1>2, <1>3, <1>4, <2>1, Appended
<1>7. \A i \in 1 .. n + 1 : i \in 1 .. n \/ i = n + 1
  BY <1>4
<1>8. enc.wide \in BOOLEAN /\ enc'.wide = enc.wide
  BY <1>4, <1>5, EncoderParts DEF Makes
<1>9. framing = "app" => ~enc.wide /\ ~dec.wide /\ ~enc.vbr /\ ~enc.vad /\ enc.low.submodeID = 3
                         /\ \A i \in 1 .. n : sent[i].low = 3
  BY <1>1, <1>2 DEF OneSubmode
<1>10. framing = "app" => f.low = 3 /\ enc'.low.submodeID = 3
  BY <1>5, <1>9 DEF Makes
<1>11. ASSUME framing = "lib"
       PROVE  PacketOK' /\ out' \in Streams /\ wire' \in Seq(Bit)
  <2>1. wire = <<>> /\ LibPacket(out, sent, enc.wide)
    BY <1>1, <1>3, <1>11 DEF PacketOK, LibPacket
  <2>2. LibPacket(out', sent', enc.wide)
    BY <1>3, <1>4, <1>5, <1>8, <1>11, <2>1, LibGrows
  <2>3. out' \in Streams
    BY <1>3, <1>11, <2>2 DEF LibPacket, Holds
  <2>4. PacketOK'
    BY <1>3, <1>8, <1>11, <2>1, <2>2 DEF PacketOK, LibPacket
  <2>5. wire' \in Seq(Bit)
    BY <1>3, <1>4, <1>11
  <2> QED BY <2>3, <2>4, <2>5
<1>12. ASSUME framing = "app"
       PROVE  PacketOK' /\ out' \in Streams /\ wire' \in Seq(Bit)
  <2>1. AppPacket(wire, sent) /\ enc.wide = FALSE /\ f.low = 3
    BY <1>1, <1>3, <1>8, <1>9, <1>10, <1>12 DEF PacketOK, AppPacket
  <2>2. PICK y : /\ y = speex_bits_write(PackField(speex_bits_reset(out), x), MaxBytes)
                 /\ out' = y.bits /\ wire' = wire \o y.packet
    BY <1>3, <1>12
  <2>3. /\ y.bits \in Streams /\ wire \o y.packet \in Seq(Bit)
        /\ AppPacket(wire \o y.packet, Append(sent, f))
    BY <1>4, <1>5, <2>1, <2>2, AppGrows
  <2>4. PacketOK'
    BY <1>3, <1>12, <2>2, <2>3 DEF PacketOK, AppPacket
  <2>5. out' \in Streams /\ wire' \in Seq(Bit)
    BY <2>2, <2>3
  <2> QED BY <2>4, <2>5
<1>13. CodecTypes'
  <2>1. enc' \in Encoders
    BY <1>5 DEF Makes
  <2>2. n + 1 <= FramesPerPacket
    BY <1>3, <1>4, SpeexCodecAssumption
  <2>3. out' \in Streams /\ wire' \in Seq(Bit)
    BY <1>4, <1>11, <1>12
  <2>4. sent' \in Seq(SentFrames) /\ Len(sent') = n + 1 /\ Len(got') \in 0 .. Len(sent')
    BY <1>3, <1>4, <1>6
  <2> QED BY <1>3, <1>4, <2>1, <2>2, <2>3, <2>4 DEF CodecTypes
<1>14. OneSubmode'
  <2>1. CASE framing = "app"
    <3>1. ~enc'.wide /\ ~enc'.vbr /\ ~enc'.vad
      BY <1>5, <1>9, <2>1 DEF Makes
    <3>2. \A i \in 1 .. n + 1 : sent'[i].low = 3
      BY <1>6, <1>7, <1>9, <1>10, <2>1
    <3> QED BY <1>3, <1>6, <1>9, <1>10, <2>1, <3>1, <3>2 DEF OneSubmode
  <2>2. CASE framing # "app"
    BY <1>3, <2>2 DEF OneSubmode
  <2> QED BY <2>1, <2>2
<1>15. NarrowSent'
  <2> SUFFICES ASSUME ~enc.wide PROVE \A i \in 1 .. n + 1 : sent'[i].high = 0
    BY <1>6, <1>8 DEF NarrowSent
  <2>1. f.high = 0
    BY <1>5 DEF Makes
  <2>2. \A i \in 1 .. n : sent[i].high = 0
    BY <1>1, <1>2 DEF NarrowSent
  <2> QED BY <1>6, <1>7, <2>1, <2>2
<1>16. SilenceCounts'
  <2>1. f.analysed /\ f.silent => f.low \in {0, 1}
    BY <1>5 DEF Makes
  <2>2. \A i \in 1 .. n : sent[i].analysed /\ sent[i].silent => sent[i].low \in {0, 1}
    BY <1>1, <1>2 DEF SilenceCounts
  <2>3. \A i \in 1 .. n + 1 : sent'[i].analysed /\ sent'[i].silent => sent'[i].low \in {0, 1}
    BY <1>6, <1>7, <2>1, <2>2
  <2> QED BY <1>6, <2>3 DEF SilenceCounts
<1>17. GotOK'
  BY <1>3, <1>4 DEF GotOK
<1>18. SentChain'
  <2>1. /\ enc'.low.first = (f.low = 0) /\ (enc.wide => enc'.high.first = (f.high = 0))
        /\ f.fresh = enc.low.first /\ f.freshHigh = enc.high.first
    BY <1>5 DEF Makes
  <2>2. ASSUME NEW i \in 2 .. n + 1
        PROVE  /\ sent'[i].fresh = (sent'[i - 1].low = 0)
               /\ enc.wide => sent'[i].freshHigh = (sent'[i - 1].high = 0)
    <3>1. i - 1 \in 1 .. n /\ sent'[i - 1] = sent[i - 1] /\ n > 0
      BY <1>4, <1>6
    <3>2. CASE i = n + 1
      <4>1. i - 1 = n
        BY <1>4, <3>2
      <4>2. enc.low.first = (sent[n].low = 0) /\ (enc.wide => enc.high.first = (sent[n].high = 0))
        BY <1>1, <1>2, <3>1 DEF SentChain
      <4> QED BY <1>6, <2>1, <3>1, <3>2, <4>1, <4>2
    <3>3. CASE i # n + 1
      <4>1. i \in 2 .. n /\ i \in 1 .. n
        BY <1>4, <3>3
      <4>2. /\ sent[i].fresh = (sent[i - 1].low = 0)
            /\ enc.wide => sent[i].freshHigh = (sent[i - 1].high = 0)
        BY <1>1, <1>2, <4>1 DEF SentChain
      <4> QED BY <1>6, <3>1, <4>1, <4>2
    <3> QED BY <3>2, <3>3
  <2>3. /\ Len(sent') = n + 1 /\ sent'[Len(sent')] = f
    BY <1>6
  <2> QED BY <1>8, <2>1, <2>2, <2>3 DEF SentChain
<1>19. Agreement'
  <2>1. Len(sent') > 0 /\ Len(got') = 0 /\ phase' = "encode"
    BY <1>3, <1>4, <1>6
  <2>2. NextFresh' = sent'[1].fresh /\ NextFreshHigh' = sent'[1].freshHigh
    BY <2>1 DEF NextFresh, NextFreshHigh
  <2>3. sent'[1].fresh = NextFresh /\ sent'[1].freshHigh = NextFreshHigh
    <3>1. CASE n = 0
      <4>1. sent'[1] = f /\ f.fresh = enc.low.first /\ f.freshHigh = enc.high.first
        BY <1>5, <1>6, <3>1 DEF Makes
      <4> QED BY <1>2, <3>1, <4>1 DEF NextFresh, NextFreshHigh
    <3>2. CASE n # 0
      <4>1. sent'[1] = sent[1] /\ n > 0
        BY <1>4, <1>6, <3>2
      <4> QED BY <1>2, <1>3, <1>4, <4>1 DEF NextFresh, NextFreshHigh
    <3> QED BY <3>1, <3>2
  <2>4. DecoderFresh' = DecoderFresh
    BY <1>3 DEF DecoderFresh
  <2> QED BY <1>1, <1>3, <1>8, <2>1, <2>2, <2>3, <2>4 DEF Agreement
<1>20. PacketOK'
  BY <1>4, <1>11, <1>12
<1> QED BY <1>13, <1>14, <1>15, <1>16, <1>17, <1>18, <1>19, <1>20 DEF CodecIInv

(* The message in front of a stereo packet.                                 *)
StereoBits == BitsOf(14, 5) \o BitsOf(9, 4) \o Payload(1 + 5 + 2, 1)

LEMMA StereoAt == StereoBits \in Seq(Bit) /\ Len(StereoBits) = 17 /\ HeaderAt(StereoBits)
<1> DEFINE m == BitsOf(14, 5)
           i == BitsOf(9, 4)
           q == Payload(1 + 5 + 2, 1)
           mi == m \o i
<1>1. m \in Seq(Bit) /\ Len(m) = 5 /\ m[1] = 0 /\ m[2] = 1 /\ m[3] = 1 /\ m[4] = 1 /\ m[5] = 0
  BY DEF BitsOf, Bit
<1>2. i \in Seq(Bit) /\ Len(i) = 4 /\ i[1] = 1 /\ i[2] = 0 /\ i[3] = 0 /\ i[4] = 1
  BY DEF BitsOf, Bit
<1>3. q \in Seq(Bit) /\ Len(q) = 8
  <2>1. PICK w \in Nat : w = 8 /\ 1 + 5 + 2 = w
    OBVIOUS
  <2>2. PICK p \in Bit : p = 1
    BY DEF Bit
  <2>3. Payload(w, p) \in Seq(Bit) /\ Len(Payload(w, p)) = w
    BY Payloads
  <2> QED BY <2>1, <2>2, <2>3
<1>4. StereoBits = mi \o q
  BY DEF StereoBits
<1> HIDE DEF m, i, q, mi
<1>5. mi \in Seq(Bit) /\ Len(mi) = 9 /\ (\A k \in 1 .. 5 : mi[k] = m[k]) /\ \A k \in 1 .. 4 : mi[5 + k] = i[k]
  <2>1. PICK n, l : n = 5 /\ l = 4
    OBVIOUS
  <2>2. Concat(mi, m, i, n, l)
    BY <1>1, <1>2, <2>1 DEF mi, Concat
  <2>3. /\ mi \in Seq(Bit) /\ Len(mi) = n + l
        /\ \A k \in 1 .. n : mi[k] = m[k]
        /\ \A k \in 1 .. l : mi[n + k] = i[k]
    BY <2>2, JoinAt
  <2> QED BY <2>1, <2>3
<1>6. mi \o q \in Seq(Bit) /\ Len(mi \o q) = 17 /\ \A k \in 1 .. 9 : (mi \o q)[k] = mi[k]
  <2>1. PICK n, l : n = 9 /\ l = 8
    OBVIOUS
  <2>2. PICK d : d = mi \o q
    OBVIOUS
  <2>3. Concat(d, mi, q, n, l)
    BY <1>3, <1>5, <2>1, <2>2 DEF Concat
  <2>4. d \in Seq(Bit) /\ Len(d) = n + l /\ \A k \in 1 .. n : d[k] = mi[k]
    BY <2>3, JoinAt
  <2>5. d \in Seq(Bit) /\ Len(d) = 17 /\ \A k \in 1 .. 9 : d[k] = mi[k]
    BY <2>1, <2>4
  <2> QED BY <2>2, <2>5, Zenon
<1>7. PICK s : s = StereoBits
  OBVIOUS
<1>11. \A k \in 1 .. 9 : s[k] = mi[k]
  BY <1>4, <1>6, <1>7
<1>8. s[1] = 0 /\ s[2] = 1 /\ s[3] = 1 /\ s[4] = 1 /\ s[5] = 0
  <2>1. \A k \in 1 .. 5 : s[k] = m[k]
    BY <1>5, <1>11
  <2>2. 1 \in 1 .. 5 /\ 2 \in 1 .. 5 /\ 3 \in 1 .. 5 /\ 4 \in 1 .. 5 /\ 5 \in 1 .. 5
    OBVIOUS
  <2> QED BY <1>1, <2>1, <2>2
<1>9. s[6] = 1 /\ s[7] = 0 /\ s[8] = 0 /\ s[9] = 1
  <2>1. mi[6] = 1 /\ mi[7] = 0 /\ mi[8] = 0 /\ mi[9] = 1
    <3>1. mi[5 + 1] = i[1] /\ mi[5 + 2] = i[2] /\ mi[5 + 3] = i[3] /\ mi[5 + 4] = i[4]
      BY <1>5
    <3> QED BY <1>2, <3>1
  <2> QED BY <1>11, <2>1
<1>10. HeaderAt(s)
  BY <1>8, <1>9 DEF HeaderAt, Field4
<1> QED BY <1>4, <1>6, <1>7, <1>10

(* The message goes in front of an empty packet.                            *)
LEMMA StereoPacket ==
  ASSUME NEW b, NEW fs, fs = <<>>, NEW wide \in BOOLEAN, LibPacket(b, fs, wide), b.nbBits = 0
  PROVE  LibPacket(PackField(b, StereoBits), fs, wide)
<1>1. PICK at, c : Layout(c, at, fs, wide) /\ Holds(b, c) /\ Len(c) = at[Len(fs) + 1]
  BY DEF LibPacket
<1>2. c \in Seq(Bit) /\ Len(c) = 0 /\ Len(fs) = 0
  BY <1>1 DEF Holds
<1>3. Holds(PackField(b, StereoBits), c \o StereoBits)
  BY <1>1, StereoAt, Packs
<1>4. c \o StereoBits = StereoBits
  <2>1. c = <<>>
    BY <1>2
  <2> QED BY <2>1, StereoAt
<1>5. PICK at2 : at2 = [j \in 1 .. 1 |-> 17]
  OBVIOUS
<1>6. at2 \in [1 .. Len(fs) + 1 -> Nat] /\ at2[1] = 17 /\ at2[Len(fs) + 1] = 17
  BY <1>2, <1>5
<1>7. Layout(StereoBits, at2, fs, wide)
  BY <1>2, <1>6, StereoAt DEF Layout
<1> QED BY <1>3, <1>4, <1>6, <1>7, StereoAt DEF LibPacket

(* A stereo message is packed.                                              *)
LEMMA EncodeStereoKeeps ==
  ASSUME CodecIInv, EncodeStereo
  PROVE  CodecIInv'
<1>1. /\ CodecTypes /\ OneSubmode /\ NarrowSent /\ PacketOK /\ SilenceCounts /\ GotOK /\ SentChain /\ Agreement
  BY DEF CodecIInv
<1>2. /\ phase = "encode" /\ framing = "lib" /\ sent = <<>> /\ out.nbBits = 0
      /\ out' = PackField(out, StereoBits)
      /\ UNCHANGED <<framing, enc, dec, wire, inp, phase, ret, sent, got, agree, requests>>
  BY DEF EncodeStereo, StereoBits
<1>3. enc.wide \in BOOLEAN
  BY <1>1, EncoderParts DEF CodecTypes
<1>4. wire = <<>> /\ LibPacket(out, sent, enc.wide)
  BY <1>1, <1>2 DEF PacketOK, LibPacket
<1>5. LibPacket(out', sent, enc.wide)
  BY <1>2, <1>3, <1>4, StereoPacket
<1>6. out' \in Streams
  BY <1>5 DEF LibPacket, Holds
<1>7. CodecTypes'
  BY <1>1, <1>2, <1>6 DEF CodecTypes
<1>8. PacketOK'
  BY <1>2, <1>4, <1>5 DEF PacketOK, LibPacket
<1>9. OneSubmode' /\ NarrowSent' /\ SilenceCounts' /\ GotOK' /\ SentChain' /\ Agreement'
  BY <1>1, <1>2 DEF OneSubmode, NarrowSent, SilenceCounts, GotOK, SentChain, Agreement,
     DecoderFresh, NextFresh, NextFreshHigh
<1> QED BY <1>7, <1>8, <1>9 DEF CodecIInv

(* A request changes the encoder, and neither its band nor its marks.       *)
LEMMA RequestKeeps ==
  ASSUME CodecIInv, NEW e \in Encoders, Request(e),
         e.wide = enc.wide, e.low.first = enc.low.first, e.high.first = enc.high.first
  PROVE  CodecIInv'
<1>1. /\ CodecTypes /\ OneSubmode /\ NarrowSent /\ PacketOK /\ SilenceCounts /\ GotOK /\ SentChain /\ Agreement
  BY DEF CodecIInv
<1>2. /\ phase = "encode" /\ framing = "lib" /\ sent = <<>> /\ out.nbBits = 0 /\ enc' = e
      /\ UNCHANGED <<framing, dec, out, wire, inp, phase, ret, sent, got, agree>>
  BY DEF Request, Idle
<1>3. CodecTypes'
  BY <1>1, <1>2 DEF CodecTypes
<1>4. OneSubmode' /\ NarrowSent' /\ SilenceCounts' /\ GotOK'
  BY <1>1, <1>2 DEF OneSubmode, NarrowSent, SilenceCounts, GotOK
<1>5. PacketOK'
  BY <1>1, <1>2 DEF PacketOK
<1>6. SentChain'
  BY <1>1, <1>2 DEF SentChain
<1>7. Agreement'
  BY <1>1, <1>2 DEF Agreement, DecoderFresh, NextFresh, NextFreshHigh
<1> QED BY <1>3, <1>4, <1>5, <1>6, <1>7 DEF CodecIInv

(* The state of both sides is reset.                                        *)
LEMMA ResetStateKeeps ==
  ASSUME CodecIInv, ResetState
  PROVE  CodecIInv'
<1>1. /\ CodecTypes /\ OneSubmode /\ NarrowSent /\ PacketOK /\ SilenceCounts /\ GotOK /\ SentChain /\ Agreement
  BY DEF CodecIInv
<1>2. /\ phase = "encode" /\ framing = "lib" /\ sent = <<>> /\ out.nbBits = 0 /\ agree' = "no"
      /\ enc' = IF enc.wide THEN [enc EXCEPT !.high.first = TRUE] ELSE [enc EXCEPT !.low.first = TRUE]
      /\ UNCHANGED <<framing, dec, out, wire, inp, phase, ret, sent, got>>
  BY DEF ResetState, Idle
<1>3. enc' \in Encoders /\ enc'.wide = enc.wide
  <2>1. enc \in Encoders
    BY <1>1 DEF CodecTypes
  <2> QED BY <1>2, <2>1 DEF Encoders
<1>4. CodecTypes'
  BY <1>1, <1>2, <1>3 DEF CodecTypes
<1>5. OneSubmode' /\ NarrowSent' /\ SilenceCounts' /\ GotOK'
  BY <1>1, <1>2, <1>3 DEF OneSubmode, NarrowSent, SilenceCounts, GotOK
<1>6. PacketOK'
  BY <1>1, <1>2, <1>3 DEF PacketOK
<1>7. SentChain'
  BY <1>1, <1>2 DEF SentChain
<1>8. Agreement'
  BY <1>2 DEF Agreement
<1> QED BY <1>4, <1>5, <1>6, <1>7, <1>8 DEF CodecIInv

-----------------------------------------------------------------------------
(* Requests                                                                 *)

LEMMA QualitySet ==
  ASSUME NEW e \in Encoders, NEW q \in 0 .. 10
  PROVE  LET r == SetEncoderQuality(e, q)
         IN  /\ r \in Encoders /\ r.wide = e.wide /\ r.low.first = e.low.first
             /\ r.high.first = e.high.first /\ r.vbr = e.vbr /\ r.vad = e.vad
             /\ ~e.wide => r.low.submodeID = SetQuality(q)
<1>1. e.low \in LowStates /\ e.high \in HighStates /\ e.wide \in BOOLEAN
  BY EncoderParts
<1>2. PICK m \in 0 .. 8, w \in 0 .. 8, h \in 0 .. 4 :
        m = SetQuality(q) /\ w = wb_low_quality_map[q + 1] /\ h = wb_quality_map[q + 1]
  BY QualityModes
<1>3. PICK l : l = SetMode(e.low, IF e.wide THEN w ELSE m)
  OBVIOUS
<1>4. l \in LowStates /\ l.first = e.low.first /\ (~e.wide => l.submodeID = m)
  BY <1>1, <1>3, ModeSet
<1>5. PICK g : g = SetMode(e.high, h)
  OBVIOUS
<1>6. g \in HighStates /\ g.first = e.high.first
  BY <1>1, <1>5, ModeSet
<1>7. SetEncoderQuality(e, q) = IF e.wide THEN [e EXCEPT !.low = l, !.high = g] ELSE [e EXCEPT !.low = l]
  BY <1>2, <1>3, <1>5 DEF SetEncoderQuality
<1> QED BY <1>1, <1>2, <1>4, <1>6, <1>7 DEF Encoders, LowStates, HighStates

(* The requests that change the encoder.                                    *)
LEMMA RequestsKeep ==
  ASSUME CodecIInv,
         \/ \E q \in Qualities : SetEncQuality(q)
         \/ \E on \in BOOLEAN : SetVbr(on) \/ SetVad(on) \/ SetDtx(on)
  PROVE  CodecIInv'
<1>1. enc \in Encoders
  BY DEF CodecIInv, CodecTypes
<1>2. \E e \in Encoders : Request(e) /\ e.wide = enc.wide /\ e.low.first = enc.low.first
                          /\ e.high.first = enc.high.first
  <2>1. CASE \E q \in Qualities : SetEncQuality(q)
    <3>1. PICK q \in Qualities : Request(SetEncoderQuality(enc, q))
      BY <2>1 DEF SetEncQuality
    <3>2. q \in 0 .. 10
      BY SpeexCodecAssumption
    <3> QED BY <1>1, <3>1, <3>2, QualitySet
  <2>2. CASE \E on \in BOOLEAN : SetVbr(on) \/ SetVad(on) \/ SetDtx(on)
    <3>1. PICK on \in BOOLEAN : \/ Request([enc EXCEPT !.vbr = on])
                                \/ Request([enc EXCEPT !.vad = on])
                                \/ Request([enc EXCEPT !.dtx = on])
      BY <2>2 DEF SetVbr, SetVad, SetDtx
    <3>2. PICK e : /\ e = [enc EXCEPT !.vbr = on] \/ e = [enc EXCEPT !.vad = on] \/ e = [enc EXCEPT !.dtx = on]
                   /\ Request(e)
      BY <3>1
    <3>3. e \in Encoders /\ e.wide = enc.wide /\ e.low = enc.low /\ e.high = enc.high
      BY <1>1, <3>2 DEF Encoders
    <3> QED BY <3>2, <3>3
  <2> QED BY <2>1, <2>2
<1> QED BY <1>2, RequestKeeps

-----------------------------------------------------------------------------
(* The beginning                                                            *)

(* A new packer holds nothing.                                              *)
LEMMA InitHolds ==
  ASSUME NEW b,
         b = [chars |-> Zeros(BITS_PER_CHAR), nbBits |-> 0, pos |-> 0, overflow |-> FALSE,
              buf_size |-> 2000, owner |-> TRUE]
  PROVE  Holds(b, <<>>)
<1>1. PICK z : z = Zeros(8)
  OBVIOUS
<1>2. z \in Seq(Bit) /\ z = [k \in 1 .. 8 |-> 0]
  BY <1>1 DEF Zeros, Bit
<1>3. b = [chars |-> z, nbBits |-> 0, pos |-> 0, overflow |-> FALSE, buf_size |-> 2000, owner |-> TRUE]
  BY <1>1 DEF BITS_PER_CHAR
<1>4. b \in Streams /\ b.chars = z /\ b.nbBits = 0 /\ b.pos = 0
  <2>1. z \in Seq(Bit)
    BY <1>2
  <2> QED BY ONLY <1>3, <2>1 DEF Streams
<1>5. Len(<<>>) = 0 /\ <<>> \in Seq(Bit) /\ 8 * (0 \div 8 + 1) = 8
  OBVIOUS
<1>6. [k \in 1 .. 8 |-> 0] = [k \in 1 .. 8 |-> IF k <= 0 THEN <<>>[k] ELSE 0]
  OBVIOUS
<1> QED BY ONLY <1>2, <1>4, <1>5, <1>6 DEF Holds

LEMMA NothingSent ==
  ASSUME NEW c, NEW wide
  PROVE  \E at : Layout(c, at, <<>>, wide) /\ at[Len(<<>>) + 1] = 0
<1>1. PICK at : at = [j \in 1 .. 1 |-> 0]
  OBVIOUS
<1>2. at \in [1 .. Len(<<>>) + 1 -> Nat] /\ at[1] = 0 /\ at[Len(<<>>) + 1] = 0
  BY <1>1
<1>3. Layout(c, at, <<>>, wide)
  BY <1>2 DEF Layout
<1> QED BY <1>2, <1>3

LEMMA EmptyPackets ==
  ASSUME NEW b, Holds(b, <<>>), NEW wide
  PROVE  LibPacket(b, <<>>, wide) /\ AppPacket(<<>>, <<>>)
<1>1. PICK c : c = <<>>
  OBVIOUS
<1>2. Len(c) = 0 /\ Holds(b, c)
  BY <1>1
<1>3. \E at : Layout(c, at, <<>>, wide) /\ at[Len(<<>>) + 1] = 0
  BY NothingSent
<1>4. LibPacket(b, <<>>, wide)
  BY <1>2, <1>3 DEF LibPacket
<1>5. \E at : Layout(c, at, <<>>, FALSE) /\ at[Len(<<>>) + 1] = 0
  BY NothingSent
<1>6. Len(c) % 8 = 0
  BY <1>2
<1>7. AppPacket(c, <<>>)
  BY <1>2, <1>5, <1>6 DEF AppPacket
<1> QED BY <1>1, <1>4, <1>7

LEMMA OpenedEncoder ==
  ASSUME NEW e, NEW ewide \in BOOLEAN, NEW vbr \in BOOLEAN, NEW vad \in BOOLEAN, NEW dtx \in BOOLEAN,
         NEW limit \in Nat,
         e = [wide |-> ewide, vbr |-> vbr, vad |-> vad, dtx |-> dtx,
              vbr_max |-> limit, high |-> sb_encoder_init,
              low |-> IF ewide THEN SetMode(nb_encoder_init, SetQuality(9)) ELSE nb_encoder_init]
  PROVE  e \in Encoders /\ e.wide = ewide /\ e.vad = vad /\ e.low.first /\ e.high.first
<1>1. PICK t \in BOOLEAN : t
  OBVIOUS
<1>2. PICK l0 : l0 = nb_encoder_init
  OBVIOUS
<1>3. l0 \in LowStates /\ l0.first = t
  BY <1>1, <1>2 DEF nb_encoder_init, LowStates
<1>4. PICK m \in 0 .. 8 : m = SetQuality(9)
  BY QualityModes
<1>5. PICK l1 : l1 = SetMode(l0, m)
  OBVIOUS
<1>6. l1 \in LowStates /\ l1.first = t
  BY <1>3, <1>5, ModeSet
<1>7. PICK h : h = sb_encoder_init
  OBVIOUS
<1>8. h \in HighStates /\ h.first = t
  BY <1>1, <1>7 DEF sb_encoder_init, HighStates
<1>9. PICK l : l = IF ewide THEN l1 ELSE l0
  OBVIOUS
<1>10. l \in LowStates /\ l.first = t
  BY <1>3, <1>6, <1>9
<1>11. e = [wide |-> ewide, vbr |-> vbr, vad |-> vad, dtx |-> dtx, vbr_max |-> limit, high |-> h, low |-> l]
  BY <1>2, <1>4, <1>5, <1>7, <1>9
<1> QED BY ONLY <1>1, <1>8, <1>10, <1>11, ewide \in BOOLEAN, vbr \in BOOLEAN, vad \in BOOLEAN, dtx \in BOOLEAN,
         limit \in Nat DEF Encoders, LowStates, HighStates

LEMMA Opened ==
  ASSUME CodecInit
  PROVE  /\ enc \in Encoders /\ enc.low.first /\ enc.high.first /\ dec.wide \in BOOLEAN
         /\ framing = "app" => /\ ~enc.wide /\ ~dec.wide /\ ~enc.vbr /\ ~enc.vad
                               /\ enc.low.submodeID = 3
         /\ dec \in Decoders /\ dec.low.first /\ dec.high.first
<1>1. PICK ewide, dwide, limit, q, vbr, vad, dtx, e :
        /\ {ewide, dwide, vbr, vad, dtx} \subseteq BOOLEAN /\ limit \in VbrMaxes /\ q \in Qualities
        /\ e = [wide |-> ewide, vbr |-> vbr, vad |-> vad, dtx |-> dtx,
                vbr_max |-> limit, high |-> sb_encoder_init,
                low |-> IF ewide THEN SetMode(nb_encoder_init, SetQuality(9)) ELSE nb_encoder_init]
        /\ framing = "app" => ~ewide /\ ~dwide /\ limit = 0 /\ ~vad /\ ~dtx
        /\ enc = IF framing = "app" THEN openSpeex(e) ELSE SetEncoderQuality(e, q)
        /\ dec = [wide |-> dwide, low |-> nb_decoder_init, high |-> sb_decoder_init]
  BY DEF CodecInit
<1>2. /\ limit \in Nat /\ q \in 0 .. 10
      /\ ewide \in BOOLEAN /\ dwide \in BOOLEAN /\ vbr \in BOOLEAN /\ vad \in BOOLEAN /\ dtx \in BOOLEAN
  BY <1>1, SpeexCodecAssumption
<1>3. e \in Encoders /\ e.wide = ewide /\ e.vad = vad /\ e.low.first /\ e.high.first
  BY <1>1, <1>2, OpenedEncoder
<1>4. PICK r : r = SetEncoderQuality(e, q)
  OBVIOUS
<1>5. r \in Encoders /\ r.low.first /\ r.high.first
  BY <1>2, <1>3, <1>4, QualitySet
<1>6. PICK g : g = [e EXCEPT !.vbr = FALSE]
  OBVIOUS
<1>7. g \in Encoders /\ g.wide = ewide /\ g.vad = vad /\ g.vbr = FALSE /\ g.low.first /\ g.high.first
  BY <1>3, <1>6 DEF Encoders
<1>8. PICK d \in 0 .. 10 : d = 3
  OBVIOUS
<1>9. PICK o : o = SetEncoderQuality(g, d)
  OBVIOUS
<1>10. /\ o \in Encoders /\ o.wide = ewide /\ o.low.first /\ o.high.first /\ o.vbr = FALSE /\ o.vad = vad
       /\ ~ewide => o.low.submodeID = SetQuality(d)
  BY <1>7, <1>9, QualitySet
<1>11. SetQuality(d) = 3
  BY <1>8 DEF SetQuality, nb_quality_map
<1>12. openSpeex(e) = o
  BY <1>6, <1>8, <1>9 DEF openSpeex
<1>13. CASE framing = "app"
  <2>1. enc = o /\ ~ewide /\ ~vad /\ ~dwide
    BY <1>1, <1>2, <1>12, <1>13
  <2>2. enc \in Encoders /\ enc.low.first /\ enc.high.first /\ ~enc.wide /\ ~enc.vbr /\ ~enc.vad
    BY <1>10, <2>1
  <2>3. enc.low.submodeID = 3
    BY <1>10, <1>11, <2>1
  <2>4. dec \in Decoders /\ dec.low.first /\ dec.high.first /\ dec.wide = dwide
    BY <1>1, <1>2 DEF Decoders, nb_decoder_init, sb_decoder_init
  <2> QED BY <1>2, <2>1, <2>2, <2>3, <2>4
<1>14. CASE framing # "app"
  <2>1. enc = r
    BY <1>1, <1>4, <1>14
  <2>2. dec \in Decoders /\ dec.low.first /\ dec.high.first /\ dec.wide = dwide
    BY <1>1, <1>2 DEF Decoders, nb_decoder_init, sb_decoder_init
  <2> QED BY <1>2, <1>5, <1>14, <2>1, <2>2
<1> QED BY <1>13, <1>14

(* The invariant holds at the beginning.                                    *)
LEMMA CodecBegins ==
  ASSUME CodecInit
  PROVE  CodecIInv
<1>1. /\ framing \in {"app", "lib"} /\ wire = <<>> /\ phase = "encode" /\ ret = 0
      /\ sent = <<>> /\ got = <<>> /\ requests = 0 /\ agree = "yes"
  BY DEF CodecInit
<1>2. Holds(out, <<>>) /\ Holds(inp, <<>>)
  BY InitHolds DEF CodecInit, speex_bits_init
<1>3. out \in Streams /\ inp \in Streams
  BY <1>2 DEF Holds
<1>4. CodecTypes
  <2>1. FramesPerPacket \in Nat /\ <<>> \in Seq(SentFrames) /\ <<>> \in Seq(GotFrames) /\ <<>> \in Seq(Bit)
    BY SpeexCodecAssumption
  <2> QED BY <1>1, <1>3, <2>1, Opened DEF CodecTypes
<1>5. OneSubmode /\ NarrowSent /\ SilenceCounts /\ GotOK
  BY <1>1, Opened DEF OneSubmode, NarrowSent, SilenceCounts, GotOK
<1>6. PacketOK
  <2>1. LibPacket(out, sent, enc.wide) /\ AppPacket(wire, sent)
    BY <1>1, <1>2, EmptyPackets
  <2> QED BY <1>1, <2>1 DEF PacketOK, LibPacket, AppPacket
<1>7. SentChain
  BY <1>1 DEF SentChain
<1>8. Agreement
  <2>1. enc \in Encoders /\ dec \in Decoders /\ enc.low.first /\ enc.high.first /\ dec.low.first
        /\ dec.high.first
    BY Opened
  <2>2. enc.low.first = TRUE /\ enc.high.first = TRUE /\ dec.high.first = TRUE
    BY <2>1 DEF Encoders, Decoders
  <2>3. DecoderFresh
    BY <2>1 DEF DecoderFresh
  <2>4. NextFresh = enc.low.first /\ NextFreshHigh = enc.high.first
    BY <1>1 DEF NextFresh, NextFreshHigh
  <2>5. DecoderFresh = NextFresh
    BY <2>2, <2>3, <2>4
  <2>6. dec.high.first = NextFreshHigh
    BY <2>2, <2>4
  <2> QED BY <1>1, <2>3, <2>5, <2>6 DEF Agreement
<1> QED BY <1>4, <1>5, <1>6, <1>7, <1>8 DEF CodecIInv

(* A packet that arrives is the content of the decoder's bits.              *)
Loaded(b, w) ==
  /\ b \in Streams /\ b.chars = w /\ b.nbBits = Len(w) /\ b.pos = 0 /\ ~b.overflow

LEMMA ReadFrom ==
  ASSUME NEW b \in Streams, NEW w \in Seq(Bit), Len(w) % 8 = 0
  PROVE  Loaded(speex_bits_read_from(b, w), w)
<1>1. PICK n \in Nat : n = Len(w) \div 8 /\ 8 * n = Len(w)
  <2>1. \A l \in Nat : l % 8 = 0 => l \div 8 \in Nat /\ 8 * (l \div 8) = l
    OBVIOUS
  <2>2. Len(w) \in Nat
    OBVIOUS
  <2> QED BY <2>1, <2>2
<1>2. b.owner /\ b.buf_size \in Nat
  BY DEF Streams
<1>3. SubSeq(w, 1, 8 * n) = w
  BY <1>1
<1>4. PICK size \in Nat : size = (IF n > b.buf_size THEN n ELSE b.buf_size)
  BY <1>2
<1>5. PICK l \in Nat : l = 8 * n
  OBVIOUS
<1>6. speex_bits_read_from(b, w) =
        [b EXCEPT !.chars = w, !.buf_size = size, !.nbBits = l, !.pos = 0, !.overflow = FALSE]
  <2>1. speex_bits_read_from(b, w) =
          [b EXCEPT !.chars = SubSeq(w, 1, 8 * n), !.buf_size = IF n > @ THEN n ELSE @,
                    !.nbBits = 8 * n, !.pos = 0, !.overflow = FALSE]
    BY <1>1, <1>2 DEF speex_bits_read_from, BITS_PER_CHAR
  <2> QED BY <1>3, <1>4, <1>5, <2>1
<1>7. PICK r : r = [b EXCEPT !.chars = w, !.buf_size = size, !.nbBits = l, !.pos = 0, !.overflow = FALSE]
  OBVIOUS
<1>8. r \in Streams /\ r.chars = w /\ r.nbBits = l /\ r.pos = 0 /\ r.overflow = FALSE
  BY <1>7 DEF Streams
<1>9. l = Len(w)
  BY <1>1, <1>5
<1> QED BY <1>6, <1>7, <1>8, <1>9 DEF Loaded

(* A packet under way.                                                      *)
OnWire(w, fs, wide) ==
  Len(w) % 8 = 0 /\ \E at : Layout(w, at, fs, wide) /\ Ends(w, at[Len(fs) + 1])

(* The packet of frames packed behind each other, written at once.          *)
LEMMA LibLeaves ==
  ASSUME NEW b, NEW fs \in Seq(SentFrames), NEW wide \in BOOLEAN, LibPacket(b, fs, wide),
         Len(fs) = FramesPerPacket, NEW done, done = speex_bits_write(b, MaxBytes * FramesPerPacket)
  PROVE  /\ done.packet \in Seq(Bit) /\ OnWire(done.packet, fs, wide)
         /\ done.bits \in Streams
<1>1. PICK at, c : Layout(c, at, fs, wide) /\ Holds(b, c) /\ Len(c) = at[Len(fs) + 1]
  BY DEF LibPacket
<1>2. PICK n \in Nat : n = FramesPerPacket /\ n >= 1 /\ n = Len(fs)
  BY SpeexCodecAssumption
<1>3. PICK l \in Nat : l = Len(c)
  BY <1>1 DEF Holds
<1>4. l <= 17 + 844 * n
  <2>1. Inside(at, fs, wide, n)
    BY <1>1, <1>2, LayoutSize
  <2>2. n + 1 \in 1 .. n + 1
    BY <1>2
  <2>3. at[n + 1] <= 17 + 844 * ((n + 1) - 1)
    BY <2>1, <2>2 DEF Inside
  <2>4. (n + 1) - 1 = n
    OBVIOUS
  <2> QED BY <1>1, <1>2, <1>3, <2>3, <2>4
<1>5. PICK max \in Nat : max = 160 * n /\ max = MaxBytes * FramesPerPacket
  BY <1>2 DEF MaxBytes, frameSize
<1>6. Chars(l) <= max
  <2>1. (l + 7) \div 8 \in Nat /\ 8 * ((l + 7) \div 8) <= l + 7
    BY <1>3
  <2>2. Chars(l) = (l + 7) \div 8
    BY DEF Chars, BITS_PER_CHAR
  <2>3. PICK q \in Nat : q = (l + 7) \div 8 /\ 8 * q <= l + 7
    BY <2>1
  <2>4. q <= 160 * n
    BY <1>2, <1>4, <2>3
  <2> QED BY <1>5, <2>2, <2>3, <2>4
<1>7. Written(done, c)
  BY <1>1, <1>3, <1>5, <1>6, Writes
<1>8. PICK w : w = done.packet
  OBVIOUS
<1>9. /\ done.bits \in Streams /\ w \in Seq(Bit) /\ Len(w) % 8 = 0
      /\ \A k \in 1 .. Len(c) : w[k] = c[k]
      /\ Ends(w, Len(c))
  BY <1>7, <1>8 DEF Written
<1>10. Layout(w, at, fs, wide)
  <2>1. \A k \in 1 .. at[Len(fs) + 1] : w[k] = c[k]
    BY <1>1, <1>9
  <2> QED BY <1>1, <2>1, LayoutMoves
<1>11. Ends(w, at[Len(fs) + 1])
  BY <1>1, <1>9
<1> QED BY <1>8, <1>9, <1>10, <1>11 DEF OnWire

(* The packet of frames written one by one.                                 *)
LEMMA AppLeaves ==
  ASSUME NEW w \in Seq(Bit), NEW fs, AppPacket(w, fs)
  PROVE  OnWire(w, fs, FALSE)
<1>1. PICK at : Layout(w, at, fs, FALSE) /\ Len(w) = at[Len(fs) + 1]
  BY DEF AppPacket
<1>2. Ends(w, at[Len(fs) + 1])
  <2>1. PICK l \in Nat : l = Len(w)
    OBVIOUS
  <2>2. l <= l + 7 /\ \A k \in l + 1 .. l : FALSE
    OBVIOUS
  <2>3. Ends(w, l)
    BY <2>1, <2>2 DEF Ends
  <2> QED BY <1>1, <2>1, <2>3
<1> QED BY <1>1, <1>2 DEF OnWire, AppPacket

(* The packet leaves.                                                       *)
LEMMA SendKeeps ==
  ASSUME CodecIInv, Send
  PROVE  CodecIInv'
<1>1. /\ CodecTypes /\ OneSubmode /\ NarrowSent /\ PacketOK /\ SilenceCounts /\ GotOK /\ SentChain /\ Agreement
  BY DEF CodecIInv
<1>2. /\ phase = "encode" /\ Len(sent) = FramesPerPacket /\ phase' = "wire"
      /\ framing' = framing /\ enc' = enc /\ dec' = dec /\ inp' = inp /\ ret' = ret /\ sent' = sent
      /\ got' = got /\ agree' = agree
  BY DEF Send
<1>3. framing \in {"app", "lib"} /\ enc.wide \in BOOLEAN /\ sent \in Seq(SentFrames) /\ out \in Streams
      /\ wire \in Seq(Bit) /\ Len(got) = 0
  BY <1>1, <1>2, EncoderParts DEF CodecTypes
<1>4. ASSUME framing = "lib"
      PROVE  out' \in Streams /\ wire' \in Seq(Bit) /\ OnWire(wire', sent, enc.wide) /\ Holds(out', <<>>)
  <2>1. PICK done : /\ done = speex_bits_write(out, MaxBytes * FramesPerPacket)
                    /\ wire' = done.packet /\ out' = speex_bits_reset(done.bits)
    BY <1>4 DEF Send
  <2>2. LibPacket(out, sent, enc.wide)
    BY <1>1, <1>2, <1>4 DEF PacketOK, LibPacket
  <2>3. done.packet \in Seq(Bit) /\ OnWire(done.packet, sent, enc.wide) /\ done.bits \in Streams
    BY <1>2, <1>3, <2>1, <2>2, LibLeaves
  <2>4. Holds(out', <<>>)
    BY <2>1, <2>3, ResetHolds
  <2> QED BY <2>1, <2>3, <2>4 DEF Holds
<1>5. ASSUME framing = "app"
      PROVE  out' \in Streams /\ wire' \in Seq(Bit) /\ OnWire(wire', sent, enc.wide)
  <2>1. wire' = wire /\ out' = out
    BY <1>5 DEF Send
  <2>2. AppPacket(wire, sent) /\ enc.wide = FALSE
    BY <1>1, <1>2, <1>3, <1>5 DEF PacketOK, AppPacket, OneSubmode
  <2>3. OnWire(wire, sent, FALSE)
    BY <1>3, <2>2, AppLeaves
  <2> QED BY <1>3, <2>1, <2>2, <2>3
<1>6. out' \in Streams /\ wire' \in Seq(Bit) /\ OnWire(wire', sent, enc.wide)
  BY <1>3, <1>4, <1>5
<1>7. CodecTypes'
  BY <1>1, <1>2, <1>6 DEF CodecTypes
<1>8. OneSubmode' /\ NarrowSent' /\ SilenceCounts' /\ GotOK' /\ SentChain'
  BY <1>1, <1>2 DEF OneSubmode, NarrowSent, SilenceCounts, GotOK, SentChain
<1>9. PacketOK'
  <2>1. framing = "lib" => Holds(out', <<>>)
    BY <1>4
  <2> QED BY <1>2, <1>6, <2>1 DEF PacketOK, OnWire
<1>10. Agreement'
  BY <1>1, <1>2 DEF Agreement, DecoderFresh, NextFresh, NextFreshHigh
<1> QED BY <1>7, <1>8, <1>9, <1>10 DEF CodecIInv

(* The packet arrives.                                                      *)
LEMMA DeliverKeeps ==
  ASSUME CodecIInv, Deliver
  PROVE  CodecIInv'
<1>1. /\ CodecTypes /\ OneSubmode /\ NarrowSent /\ PacketOK /\ SilenceCounts /\ GotOK /\ SentChain /\ Agreement
  BY DEF CodecIInv
<1>2. /\ phase = "wire" /\ inp' = speex_bits_read_from(inp, wire)
      /\ wire' = <<>> /\ phase' = "decode" /\ ret' = 0
      /\ framing' = framing /\ enc' = enc /\ dec' = dec /\ out' = out /\ sent' = sent
      /\ got' = got /\ agree' = agree
  BY DEF Deliver
<1>3. wire \in Seq(Bit) /\ inp \in Streams /\ Len(got) = 0
  BY <1>1, <1>2 DEF CodecTypes
<1>4. OnWire(wire, sent, enc.wide)
  BY <1>1, <1>2 DEF PacketOK, OnWire
<1>5. Loaded(inp', wire)
  BY <1>2, <1>3, <1>4, ReadFrom DEF OnWire
<1>6. inp' \in Streams /\ inp'.chars = wire /\ inp'.nbBits = Len(wire) /\ inp'.pos = 0 /\ ~inp'.overflow
  BY <1>5 DEF Loaded
<1>7. CodecTypes'
  BY <1>1, <1>2, <1>6 DEF CodecTypes
<1>8. OneSubmode' /\ NarrowSent' /\ SilenceCounts' /\ GotOK' /\ SentChain'
  BY <1>1, <1>2 DEF OneSubmode, NarrowSent, SilenceCounts, GotOK, SentChain
<1>9. PacketOK'
  <2>1. PICK at : Layout(wire, at, sent, enc.wide) /\ Ends(wire, at[Len(sent) + 1])
    BY <1>4 DEF OnWire
  <2>2. Stands(at, Len(got))'
    BY <1>2, <1>3, <1>6 DEF Stands
  <2>3. \E a : /\ Layout(inp'.chars, a, sent', enc'.wide)
               /\ Ends(inp'.chars, a[Len(sent') + 1])
               /\ Stands(a, Len(got))'
    BY <1>2, <1>6, <2>1, <2>2
  <2>4. \A i \in 1 .. Len(got') - 1 : sent'[i].high # 0
    BY <1>2, <1>3
  <2>5. framing = "lib" => Holds(out, <<>>)
    BY <1>1, <1>2 DEF PacketOK
  <2> QED BY <1>2, <1>6, <2>3, <2>4, <2>5 DEF PacketOK
<1>10. Agreement'
  BY <1>1, <1>2, <1>3 DEF Agreement, DecoderFresh, NextFresh, NextFreshHigh
<1> QED BY <1>7, <1>8, <1>9, <1>10 DEF CodecIInv

(* The packet is lost.                                                      *)
LEMMA LoseKeeps ==
  ASSUME CodecIInv, Lose
  PROVE  CodecIInv'
<1>1. /\ CodecTypes /\ OneSubmode /\ NarrowSent /\ PacketOK /\ SilenceCounts /\ GotOK /\ SentChain /\ Agreement
  BY DEF CodecIInv
<1>2. /\ phase = "wire" /\ wire' = <<>> /\ phase' = "done" /\ ret' = 0
      /\ dec' = [dec EXCEPT !.low = IF dec.low.dtx_enabled
                                    THEN [@ EXCEPT !.first = TRUE, !.count_lost = 0]
                                    ELSE nb_decode_lost(@),
                            !.high = IF dec.wide THEN [@ EXCEPT !.first = TRUE] ELSE @]
      /\ agree' = IF agree = "no" THEN "no" ELSE "lost"
      /\ framing' = framing /\ enc' = enc /\ out' = out /\ inp' = inp /\ sent' = sent /\ got' = got
  BY DEF Lose
<1>3. dec \in Decoders /\ Len(got) = 0 /\ agree \in {"yes", "lost", "no"}
  BY <1>1, <1>2 DEF CodecTypes
<1>4. PICK low : low = IF dec.low.dtx_enabled
                       THEN [dec.low EXCEPT !.first = TRUE, !.count_lost = 0]
                       ELSE nb_decode_lost(dec.low)
  OBVIOUS
<1>5. /\ low \in [first : BOOLEAN, count_lost : Nat, dtx_enabled : BOOLEAN]
      /\ low.first \/ low.count_lost # 0
  <2>1. MaxLost \in Nat /\ MaxLost > 0
    BY SpeexCodecAssumption
  <2>2. dec.low \in [first : BOOLEAN, count_lost : Nat, dtx_enabled : BOOLEAN]
    BY <1>3 DEF Decoders
  <2>3. CASE dec.low.dtx_enabled
    BY <1>4, <2>2, <2>3
  <2>4. CASE ~dec.low.dtx_enabled
    <3>1. PICK k \in Nat : k = (IF dec.low.count_lost < MaxLost THEN dec.low.count_lost + 1 ELSE dec.low.count_lost) /\ k # 0
      BY <2>1, <2>2
    <3>2. low = [dec.low EXCEPT !.first = FALSE, !.count_lost = k]
      BY <1>4, <2>4, <3>1 DEF nb_decode_lost
    <3> QED BY <2>2, <3>1, <3>2
  <2> QED BY <2>3, <2>4
<1>6. dec' = [dec EXCEPT !.low = low, !.high = IF dec.wide THEN [@ EXCEPT !.first = TRUE] ELSE @]
  BY <1>2, <1>4
<1>7. dec' \in Decoders /\ dec'.low = low /\ dec'.wide = dec.wide
  BY <1>3, <1>5, <1>6 DEF Decoders
<1>8. CodecTypes'
  <2>1. agree' \in {"yes", "lost", "no"} /\ <<>> \in Seq(Bit)
    BY <1>2
  <2> QED BY <1>1, <1>2, <1>7, <2>1 DEF CodecTypes
<1>9. OneSubmode' /\ NarrowSent' /\ SilenceCounts' /\ GotOK' /\ SentChain'
  <2>1. GotOK'
    BY <1>2, <1>3 DEF GotOK
  <2>2. OneSubmode'
    BY <1>1, <1>2, <1>7 DEF OneSubmode
  <2> QED BY <1>1, <1>2, <2>1, <2>2 DEF NarrowSent, SilenceCounts, SentChain
<1>10. PacketOK'
  BY <1>1, <1>2 DEF PacketOK
<1>11. Agreement'
  <2>1. DecoderFresh' /\ agree' # "yes"
    BY <1>2, <1>3, <1>5, <1>7 DEF DecoderFresh
  <2> QED BY <1>2, <2>1 DEF Agreement
<1> QED BY <1>8, <1>9, <1>10, <1>11 DEF CodecIInv

(* The next packet begins.                                                  *)
LEMMA NextPacketKeeps ==
  ASSUME CodecIInv, NextPacket
  PROVE  CodecIInv'
<1>1. /\ CodecTypes /\ OneSubmode /\ NarrowSent /\ PacketOK /\ SilenceCounts /\ GotOK /\ SentChain /\ Agreement
  BY DEF CodecIInv
<1>2. /\ phase = "done" /\ phase' = "encode" /\ sent' = <<>> /\ got' = <<>> /\ ret' = 0
      /\ inp' = speex_bits_reset(inp)
      /\ out' = IF framing = "app" THEN speex_bits_reset(out) ELSE out
      /\ framing' = framing /\ enc' = enc /\ dec' = dec /\ wire' = wire /\ agree' = agree
  BY DEF NextPacket
<1>3. framing \in {"app", "lib"} /\ out \in Streams /\ inp \in Streams
  BY <1>1 DEF CodecTypes
<1>4. wire = <<>> /\ (framing = "lib" => Holds(out, <<>>))
  BY <1>1, <1>2 DEF PacketOK
<1>5. Holds(out', <<>>) /\ Holds(inp', <<>>)
  BY <1>2, <1>3, <1>4, ResetHolds
<1>6. CodecTypes'
  <2>1. FramesPerPacket \in Nat /\ <<>> \in Seq(SentFrames) /\ <<>> \in Seq(GotFrames)
    BY SpeexCodecAssumption
  <2>2. out' \in Streams /\ inp' \in Streams
    BY <1>5 DEF Holds
  <2> QED BY <1>1, <1>2, <2>1, <2>2 DEF CodecTypes
<1>7. OneSubmode' /\ NarrowSent' /\ SilenceCounts' /\ GotOK' /\ SentChain'
  BY <1>1, <1>2 DEF OneSubmode, NarrowSent, SilenceCounts, GotOK, SentChain
<1>8. PacketOK'
  <2>1. LibPacket(out', sent', enc'.wide) /\ AppPacket(wire', sent')
    BY <1>2, <1>4, <1>5, EmptyPackets
  <2> QED BY <1>2, <1>4, <2>1 DEF PacketOK, LibPacket, AppPacket
<1>9. Agreement'
  BY <1>1, <1>2 DEF Agreement, DecoderFresh, NextFresh, NextFreshHigh
<1> QED BY <1>6, <1>7, <1>8, <1>9 DEF CodecIInv

(* Where a decoder is that has Len(got) frames of its packet.               *)
Here(at) == Positioned(inp, inp.pos, at, sent, enc.wide, Skips, Len(got), Len(sent))

(* While it decodes, the decoder stands behind the frames it has.           *)
LEMMA DecoderIsHere ==
  ASSUME CodecTypes, PacketOK, phase = "decode"
  PROVE  \E at : Here(at)
<1>1. /\ inp \in Streams /\ inp.nbBits = Len(inp.chars) /\ ~inp.overflow
      /\ sent \in Seq(SentFrames) /\ Len(sent) = FramesPerPacket /\ Len(got) \in 0 .. Len(sent)
      /\ enc.wide \in BOOLEAN /\ dec.wide \in BOOLEAN
  <2>1. enc \in Encoders /\ dec \in Decoders
    BY DEF CodecTypes
  <2> QED BY <2>1 DEF CodecTypes, PacketOK, Encoders, Decoders
<1>2. PICK n \in Nat : n = Len(sent) /\ n >= 1
  BY <1>1, SpeexCodecAssumption
<1>3. PICK k \in 0 .. n : k = Len(got)
  BY <1>1, <1>2
<1>4. PICK at : Layout(inp.chars, at, sent, enc.wide) /\ Ends(inp.chars, at[n + 1]) /\ Stands(at, k)
  BY <1>2, <1>3 DEF PacketOK
<1>5. Inside(at, sent, enc.wide, n)
  BY <1>1, <1>2, <1>4, LayoutSize
<1>6. PICK l \in Nat : l = Len(inp.chars)
  BY <1>1 DEF Streams
<1>7. at[n + 1] <= l
  BY <1>4, <1>6 DEF Ends
<1>8. \A i \in 1 .. n + 1 : at[i] \in Nat /\ at[1] <= at[i] /\ at[i] <= at[n + 1]
  BY <1>5 DEF Inside
<1>9. inp.pos \in Nat /\ inp.pos <= l
  <2>1. inp.pos \in Nat
    BY <1>1 DEF Streams
  <2>2. CASE k = 0
    <3>1. inp.pos \in {0, at[1]} /\ 1 \in 1 .. n + 1 /\ n + 1 \in 1 .. n + 1
      BY <1>2, <1>4, <2>2 DEF Stands
    <3> QED BY <1>7, <1>8, <2>1, <3>1
  <2>3. CASE k # 0
    <3>1. k \in 1 .. n /\ k + 1 \in 1 .. n + 1 /\ n + 1 \in 1 .. n + 1
      BY <1>2, <1>3, <2>3
    <3>2. sent[k] \in SentFrames
      BY <1>5, <3>1 DEF Inside
    <3>3. PICK s \in Nat : s = (IF Skips THEN LayerLen(sent[k].high) ELSE 0)
      <4>1. sent[k].high \in 0 .. 4
        BY <3>2 DEF SentFrames
      <4>2. LayerLen(sent[k].high) \in Nat
        BY <4>1, Lengths, SMTT(30)
      <4> QED BY <4>2
    <3>4. PICK a \in Nat : a = at[k + 1] /\ a <= l
      BY <1>7, <1>8, <3>1
    <3>5. inp.pos = a - s
      BY <1>4, <2>3, <3>3, <3>4 DEF Stands
    <3> QED BY <2>1, <3>4, <3>5
  <2> QED BY <2>2, <2>3
<1>10. Readable(inp, inp.pos)
  BY <1>1, <1>6, <1>9 DEF Readable
<1>11. Skips \in BOOLEAN /\ (Skips => enc.wide)
  BY <1>1 DEF Skips
<1>12. IF k = 0 THEN inp.pos \in {0, at[1]}
       ELSE inp.pos = at[k + 1] - (IF Skips THEN LayerLen(sent[k].high) ELSE 0)
  BY <1>4 DEF Stands
<1>13. Positioned(inp, inp.pos, at, sent, enc.wide, Skips, k, n)
  BY <1>1, <1>2, <1>4, <1>10, <1>11, <1>12 DEF Positioned
<1> QED BY <1>2, <1>3, <1>13 DEF Here

(* What the search finds there.                                             *)
LEMMA SearchHere ==
  ASSUME NEW at, Here(at)
  PROVE  /\ Len(got) = Len(sent) => Search(inp).ret # 0
         /\ Blocked(sent, Skips, Len(got)) => Search(inp).ret # 0
         /\ OnHeader(inp.pos, at, Len(got)) =>
              /\ Search(inp).ret = 0 /\ Search(inp).m = 14 /\ Search(inp).bits = At(inp, 5)
              /\ speex_inband_handler(At(inp, 5)) = At(inp, 17) /\ Readable(At(inp, 17), 17)
         /\ ~Blocked(sent, Skips, Len(got)) /\ ~OnHeader(inp.pos, at, Len(got)) /\ Len(got) < Len(sent) =>
              LET i == Len(got) + 1
              IN  /\ Search(inp).ret = 0 /\ Search(inp).m = sent[i].low /\ sent[i].low \in 0 .. 8
                  /\ Search(inp).bits = At(inp, at[i] + 5)
                  /\ Readable(At(inp, at[i] + 5), at[i] + 5)
<1>1. PICK k, n, p, skip, wide : k = Len(got) /\ n = Len(sent) /\ p = inp.pos /\ skip = Skips /\ wide = enc.wide
  OBVIOUS
<1>2. Positioned(inp, p, at, sent, wide, skip, k, n)
  BY <1>1 DEF Here
<1>3. k = n => Search(inp).ret # 0
  BY <1>2, PacketEnds
<1>4. Blocked(sent, skip, k) => Search(inp).ret # 0
  BY <1>2, NullStops
<1>5. OnHeader(p, at, k) => /\ Search(inp).ret = 0 /\ Search(inp).m = 14 /\ Search(inp).bits = At(inp, 5)
                            /\ speex_inband_handler(At(inp, 5)) = At(inp, 17) /\ Readable(At(inp, 17), 17)
  BY <1>2, HeaderAhead
<1>6. ~Blocked(sent, skip, k) /\ ~OnHeader(p, at, k) /\ k < n =>
        LET i == k + 1
        IN  /\ Search(inp).ret = 0 /\ Search(inp).m = sent[i].low /\ sent[i].low \in 0 .. 8
            /\ Search(inp).bits = At(inp, at[i] + 5)
            /\ Readable(At(inp, at[i] + 5), at[i] + 5)
  BY <1>2, FrameAhead
<1> QED BY <1>1, <1>3, <1>4, <1>5, <1>6

(* The packet ends: the frames that were reached are the frames reachable.  *)
LEMMA SearchFailsKeeps ==
  ASSUME CodecIInv, SearchFails
  PROVE  CodecIInv'
<1>1. /\ CodecTypes /\ OneSubmode /\ NarrowSent /\ PacketOK /\ SilenceCounts /\ GotOK /\ SentChain /\ Agreement
  BY DEF CodecIInv
<1>2. /\ phase = "decode" /\ Search(inp).ret # 0
      /\ phase' = "done" /\ ret' = Search(inp).ret
      /\ agree' = IF Len(got) < Len(sent) THEN "no" ELSE agree
      /\ framing' = framing /\ enc' = enc /\ dec' = dec /\ out' = out /\ wire' = wire /\ inp' = inp
      /\ sent' = sent /\ got' = got
  BY DEF SearchFails
<1>3. PICK at : Here(at)
  BY <1>1, <1>2, DecoderIsHere
<1>4. PICK n \in Nat : n = Len(sent) /\ n >= 1 /\ n = FramesPerPacket
  BY <1>1, <1>2, SpeexCodecAssumption DEF CodecTypes
<1>5. PICK k \in 0 .. n : k = Len(got)
  BY <1>1, <1>4 DEF CodecTypes
<1>6. k = n \/ Blocked(sent, Skips, k)
  <2>1. ~OnHeader(inp.pos, at, k)
    BY <1>2, <1>3, <1>5, SearchHere
  <2>2. k < n => Blocked(sent, Skips, k)
    BY <1>2, <1>3, <1>4, <1>5, <2>1, SearchHere
  <2> QED BY <2>2
<1>7. Skips => \A i \in 1 .. k - 1 : sent[i].high # 0
  BY <1>1, <1>2, <1>5 DEF PacketOK
<1>14. DOMAIN sent = 1 .. n
  <2>1. sent \in Seq(SentFrames)
    BY <1>1 DEF CodecTypes
  <2>2. DOMAIN sent = 1 .. Len(sent)
    BY <2>1
  <2> QED BY <1>4, <2>2
<1>8. k = Reachable
  <2>1. CASE Skips /\ \E i \in DOMAIN sent : sent[i].high = 0
    <3>1. \A i \in DOMAIN sent : i \in 1 .. n
      BY <1>14
    <3>2. PICK j \in 1 .. n : sent[j].high = 0
      BY <2>1, <3>1
    <3>3. k \in 1 .. n /\ sent[k].high = 0
      <4>1. CASE Blocked(sent, Skips, k)
        BY <4>1 DEF Blocked
      <4>2. CASE k = n
        <5>1. j = n
          BY <1>7, <2>1, <3>2, <4>2
        <5> QED BY <3>2, <4>2, <5>1
      <4> QED BY <1>6, <4>1, <4>2
    <3>4. \A i \in DOMAIN sent :
            sent[i].high = 0 /\ (\A l \in 1 .. i - 1 : sent[l].high # 0) <=> i = k
      <4>1. \A i \in 1 .. n : sent[i].high = 0 => i >= k
        BY <1>7, <2>1
      <4>2. \A i \in 1 .. n : i > k => ~\A l \in 1 .. i - 1 : sent[l].high # 0
        BY <3>3
      <4> QED BY <1>7, <2>1, <3>1, <3>3, <4>1, <4>2
    <3>5. k \in DOMAIN sent
      BY <1>14, <3>3
    <3>6. (CHOOSE i \in DOMAIN sent : sent[i].high = 0 /\ \A l \in 1 .. i - 1 : sent[l].high # 0) = k
      BY <3>4, <3>5
    <3> QED BY <2>1, <3>6 DEF Reachable, Skips
  <2>2. CASE ~(Skips /\ \E i \in DOMAIN sent : sent[i].high = 0)
    <3>1. Reachable = n
      BY <1>4, <2>2 DEF Reachable, Skips
    <3>2. ~Blocked(sent, Skips, k)
      <4>1. k > 0 => k \in DOMAIN sent
        BY <1>14
      <4> QED BY <2>2, <4>1 DEF Blocked
    <3> QED BY <1>6, <3>1, <3>2
  <2> QED BY <2>1, <2>2
<1>9. CodecTypes'
  <2>1. ret' \in Int
    BY <1>2 DEF Search
  <2>2. agree' \in {"yes", "lost", "no"}
    BY <1>1, <1>2 DEF CodecTypes
  <2> QED BY <1>1, <1>2, <2>1, <2>2 DEF CodecTypes
<1>10. OneSubmode' /\ NarrowSent' /\ SilenceCounts' /\ GotOK' /\ SentChain'
  BY <1>1, <1>2 DEF OneSubmode, NarrowSent, SilenceCounts, GotOK, SentChain
<1>11. PacketOK'
  <2>1. Reachable' = Reachable
    BY <1>2 DEF Reachable
  <2>2. Len(got') = Reachable' /\ ~inp'.overflow
    BY <1>1, <1>2, <1>5, <1>8, <2>1 DEF PacketOK
  <2>3. wire = <<>> /\ (framing = "lib" => Holds(out, <<>>))
    BY <1>1, <1>2 DEF PacketOK
  <2> QED BY <1>2, <2>2, <2>3 DEF PacketOK
<1>12. Agreement'
  <2>1. CASE agree' = "yes"
    <3>1. k = n /\ agree = "yes"
      BY <1>2, <1>4, <1>5, <2>1
    <3>2. NextFresh = (sent[n].low = 0) /\ NextFreshHigh = (sent[n].high = 0)
      BY <1>2, <1>4, <1>5, <3>1 DEF NextFresh, NextFreshHigh
    <3>3. enc.low.first = (sent[n].low = 0) /\ (enc.wide => enc.high.first = (sent[n].high = 0))
      BY <1>1, <1>4 DEF SentChain
    <3>4. NextFresh' = enc.low.first /\ NextFreshHigh' = enc.high.first
      BY <1>2 DEF NextFresh, NextFreshHigh
    <3>5. DecoderFresh = NextFresh /\ (enc.wide /\ dec.wide => dec.high.first = NextFreshHigh)
      BY <1>1, <3>1 DEF Agreement
    <3>6. DecoderFresh' = DecoderFresh
      BY <1>2 DEF DecoderFresh
    <3> QED BY <1>2, <2>1, <3>2, <3>3, <3>4, <3>5, <3>6 DEF Agreement
  <2>2. CASE agree' # "yes"
    BY <1>1, <1>2, <2>2 DEF Agreement, DecoderFresh
  <2> QED BY <2>1, <2>2
<1> QED BY <1>9, <1>10, <1>11, <1>12 DEF CodecIInv

(* The message in front of the packet is skipped.                           *)
LEMMA InbandKeeps ==
  ASSUME CodecIInv, Inband
  PROVE  CodecIInv'
<1>1. /\ CodecTypes /\ OneSubmode /\ NarrowSent /\ PacketOK /\ SilenceCounts /\ GotOK /\ SentChain /\ Agreement
  BY DEF CodecIInv
<1>2. /\ phase = "decode" /\ Search(inp).ret = 0 /\ Search(inp).m \in {13, 14}
      /\ inp' = IF Search(inp).m = 14 THEN speex_inband_handler(Search(inp).bits)
                ELSE speex_default_user_handler(Search(inp).bits)
      /\ framing' = framing /\ enc' = enc /\ dec' = dec /\ out' = out /\ wire' = wire
      /\ phase' = phase /\ ret' = ret /\ sent' = sent /\ got' = got /\ agree' = agree
  BY DEF Inband
<1>3. PICK at : Here(at)
  BY <1>1, <1>2, DecoderIsHere
<1>4. PICK k, n \in Nat : k = Len(got) /\ n = Len(sent) /\ k \in 0 .. n
  BY <1>1 DEF CodecTypes
<1>5. OnHeader(inp.pos, at, k)
  <2> SUFFICES ASSUME ~OnHeader(inp.pos, at, k) PROVE FALSE
    OBVIOUS
  <2>1. k # n /\ ~Blocked(sent, Skips, k)
    BY <1>2, <1>3, <1>4, SearchHere
  <2>2. k < n
    BY <1>4, <2>1
  <2>3. Search(inp).m \in 0 .. 8
    BY <1>3, <1>4, <2>1, <2>2, SearchHere
  <2> QED BY <1>2, <2>3
<1>6. /\ Search(inp).m = 14 /\ Search(inp).bits = At(inp, 5)
      /\ speex_inband_handler(At(inp, 5)) = At(inp, 17) /\ Readable(At(inp, 17), 17)
  BY <1>3, <1>4, <1>5, SearchHere
<1>7. inp' = At(inp, 17)
  BY <1>2, <1>6
<1>8. inp' \in Streams /\ inp'.nbBits = Len(inp'.chars) /\ ~inp'.overflow /\ inp'.pos = 17
  BY <1>6, <1>7 DEF Readable
<1>9. inp'.chars = inp.chars
  BY <1>7 DEF At
<1>10. CodecTypes'
  BY <1>1, <1>2, <1>8 DEF CodecTypes
<1>11. OneSubmode' /\ NarrowSent' /\ SilenceCounts' /\ GotOK' /\ SentChain'
  BY <1>1, <1>2 DEF OneSubmode, NarrowSent, SilenceCounts, GotOK, SentChain
<1>12. PacketOK'
  <2>1. k = 0 /\ at[1] = 17
    BY <1>5 DEF OnHeader
  <2>2. Layout(inp.chars, at, sent, enc.wide) /\ Ends(inp.chars, at[n + 1])
    BY <1>3, <1>4 DEF Here, Positioned
  <2>3. Stands(at, Len(got))'
    BY <1>2, <1>4, <1>8, <2>1 DEF Stands
  <2>4. \E a : /\ Layout(inp'.chars, a, sent', enc'.wide)
               /\ Ends(inp'.chars, a[Len(sent') + 1])
               /\ Stands(a, Len(got))'
    BY <1>2, <1>4, <1>9, <2>2, <2>3
  <2>5. \A i \in 1 .. Len(got') - 1 : sent'[i].high # 0
    BY <1>2, <1>4, <2>1
  <2>6. wire = <<>> /\ (framing = "lib" => Holds(out, <<>>))
    BY <1>1, <1>2 DEF PacketOK
  <2> QED BY <1>2, <1>8, <2>4, <2>5, <2>6 DEF PacketOK
<1>13. Agreement'
  BY <1>1, <1>2 DEF Agreement, DecoderFresh, NextFresh, NextFreshHigh
<1> QED BY <1>10, <1>11, <1>12, <1>13 DEF CodecIInv

(* The frame the decoder makes of block m with the layer behind it, and what *)
(* becomes of its state.                                                     *)
LayerBehind(bits) == IF dec.wide THEN LayerRead(bits) ELSE [mode |-> 0, bits |-> bits]
BitsBehind(layer) ==
  IF layer.mode = 0 THEN layer.bits ELSE Advanced(layer.bits, DecodedLayer(wb_submodes[layer.mode]))

Decodes(i, at, d, mode, frame) ==
  /\ d = LowDecoded(dec.low, sent[i].low, At(inp, at[i] + 5))
  /\ mode = (IF dec.wide THEN sent[i].high ELSE 0)
  /\ frame = [low |-> sent[i].low, high |-> mode, fresh |-> DecoderFresh,
              freshHigh |-> dec.high.first, dtx |-> d.low.dtx_enabled, agreed |-> agree]
  /\ dec' = [dec EXCEPT !.low = d.low, !.high = IF dec.wide THEN [first |-> mode = 0] ELSE @]
  /\ inp' = At(inp, Behind(at, sent, i, dec.wide, enc.wide))

(* The frame that is decoded is the next one of the packet.                 *)
LEMMA FrameDecoded ==
  ASSUME CodecIInv, DecodeFrame
  PROVE  \E at, d, mode, frame :
           LET i == Len(got) + 1
           IN  /\ Here(at) /\ i \in 1 .. Len(sent) /\ ~Blocked(sent, Skips, Len(got))
               /\ Decodes(i, at, d, mode, frame) /\ got' = Append(got, frame)
               /\ Understood(inp, at, sent[i], i, dec.low, dec.wide, enc.wide,
                             Behind(at, sent, i, dec.wide, enc.wide))
               /\ Behind(at, sent, i, dec.wide, enc.wide) \in Nat
               /\ Behind(at, sent, i, dec.wide, enc.wide) <= Len(inp.chars)
<1>1. CodecTypes /\ PacketOK /\ NarrowSent
  BY DEF CodecIInv
<1>2. PICK s, d, layer, frame :
        /\ s = Search(inp) /\ d = LowDecoded(dec.low, s.m, s.bits)
        /\ layer = LayerBehind(d.bits)
        /\ frame = [low |-> s.m, high |-> layer.mode, fresh |-> DecoderFresh,
                    freshHigh |-> dec.high.first, dtx |-> d.low.dtx_enabled, agreed |-> agree]
        /\ phase = "decode" /\ s.ret = 0 /\ s.m \in 0 .. 8
        /\ dec' = [dec EXCEPT !.low = d.low, !.high = IF dec.wide THEN [first |-> layer.mode = 0] ELSE @]
        /\ inp' = BitsBehind(layer)
        /\ got' = Append(got, frame)
  <2> DEFINE s == Search(inp)
             d == LowDecoded(dec.low, s.m, s.bits)
             layer == LayerBehind(d.bits)
             frame == [low |-> s.m, high |-> layer.mode, fresh |-> DecoderFresh,
                       freshHigh |-> dec.high.first, dtx |-> d.low.dtx_enabled, agreed |-> agree]
  <2>1. phase = "decode" /\ s.ret = 0 /\ s.m \in 0 .. 8
    BY DEF DecodeFrame
  <2>2. dec' = [dec EXCEPT !.low = d.low, !.high = IF dec.wide THEN [first |-> layer.mode = 0] ELSE @]
    BY Zenon DEF DecodeFrame, LayerBehind
  <2>3. inp' = BitsBehind(layer)
    BY Zenon DEF DecodeFrame, LayerBehind, BitsBehind
  <2>4. got' = Append(got, frame)
    BY Zenon DEF DecodeFrame, LayerBehind, DecoderFresh
  <2>5. s = Search(inp) /\ d = LowDecoded(dec.low, s.m, s.bits) /\ layer = LayerBehind(d.bits)
    OBVIOUS
  <2>6. frame = [low |-> s.m, high |-> layer.mode, fresh |-> DecoderFresh,
                 freshHigh |-> dec.high.first, dtx |-> d.low.dtx_enabled, agreed |-> agree]
    OBVIOUS
  <2> HIDE DEF s, d, layer, frame
  <2> QED BY <2>1, <2>2, <2>3, <2>4, <2>5, <2>6, Zenon
<1>3. PICK at : Here(at)
  BY <1>1, <1>2, DecoderIsHere
<1>4. PICK n, k \in Nat : n = Len(sent) /\ k = Len(got) /\ k \in 0 .. n
  BY <1>1 DEF CodecTypes
<1>5. k # n /\ ~Blocked(sent, Skips, k) /\ ~OnHeader(inp.pos, at, k)
  BY <1>2, <1>3, <1>4, SearchHere
<1>6. PICK i \in 1 .. n : i = k + 1
  BY <1>4, <1>5
<1>7. /\ s.m = sent[i].low /\ s.bits = At(inp, at[i] + 5) /\ Readable(At(inp, at[i] + 5), at[i] + 5)
  BY <1>2, <1>3, <1>4, <1>5, <1>6, SearchHere
<1>8. dec.wide \in BOOLEAN /\ enc.wide \in BOOLEAN
  <2>1. enc \in Encoders /\ dec \in Decoders
    BY <1>1 DEF CodecTypes
  <2> QED BY <2>1 DEF Encoders, Decoders
<1>9. PICK place : place = Behind(at, sent, i, dec.wide, enc.wide)
  OBVIOUS
<1>10. Understood(inp, at, sent[i], i, dec.low, dec.wide, enc.wide, place)
       /\ place \in Nat /\ place <= Len(inp.chars)
  <2>1. PICK p, wide, dwide, skip, low : /\ p = inp.pos /\ wide = enc.wide /\ dwide = dec.wide /\ skip = Skips
                                          /\ low = dec.low
    OBVIOUS
  <2>2. Positioned(inp, p, at, sent, wide, skip, k, n)
    BY <1>3, <1>4, <2>1 DEF Here
  <2>3. dwide \in BOOLEAN
    BY <1>8, <2>1
  <2>4. /\ Understood(inp, at, sent[i], i, low, dwide, wide, Behind(at, sent, i, dwide, wide))
        /\ Behind(at, sent, i, dwide, wide) \in Nat /\ Behind(at, sent, i, dwide, wide) <= Len(inp.chars)
    BY <1>7, <2>2, <2>3, FrameRead
  <2> QED BY <1>9, <2>1, <2>4
<1>11. d = LowDecoded(dec.low, sent[i].low, At(inp, at[i] + 5))
  BY <1>2, <1>7
<1>12. layer.mode = (IF dec.wide THEN sent[i].high ELSE 0) /\ inp' = At(inp, place)
  <2>1. CASE dec.wide
    <3>1. LayerRead(d.bits).mode = (IF enc.wide THEN sent[i].high ELSE 0)
          /\ AfterLayer(d.bits) = At(inp, place)
      BY <1>10, <1>11, <2>1 DEF Understood
    <3>2. ~enc.wide => sent[i].high = 0
      BY <1>1, <1>4 DEF NarrowSent
    <3>3. layer = LayerRead(d.bits)
      BY <1>2, <2>1 DEF LayerBehind
    <3>4. inp' = AfterLayer(d.bits)
      BY <1>2, <3>3 DEF AfterLayer, BitsBehind
    <3> QED BY <2>1, <3>1, <3>2, <3>3, <3>4
  <2>2. CASE ~dec.wide
    <3>1. d.bits = At(inp, place)
      BY <1>10, <1>11, <2>2 DEF Understood
    <3>2. layer.mode = 0 /\ layer.bits = d.bits
      BY <1>2, <2>2 DEF LayerBehind
    <3>3. inp' = layer.bits
      BY <1>2, <3>2 DEF BitsBehind
    <3> QED BY <2>2, <3>1, <3>2, <3>3
  <2> QED BY <1>8, <2>1, <2>2
<1>13. PICK mode : mode = layer.mode
  OBVIOUS
<1>14. Decodes(i, at, d, mode, frame)
  BY <1>2, <1>7, <1>9, <1>11, <1>12, <1>13 DEF Decodes
<1> QED BY <1>2, <1>3, <1>4, <1>5, <1>6, <1>9, <1>10, <1>14

(* What the decoder learns from a frame.                                    *)
LowLearnt(low, f) ==
  /\ low \in [first : BOOLEAN, count_lost : Nat, dtx_enabled : BOOLEAN]
  /\ (low.first \/ low.count_lost # 0) <=> f.low = 0
  /\ f.analysed /\ f.low # 0 => low.dtx_enabled = f.silent

(* The decoder learns what the encoder knew of the frame.                   *)
LEMMA LowFollows ==
  ASSUME CodecIInv, NEW i \in 1 .. Len(sent), NEW at, Here(at), NEW d, NEW place,
         d = LowDecoded(dec.low, sent[i].low, At(inp, at[i] + 5)),
         Understood(inp, at, sent[i], i, dec.low, dec.wide, enc.wide, place)
  PROVE  LowLearnt(d.low, sent[i])
<1>1. CodecTypes /\ SilenceCounts
  BY DEF CodecIInv
<1>2. dec.low \in [first : BOOLEAN, count_lost : Nat, dtx_enabled : BOOLEAN]
  BY <1>1 DEF CodecTypes, Decoders
<1>3. BlockFacts(inp.chars, at, sent, i)
  <2>1. PICK n, p, wide, skip, k : /\ n = Len(sent) /\ p = inp.pos /\ wide = enc.wide /\ skip = Skips
                                   /\ k = Len(got)
    OBVIOUS
  <2>2. Positioned(inp, p, at, sent, wide, skip, k, n)
    BY <2>1 DEF Here
  <2>3. i \in 1 .. n
    BY <2>1
  <2> QED BY <2>2, <2>3, BlockInside
<1>4. PICK m \in 0 .. 8 : m = sent[i].low
  BY <1>3 DEF BlockFacts
<1>5. sent[i].analysed /\ sent[i].silent => m \in {0, 1}
  BY <1>1, <1>4 DEF SilenceCounts
<1>6. sent[i].silent \in BOOLEAN
  <2>1. sent \in Seq(SentFrames)
    BY <1>1 DEF CodecTypes
  <2>2. sent[i] \in SentFrames
    BY <2>1
  <2> QED BY <2>2 DEF SentFrames
<1>7. CASE m = 0
  <2>1. d.low = [dec.low EXCEPT !.first = TRUE, !.count_lost = 0]
    BY <1>4, <1>7 DEF Understood
  <2>2. PICK l, low : l = dec.low /\ low = d.low
    OBVIOUS
  <2>3. l \in [first : BOOLEAN, count_lost : Nat, dtx_enabled : BOOLEAN]
        /\ low = [l EXCEPT !.first = TRUE, !.count_lost = 0]
    BY <1>2, <2>1, <2>2
  <2>4. low \in [first : BOOLEAN, count_lost : Nat, dtx_enabled : BOOLEAN] /\ low.first
    BY ONLY <2>3
  <2>5. /\ d.low \in [first : BOOLEAN, count_lost : Nat, dtx_enabled : BOOLEAN]
        /\ d.low.first
    BY <2>2, <2>4
  <2> QED BY <1>4, <1>7, <2>5 DEF LowLearnt
<1>8. CASE m # 0
  <2>1. PICK dx \in BOOLEAN : dx = (m = 1 /\ Field4(inp.chars, at[i] + 39) = 15)
    OBVIOUS
  <2>2. d.low = [first |-> FALSE, count_lost |-> 0, dtx_enabled |-> dx]
    BY <1>4, <1>8, <2>1 DEF Understood
  <2>5. PICK low : low = d.low
    OBVIOUS
  <2>6. low = [first |-> FALSE, count_lost |-> 0, dtx_enabled |-> dx] /\ dx \in BOOLEAN
    BY <2>2, <2>5
  <2>7. /\ low \in [first : BOOLEAN, count_lost : Nat, dtx_enabled : BOOLEAN]
        /\ low.first = FALSE /\ low.count_lost = 0 /\ low.dtx_enabled = dx
    BY ONLY <2>6
  <2>3. /\ d.low \in [first : BOOLEAN, count_lost : Nat, dtx_enabled : BOOLEAN]
        /\ d.low.first = FALSE /\ d.low.count_lost = 0 /\ d.low.dtx_enabled = dx
    BY <2>5, <2>7
  <2>4. sent[i].analysed => dx = sent[i].silent
    <3>1. CASE m = 1
      BY <1>3, <1>4, <1>6, <2>1, <3>1 DEF BlockFacts
    <3>2. CASE m # 1
      BY <1>5, <1>6, <1>8, <2>1, <3>2
    <3> QED BY <3>1, <3>2
  <2> QED BY <1>4, <1>8, <2>3, <2>4 DEF LowLearnt
<1> QED BY <1>7, <1>8

(* The decoder starts anew where the encoder did.                           *)
LEMMA MarksFollow ==
  ASSUME CodecIInv, phase = "decode", NEW i \in 1 .. Len(sent), i = Len(got) + 1
  PROVE  /\ agree = "yes" => /\ DecoderFresh = sent[i].fresh
                             /\ enc.wide /\ dec.wide => dec.high.first = sent[i].freshHigh
         /\ agree = "lost" => DecoderFresh
<1>1. Agreement /\ SentChain /\ CodecTypes
  BY DEF CodecIInv
<1>2. PICK n, k \in Nat : n = Len(sent) /\ k = Len(got) /\ k \in 0 .. n /\ n > 0
  BY <1>1 DEF CodecTypes
<1>3. NextFresh = sent[i].fresh /\ (enc.wide => NextFreshHigh = sent[i].freshHigh)
  <2>1. CASE k = 0
    <3>1. i = 1
      BY <1>2, <2>1
    <3> QED BY <1>2, <2>1, <3>1 DEF NextFresh, NextFreshHigh
  <2>2. CASE k # 0
    <3>1. i \in 2 .. n /\ i - 1 = k
      BY <1>2, <2>2
    <3>2. /\ sent[i].fresh = (sent[i - 1].low = 0)
          /\ enc.wide => sent[i].freshHigh = (sent[i - 1].high = 0)
      BY <1>1, <1>2, <3>1 DEF SentChain
    <3>3. /\ sent[i].fresh = (sent[k].low = 0)
          /\ enc.wide => sent[i].freshHigh = (sent[k].high = 0)
      BY <3>1, <3>2
    <3>4. NextFresh = (sent[k].low = 0) /\ NextFreshHigh = (sent[k].high = 0)
      BY <1>2, <2>2 DEF NextFresh, NextFreshHigh
    <3> QED BY <3>3, <3>4
  <2> QED BY <2>1, <2>2
<1> QED BY <1>1, <1>3 DEF Agreement

(* One more frame of a list, and it is in order.                            *)
FrameOK(g, i) ==
  /\ g.low = sent[i].low
  /\ dec.wide => g.high = sent[i].high
  /\ g.agreed = "yes" => /\ g.fresh = sent[i].fresh
                         /\ enc.wide /\ dec.wide => g.freshHigh = sent[i].freshHigh
  /\ g.agreed = "lost" => (sent[i].fresh => g.fresh)
  /\ sent[i].analysed /\ sent[i].low # 0 => g.dtx = sent[i].silent

(* The frame the decoder made is the frame that was sent.                   *)
LEMMA FrameInOrder ==
  ASSUME CodecIInv, phase = "decode", NEW i \in 1 .. Len(sent), i = Len(got) + 1, NEW at, Here(at),
         NEW d, NEW mode, NEW frame, Decodes(i, at, d, mode, frame), LowLearnt(d.low, sent[i])
  PROVE  frame \in GotFrames /\ FrameOK(frame, i)
<1>1. CodecTypes
  BY DEF CodecIInv
<1>2. PICK f : f = sent[i] /\ f \in SentFrames
  <2>1. sent \in Seq(SentFrames)
    BY <1>1 DEF CodecTypes
  <2> QED BY <2>1
<1>3. dec.wide \in BOOLEAN /\ dec.high.first \in BOOLEAN /\ agree \in {"yes", "lost", "no"}
  BY <1>1 DEF CodecTypes, Decoders
<1>4. PICK fresh \in BOOLEAN : fresh = DecoderFresh
  BY DEF DecoderFresh
<1>5. PICK freshHigh \in BOOLEAN : freshHigh = dec.high.first
  BY <1>3
<1>6. PICK dtx \in BOOLEAN : dtx = d.low.dtx_enabled
  <2>1. d.low.dtx_enabled \in BOOLEAN
    <3>1. PICK low : low = d.low /\ low \in [first : BOOLEAN, count_lost : Nat, dtx_enabled : BOOLEAN]
      BY DEF LowLearnt
    <3>2. low.dtx_enabled \in BOOLEAN
      BY ONLY <3>1
    <3> QED BY <3>1, <3>2
  <2> QED BY <2>1
<1>7. PICK a \in {"yes", "lost", "no"} : a = agree
  BY <1>3
<1>8. PICK m \in 0 .. 8, h \in 0 .. 4 : m = f.low /\ h = f.high
  BY <1>2 DEF SentFrames
<1>9. PICK o \in 0 .. 4 : o = mode /\ (dec.wide => o = h)
  BY <1>2, <1>3, <1>8 DEF Decodes
<1>10. frame = [low |-> m, high |-> o, fresh |-> fresh, freshHigh |-> freshHigh, dtx |-> dtx, agreed |-> a]
  BY <1>2, <1>4, <1>5, <1>6, <1>7, <1>8, <1>9 DEF Decodes
<1>11. /\ frame \in GotFrames /\ frame.low = m /\ frame.high = o /\ frame.fresh = fresh
       /\ frame.freshHigh = freshHigh /\ frame.dtx = dtx /\ frame.agreed = a
  BY ONLY <1>10, m \in 0 .. 8, o \in 0 .. 4, fresh \in BOOLEAN, freshHigh \in BOOLEAN, dtx \in BOOLEAN,
          a \in {"yes", "lost", "no"} DEF GotFrames
<1>12. /\ a = "yes" => /\ fresh = f.fresh
                       /\ enc.wide /\ dec.wide => freshHigh = f.freshHigh
       /\ a = "lost" => fresh
  BY <1>2, <1>4, <1>5, <1>7, MarksFollow
<1>13. f.analysed /\ m # 0 => dtx = f.silent
  BY <1>2, <1>6, <1>8 DEF LowLearnt
<1> QED BY <1>2, <1>8, <1>9, <1>11, <1>12, <1>13 DEF FrameOK

(* A frame is decoded.                                                      *)
LEMMA DecodeFrameKeeps ==
  ASSUME CodecIInv, DecodeFrame
  PROVE  CodecIInv'
<1>1. /\ CodecTypes /\ OneSubmode /\ NarrowSent /\ PacketOK /\ SilenceCounts /\ GotOK /\ SentChain /\ Agreement
  BY DEF CodecIInv
<1>2. /\ phase = "decode" /\ agree' = "yes"
      /\ phase' = IF framing = "app" /\ OutOfRoom(Len(got) + 1) THEN "done" ELSE "decode"
      /\ framing' = framing /\ enc' = enc /\ out' = out /\ wire' = wire /\ ret' = ret /\ sent' = sent
  BY DEF DecodeFrame
<1>3. PICK n, k \in Nat : n = Len(sent) /\ k = Len(got) /\ k \in 0 .. n
  BY <1>1 DEF CodecTypes
<1>4. PICK i : i = k + 1
  OBVIOUS
<1>5. PICK at, d, mode, frame, place :
        /\ Here(at) /\ i \in 1 .. n /\ ~Blocked(sent, Skips, k)
        /\ Decodes(i, at, d, mode, frame) /\ got' = Append(got, frame)
        /\ place = Behind(at, sent, i, dec.wide, enc.wide)
        /\ Understood(inp, at, sent[i], i, dec.low, dec.wide, enc.wide, place)
        /\ place \in Nat /\ place <= Len(inp.chars)
  BY <1>3, <1>4, FrameDecoded
<1>6. LowLearnt(d.low, sent[i])
  BY <1>3, <1>5, LowFollows DEF Decodes
<1>7. frame \in GotFrames /\ FrameOK(frame, i)
  BY <1>2, <1>3, <1>4, <1>5, <1>6, FrameInOrder
<1>8. /\ got \in Seq(GotFrames) /\ got' \in Seq(GotFrames) /\ Len(got') = i /\ got'[i] = frame
      /\ \A j \in 1 .. k : got'[j] = got[j]
  <2>1. got \in Seq(GotFrames)
    BY <1>1 DEF CodecTypes
  <2> QED BY <1>3, <1>4, <1>5, <1>7, <2>1, Appended
<1>9. PICK wide, dwide \in BOOLEAN : wide = enc.wide /\ dwide = dec.wide
  <2>1. enc \in Encoders /\ dec \in Decoders
    BY <1>1 DEF CodecTypes
  <2> QED BY <2>1 DEF Encoders, Decoders
<1>10. PICK low : /\ low = d.low /\ low \in [first : BOOLEAN, count_lost : Nat, dtx_enabled : BOOLEAN]
                  /\ (low.first \/ low.count_lost # 0) <=> sent[i].low = 0
  BY <1>6 DEF LowLearnt
<1>11. PICK z \in BOOLEAN : z = (mode = 0)
  OBVIOUS
<1>12. dec' \in Decoders /\ dec'.low = low /\ dec'.wide = dec.wide /\ (dec.wide => dec'.high.first = z)
  <2>1. dec' = [dec EXCEPT !.low = low, !.high = IF dec.wide THEN [first |-> z] ELSE @]
    BY <1>5, <1>10, <1>11 DEF Decodes
  <2>2. dec \in Decoders
    BY <1>1 DEF CodecTypes
  <2> QED BY <1>10, <1>11, <2>1, <2>2 DEF Decoders
<1>13. dec.wide => mode = sent[i].high
  BY <1>5 DEF Decodes
<1>14. Positioned(At(inp, place), place, at, sent, wide, Skips, i, n)
  <2>1. PICK p, skip : p = inp.pos /\ skip = Skips /\ skip = (wide /\ ~dwide)
    BY <1>9 DEF Skips
  <2>2. Positioned(inp, p, at, sent, wide, skip, k, n)
    BY <1>3, <1>5, <1>9, <2>1 DEF Here
  <2>3. place = Behind(at, sent, i, dwide, wide) /\ place \in Nat /\ place <= Len(inp.chars) /\ i \in 1 .. n
    BY <1>5, <1>9
  <2>4. Positioned(At(inp, place), place, at, sent, wide, skip, i, n)
    BY <2>1, <2>2, <2>3, NowBehind
  <2> QED BY <2>1, <2>4
<1>15. inp' = At(inp, place)
  BY <1>5 DEF Decodes
<1>16. Readable(inp', place)
  BY <1>14, <1>15 DEF Positioned
<1>17. inp' \in Streams /\ inp'.nbBits = Len(inp'.chars) /\ ~inp'.overflow /\ inp'.pos = place
  BY <1>16 DEF Readable
<1>18. phase' \in {"decode", "done"} /\ ret' = 0 /\ (phase' = "done" => framing = "app")
  <2>1. ret = 0
    BY <1>1, <1>2 DEF CodecTypes
  <2> QED BY <1>2, <2>1
<1>19. CodecTypes'
  <2>1. Len(got') \in 0 .. Len(sent')
    BY <1>2, <1>3, <1>4, <1>5, <1>8
  <2> QED BY <1>1, <1>2, <1>8, <1>12, <1>17, <1>18, <2>1 DEF CodecTypes
<1>20. OneSubmode' /\ NarrowSent' /\ SilenceCounts' /\ SentChain'
  BY <1>1, <1>2, <1>12 DEF OneSubmode, NarrowSent, SilenceCounts, SentChain
<1>21. GotOK'
  <2>1. ASSUME NEW j \in 1 .. i PROVE FrameOK(got'[j], j)
    <3>1. CASE j = i
      BY <1>7, <1>8, <3>1
    <3>2. CASE j # i
      <4>1. j \in 1 .. k
        BY <1>3, <1>4, <3>2
      <4>2. FrameOK(got[j], j)
        BY <1>1, <1>3, <4>1 DEF GotOK, FrameOK
      <4> QED BY <1>8, <4>1, <4>2
    <3> QED BY <3>1, <3>2
  <2> QED BY <1>2, <1>8, <1>12, <2>1 DEF GotOK, FrameOK
<1>22. PacketOK'
  <2>1. Layout(inp'.chars, at, sent, enc.wide) /\ Ends(inp'.chars, at[n + 1])
    BY <1>9, <1>14, <1>15 DEF Positioned
  <2>2. Skips' = Skips
    BY <1>2, <1>12 DEF Skips
  <2>3. i # 0 /\ place = at[i + 1] - (IF Skips THEN LayerLen(sent[i].high) ELSE 0)
    <3>1. i # 0
      BY <1>3, <1>4
    <3> QED BY <1>14, <3>1 DEF Positioned
  <2>4. Stands(at, Len(got))'
    BY <1>2, <1>8, <1>17, <2>2, <2>3 DEF Stands
  <2>5. Skips => \A j \in 1 .. i - 1 : sent[j].high # 0
    <3>1. Skips => \A j \in 1 .. k - 1 : sent[j].high # 0
      BY <1>1, <1>2, <1>3 DEF PacketOK
    <3>2. Skips /\ k > 0 => sent[k].high # 0
      BY <1>5 DEF Blocked
    <3>3. \A j \in 1 .. i - 1 : j \in 1 .. k - 1 \/ (j = k /\ k > 0)
      BY <1>3, <1>4
    <3> QED BY <3>1, <3>2, <3>3
  <2>6. \E a : /\ Layout(inp'.chars, a, sent', enc'.wide)
               /\ Ends(inp'.chars, a[Len(sent') + 1])
               /\ Stands(a, Len(got))'
    BY <1>2, <1>3, <2>1, <2>4
  <2>7. wire = <<>> /\ (framing = "lib" => Holds(out, <<>>))
    BY <1>1, <1>2 DEF PacketOK
  <2> QED BY <1>2, <1>8, <1>17, <1>18, <2>2, <2>5, <2>6, <2>7 DEF PacketOK
<1>23. Agreement'
  <2>1. DecoderFresh' = (sent[i].low = 0)
    BY <1>10, <1>12 DEF DecoderFresh
  <2>2. enc.wide /\ dec.wide => dec'.high.first = (sent[i].high = 0)
    BY <1>11, <1>12, <1>13
  <2>3. CASE phase' = "decode"
    <3>1. Len(sent') > 0 /\ Len(got') # 0
      BY <1>2, <1>3, <1>4, <1>5, <1>8
    <3>2. NextFresh' = (sent[i].low = 0) /\ NextFreshHigh' = (sent[i].high = 0)
      BY <1>2, <1>8, <2>3, <3>1 DEF NextFresh, NextFreshHigh
    <3> QED BY <1>2, <1>12, <2>1, <2>2, <3>2 DEF Agreement
  <2>4. CASE phase' = "done"
    <3>1. NextFresh' = enc.low.first
      BY <1>2, <2>4 DEF NextFresh
    <3>2. ~dec.wide /\ sent[i].low = 3 /\ sent[n].low = 3
      BY <1>1, <1>3, <1>5, <1>18, <2>4 DEF OneSubmode
    <3>3. enc.low.first = (sent[n].low = 0)
      BY <1>1, <1>3, <1>4, <1>5 DEF SentChain
    <3>4. DecoderFresh' = NextFresh'
      BY <2>1, <3>1, <3>2, <3>3
    <3> QED BY <1>2, <1>12, <2>4, <3>2, <3>4 DEF Agreement
  <2> QED BY <1>18, <2>3, <2>4
<1> QED BY <1>19, <1>20, <1>21, <1>22, <1>23 DEF CodecIInv

(* Every step keeps the invariant.                                          *)
LEMMA CodecStep ==
  ASSUME CodecIInv, [CodecNext]_cvars
  PROVE  CodecIInv'
<1>1. CASE CodecNext
  <2>1. CASE \E a \in Analyses(enc) : EncodeFrame(a)
    BY <2>1, EncodeFrameKeeps
  <2>2. CASE EncodeStereo
    BY <2>2, EncodeStereoKeeps
  <2>3. CASE Send
    BY <2>3, SendKeeps
  <2>4. CASE \/ \E q \in Qualities : SetEncQuality(q)
             \/ \E on \in BOOLEAN : SetVbr(on) \/ SetVad(on) \/ SetDtx(on)
    BY <2>4, RequestsKeep
  <2>5. CASE ResetState
    BY <2>5, ResetStateKeeps
  <2>6. CASE Deliver
    BY <2>6, DeliverKeeps
  <2>7. CASE Lose
    BY <2>7, LoseKeeps
  <2>8. CASE SearchFails
    BY <2>8, SearchFailsKeeps
  <2>9. CASE Inband
    BY <2>9, InbandKeeps
  <2>10. CASE DecodeFrame
    BY <2>10, DecodeFrameKeeps
  <2>11. CASE NextPacket
    BY <2>11, NextPacketKeeps
  <2> QED BY <1>1, <2>1, <2>2, <2>3, <2>4, <2>5, <2>6, <2>7, <2>8, <2>9, <2>10, <2>11 DEF CodecNext
<1>2. CASE UNCHANGED cvars
  <2>1. /\ framing' = framing /\ enc' = enc /\ dec' = dec /\ out' = out /\ wire' = wire /\ inp' = inp
        /\ phase' = phase /\ ret' = ret /\ sent' = sent /\ got' = got /\ agree' = agree
    BY <1>2 DEF cvars
  <2>2. /\ CodecTypes /\ OneSubmode /\ NarrowSent /\ PacketOK /\ SilenceCounts /\ GotOK
        /\ SentChain /\ Agreement
    BY DEF CodecIInv
  <2>3. CodecTypes' /\ OneSubmode'
    BY <2>1, <2>2 DEF CodecTypes, OneSubmode
  <2>4. NarrowSent' /\ SilenceCounts' /\ SentChain'
    BY <2>1, <2>2 DEF NarrowSent, SilenceCounts, SentChain
  <2>5. GotOK'
    BY <2>1, <2>2 DEF GotOK
  <2>6. PacketOK'
    BY <2>1, <2>2 DEF PacketOK, Stands, Skips, Reachable
  <2>7. Agreement'
    BY <2>1, <2>2 DEF Agreement, DecoderFresh, NextFresh, NextFreshHigh
  <2> QED BY <2>3, <2>4, <2>5, <2>6, <2>7 DEF CodecIInv
<1> QED BY <1>1, <1>2

(* The invariant holds in every state.                                      *)
LEMMA CodecHolds == CodecSpec => []CodecIInv
BY CodecBegins, CodecStep, PTL DEF CodecSpec

(* A delivered packet is decoded into the frames that were encoded, as far  *)
(* as the decoder can reach, and no field is read past its end: for every   *)
(* number of frames, every order of submodes, every mix of wideband and     *)
(* narrowband (nb_encode, sb_encode, nb_decode, sb_decode, bits.c).         *)
THEOREM DeliveredPacketDecodes == CodecSpec => []PacketDecodes
<1>1. CodecIInv => PacketDecodes
  <2> SUFFICES ASSUME CodecIInv, phase = "done", ret # 0
               PROVE  /\ Len(got) = Reachable /\ ~inp.overflow
                      /\ \A i \in DOMAIN got : /\ got[i].low = sent[i].low
                                               /\ dec.wide => got[i].high = sent[i].high
    BY DEF PacketDecodes
  <2>1. PacketOK /\ GotOK /\ got \in Seq(GotFrames)
    BY DEF CodecIInv, CodecTypes
  <2>2. DOMAIN got = 1 .. Len(got)
    BY <2>1
  <2> QED BY <2>1, <2>2 DEF PacketOK, GotOK
<1> QED BY <1>1, CodecHolds, PTL

(* The decoder starts the interpolation of the spectrum anew exactly when   *)
(* the encoder did, and after a lost packet at least then, for every        *)
(* sequence of packets, losses and requests (first and count_lost in        *)
(* nb_encode, nb_decode and nb_decode_lost).                                *)
THEOREM InterpolationAgrees == CodecSpec => []FreshAgrees
<1>1. CodecIInv => FreshAgrees
  <2> SUFFICES ASSUME CodecIInv PROVE FreshAgrees
    OBVIOUS
  <2>1. GotOK /\ got \in Seq(GotFrames)
    BY DEF CodecIInv, CodecTypes
  <2>2. DOMAIN got = 1 .. Len(got)
    BY <2>1
  <2> QED BY <2>1, <2>2 DEF FreshAgrees, GotOK
<1> QED BY <1>1, CodecHolds, PTL

(* dtx_enabled of the decoder says of every frame that has fields whether   *)
(* it was silence to the analysis of the encoder (the last field of submode *)
(* 1), so that a lost packet behind it becomes comfort noise only then.     *)
THEOREM NoiseMeansSilence == CodecSpec => []DtxMeansSilence
<1>1. CodecIInv => DtxMeansSilence
  <2> SUFFICES ASSUME CodecIInv PROVE DtxMeansSilence
    OBVIOUS
  <2>1. GotOK /\ got \in Seq(GotFrames)
    BY DEF CodecIInv, CodecTypes
  <2>2. DOMAIN got = 1 .. Len(got)
    BY <2>1
  <2> QED BY <2>1, <2>2 DEF DtxMeansSilence, GotOK
<1> QED BY <1>1, CodecHolds, PTL

=============================================================================

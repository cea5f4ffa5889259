------------------------------ MODULE SpeexModes -----------------------------
(***************************************************************************)
(* The submodes of the voice codec (jni/modes.c, jni/modes_wb.c) and the   *)
(* widths of the fields a frame is made of.  The encoder's side (what the  *)
(* quantizers pack) and the decoder's side (what the unquantizers read)    *)
(* are separate functions in the C code and separate definitions here; the *)
(* table of frame sizes is a third statement of the same fact.  The values *)
(* of the fields are left out.                                             *)
(***************************************************************************)
EXTENDS Integers, Sequences

NB_SUBMODE_BITS == 4
SB_SUBMODE_BITS == 3

\* Geometry of the narrowband mode, in samples.
frameSize == 160
subframeSize == 40
nbSubframes == frameSize \div subframeSize

\* Long-term predictor: 3 taps searched with pitch and gain bits, or forced.
Ltp(pitch, gain) == [forced |-> FALSE, pitch_bits |-> pitch, gain_bits |-> gain]
Forced == [forced |-> TRUE, pitch_bits |-> 0, gain_bits |-> 0]

ltp_params_nb == Ltp(7, 7)
ltp_params_vlbr == Ltp(0, 5)
ltp_params_lbr == Ltp(7, 5)
ltp_params_med == Ltp(7, 5)

\* Innovation: a split codebook, or noise that costs no bits.
Split(n, shape, sign) ==
  [noise |-> FALSE, nb_subvect |-> n, shape_bits |-> shape, have_sign |-> sign]
Noise == [noise |-> TRUE, nb_subvect |-> 0, shape_bits |-> 0, have_sign |-> 0]

split_cb_nb_vlbr == Split(4, 4, 0)
split_cb_nb_ulbr == Split(2, 5, 0)
split_cb_nb_lbr == Split(4, 5, 0)
split_cb_nb == Split(8, 6, 0)
split_cb_nb_med == Split(5, 7, 0)
split_cb_sb == Split(8, 8, 0)
split_cb_high == Split(5, 7, 1)
split_cb_high_lbr == Split(4, 5, 0)

Submode(lbr, forced, sub, double, lsp, ltp, innov, bits) ==
  [lbr_pitch |-> lbr, forced_pitch_gain |-> forced, have_subframe_gain |-> sub,
   double_codebook |-> double, lsp |-> lsp, ltp |-> ltp, innovation |-> innov,
   bits_per_frame |-> bits]

nb_submode1 == Submode(0, 1, 0, 0, "lbr", Forced, Noise, 43)
nb_submode8 == Submode(0, 1, 0, 0, "lbr", Forced, split_cb_nb_ulbr, 79)
nb_submode2 == Submode(0, 0, 0, 0, "lbr", ltp_params_vlbr, split_cb_nb_vlbr, 119)
nb_submode3 == Submode(-1, 0, 1, 0, "lbr", ltp_params_lbr, split_cb_nb_lbr, 160)
nb_submode4 == Submode(-1, 0, 1, 0, "lbr", ltp_params_med, split_cb_nb_med, 220)
nb_submode5 == Submode(-1, 0, 3, 0, "nb", ltp_params_nb, split_cb_nb, 300)
nb_submode6 == Submode(-1, 0, 3, 0, "nb", ltp_params_nb, split_cb_sb, 364)
nb_submode7 == Submode(-1, 0, 3, 1, "nb", ltp_params_nb, split_cb_nb, 492)

wb_submode1 == Submode(0, 0, 1, 0, "high", Forced, Noise, 36)
wb_submode2 == Submode(0, 0, 1, 0, "high", Forced, split_cb_high_lbr, 112)
wb_submode3 == Submode(0, 0, 1, 0, "high", Forced, split_cb_high, 192)
wb_submode4 == Submode(0, 0, 1, 1, "high", Forced, split_cb_high, 352)

\* Submode 0 transmits nothing but its number.
nb_submodes == <<nb_submode1, nb_submode2, nb_submode3, nb_submode4,
                 nb_submode5, nb_submode6, nb_submode7, nb_submode8>>
wb_submodes == <<wb_submode1, wb_submode2, wb_submode3, wb_submode4>>

\* Quality 0 .. 10 to submode: narrowband, and the two bands of wideband.
nb_quality_map == <<1, 8, 2, 3, 3, 4, 4, 5, 5, 6, 7>>
wb_low_quality_map == <<1, 8, 2, 3, 4, 5, 5, 6, 6, 7, 7>>
wb_quality_map == <<1, 1, 1, 1, 1, 1, 2, 2, 3, 3, 4>>

-----------------------------------------------------------------------------
(* What the encoder packs                                                   *)

lsp_quant_nb == 6 + 6 + 6 + 6 + 6
lsp_quant_lbr == 6 + 6 + 6
lsp_quant_high == 6 + 6

LspQuant(s) == CASE s.lsp = "nb" -> lsp_quant_nb
                 [] s.lsp = "lbr" -> lsp_quant_lbr
                 [] s.lsp = "high" -> lsp_quant_high

\* Zero pitch and gain are packed when the search range is empty: same width.
pitch_search_3tap(s) == s.ltp.pitch_bits + s.ltp.gain_bits

\* One index per subvector, the sign above the shape.
split_cb_search_shape_sign(s) ==
  s.innovation.nb_subvect * (s.innovation.shape_bits + s.innovation.have_sign)

InnovationQuant(s) == (1 + s.double_codebook) * split_cb_search_shape_sign(s)

SubframeGain(s) == CASE s.have_subframe_gain = 3 -> 3
                     [] s.have_subframe_gain = 0 -> 0
                     [] OTHER -> 1

\* A narrowband frame between the submode and the last field of submode 1.
EncodedFields(s) ==
  LspQuant(s) + (IF s.lbr_pitch # -1 THEN 7 ELSE 0)
  + (IF s.forced_pitch_gain # 0 THEN 4 ELSE 0) + 5
  + nbSubframes * (pitch_search_3tap(s) + SubframeGain(s) + InnovationQuant(s))

\* A high-band layer behind its submode: folding gains, or gains and shapes.
EncodedLayer(s) ==
  LspQuant(s) + nbSubframes * (IF s.innovation.noise THEN 5 ELSE 4 + InnovationQuant(s))

-----------------------------------------------------------------------------
(* What the decoder reads                                                   *)

lsp_unquant_nb == 6 + 6 + 6 + 6 + 6
lsp_unquant_lbr == 6 + 6 + 6
lsp_unquant_high == 6 + 6

LspUnquant(s) == CASE s.lsp = "nb" -> lsp_unquant_nb
                   [] s.lsp = "lbr" -> lsp_unquant_lbr
                   [] s.lsp = "high" -> lsp_unquant_high

pitch_unquant_3tap(s) == s.ltp.pitch_bits + s.ltp.gain_bits

\* Mutant: the sign is taken for a part of the shape.
SignNotRead(s) == s.innovation.nb_subvect * s.innovation.shape_bits

\* Sign and shape are two fields.
split_cb_shape_sign_unquant(s) ==
  s.innovation.nb_subvect * (IF s.innovation.have_sign = 1 THEN 1 + s.innovation.shape_bits
                             ELSE s.innovation.shape_bits)

InnovationUnquant(s) == (1 + s.double_codebook) * split_cb_shape_sign_unquant(s)

\* The decoder knows two widths of the subframe gain.
SubframeGainRead(s) == CASE s.have_subframe_gain = 3 -> 3
                         [] s.have_subframe_gain = 1 -> 1
                         [] OTHER -> 0

\* The fields in front of the subframes, and the subframes.
DecodedHead(s) ==
  LspUnquant(s) + (IF s.lbr_pitch # -1 THEN 7 ELSE 0)
  + (IF s.forced_pitch_gain # 0 THEN 4 ELSE 0) + 5

DecodedSubframes(s) ==
  nbSubframes * (pitch_unquant_3tap(s) + SubframeGainRead(s) + InnovationUnquant(s))

DecodedLayer(s) ==
  LspUnquant(s) + nbSubframes * (IF s.innovation.noise THEN 5 ELSE 4 + InnovationUnquant(s))

\* What a narrowband decoder skips, by high-band submode 0 .. 7.
wb_skip_table == [m \in 0 .. 7 |-> <<0, 36, 112, 192, 352, 0, 0, 0>>[m + 1]]

-----------------------------------------------------------------------------
(* Bit rates                                                                *)

\* SPEEX_GET_BITRATE at 8000 samples per second.
GetBitrate(m) ==
  LET bits == IF m = 0 THEN NB_SUBMODE_BITS + 1 ELSE nb_submodes[m].bits_per_frame
  IN (8000 * bits) \div frameSize

\* SPEEX_SET_QUALITY clamps the quality.
SetQuality(q) == nb_quality_map[(IF q < 0 THEN 0 ELSE IF q > 10 THEN 10 ELSE q) + 1]

\* SPEEX_SET_BITRATE walks down from quality 10 until the rate fits; when no
\* rate fits it has set quality 0.
SetBitrate(target) ==
  LET fits == {q \in 0 .. 10 : GetBitrate(SetQuality(q)) <= target}
  IN IF fits = {} THEN SetQuality(0)
     ELSE SetQuality(CHOOSE q \in fits : \A p \in fits : p <= q)
=============================================================================

------------------------------ MODULE BitStream ------------------------------
(***************************************************************************)
(* The two ways in which callers use SpeexBits.                            *)
(*                                                                         *)
(* "stream": a writer packs fields and hands over whole bytes              *)
(* (speex_bits_write_whole_bytes), a reader appends them                   *)
(* (speex_bits_read_whole_bytes) and unpacks fields of its own.            *)
(* "packet": a writer packs fields and closes the packet with a terminator *)
(* (speex_bits_write), the way SpeexCodec.cpp does; the terminator is      *)
(* packed bit by bit in a loop that waits for the end of the byte, which   *)
(* is a step of its own here, because the packer may refuse the bit.       *)
(***************************************************************************)
EXTENDS SpeexBits

CONSTANTS Fields,        \* fields the callers pack: sequences of bits
          Reads,         \* the widths the reader asks for
          BufferSizes,   \* sizes of the writer's buffer, in bytes
          MaxPacked      \* bound on the bits packed since the last reset

ASSUME BitStreamAssumption ==
  /\ \A f \in Fields : f \in Seq({0, 1}) /\ Len(f) \in 1 .. 32
  /\ Reads \subseteq Nat \ {0}
  /\ BufferSizes \subseteq Nat \ {0}
  /\ MaxPacked \in Nat

VARIABLES use,       \* "stream" or "packet"
          w,         \* the writer's SpeexBits
          r,         \* the reader's SpeexBits
          packed,    \* the bits packed since the last reset (packet use only)
          dirty,     \* a terminator was left in an unfinished byte
          saved      \* positions that speex_bits_write puts back; <<>> outside it

bvars == <<use, w, r, packed, dirty, saved>>

Unread == SubSeq(r.chars, r.pos + 1, r.nbBits)
Unwritten == SubSeq(w.chars, 1, w.nbBits)

BitStreamInit ==
  /\ use \in {"stream", "packet"}
  /\ \E size \in BufferSizes, owned \in BOOLEAN :
       w = speex_bits_init(size, owned \/ use = "stream")
  /\ r = speex_bits_init(1, TRUE)
  /\ packed = <<>> /\ dirty = FALSE /\ saved = <<>>

\* Packing on top of a terminator ORs the field into it.
Pack(field) ==
  LET after == PackField(w, field)
      done == after.nbBits # w.nbBits
  IN /\ saved = <<>>
     /\ (IF use = "stream" THEN Len(Unread) + w.nbBits ELSE w.nbBits) + Len(field) <= MaxPacked
     /\ w' = after
     /\ packed' = IF use = "packet" /\ done THEN packed \o field ELSE packed
     /\ UNCHANGED <<use, r, dirty, saved>>

-----------------------------------------------------------------------------
(* Whole bytes from writer to reader                                        *)

Transfer ==
  LET out == speex_bits_write_whole_bytes(w, speex_bits_nbytes(w))
  IN /\ use = "stream"
     /\ out.packet # <<>>
     /\ w' = out.bits
     /\ r' = speex_bits_read_whole_bytes(r, out.packet)
     /\ UNCHANGED <<use, packed, dirty, saved>>

\* Reading too much is remembered, and appending bytes does not forget it: from
\* then on nothing is read any more.
Unpack(n) ==
  /\ use = "stream"
  /\ r' = speex_bits_advance(r, n)
  /\ UNCHANGED <<use, w, packed, dirty, saved>>

-----------------------------------------------------------------------------
(* Packets                                                                  *)

StartWrite ==
  /\ use = "packet" /\ saved = <<>> /\ packed # <<>>
  /\ saved' = <<[pos |-> w.pos, nbBits |-> w.nbBits]>>
  /\ UNCHANGED <<use, w, r, packed, dirty>>

\* speex_bits_insert_terminator: "if (bitPtr) pack 0; while (bitPtr) pack 1".
TerminatorBit ==
  LET bit == IF w.nbBits = saved[1].nbBits THEN 0 ELSE 1
  IN /\ saved # <<>>
     /\ BitPtr(w) # 0
     /\ w' = speex_bits_pack(w, bit, 1)
     /\ dirty' = (dirty \/ BitPtr(w') # BitPtr(w))
     /\ UNCHANGED <<use, r, packed, saved>>

EndWrite ==
  /\ saved # <<>>
  /\ BitPtr(w) = 0
  /\ w' = [w EXCEPT !.pos = saved[1].pos, !.nbBits = saved[1].nbBits]
  /\ saved' = <<>>
  /\ UNCHANGED <<use, r, packed, dirty>>

\* SpeexCodec.cpp resets the structure before every frame.
Reset ==
  /\ use = "packet" /\ saved = <<>> /\ packed # <<>>
  /\ w' = speex_bits_reset(w)
  /\ packed' = <<>> /\ dirty' = FALSE
  /\ UNCHANGED <<use, r, saved>>

BitStreamNext ==
  \/ \E field \in Fields : Pack(field)
  \/ Transfer
  \/ \E n \in Reads : Unpack(n)
  \/ StartWrite
  \/ TerminatorBit
  \/ EndWrite
  \/ Reset

BitStreamSpec == BitStreamInit /\ [][BitStreamNext]_bvars

-----------------------------------------------------------------------------
(* Properties                                                               *)

\* The writer never touches a byte outside its buffer, however often the
\* buffer grew or refused a field (bits.c packs behind a test on buf_size).
InBuffer == Len(w.chars) <= BITS_PER_CHAR * w.buf_size

\* Until a terminator is left behind in an unfinished byte, the buffer holds
\* exactly the fields that were accepted, in order.  (Afterwards it does not:
\* speex_bits_write puts the positions back but not the bits.)
PackedIntact == use = "packet" /\ saved = <<>> /\ ~dirty => Unwritten = packed

\* Writer and reader together are a first-in first-out queue of bits, whatever
\* the widths in which the bits are packed and unpacked and wherever the byte
\* boundaries fall between them.
Queue == INSTANCE BitQueue WITH
  queue <- IF use = "stream" THEN Unread \o Unwritten ELSE <<>>
StreamIsQueue == Queue!QueueSpec

\* speex_bits_write returns when the buffer is the packer's own.  (On a
\* buffer of someone else whose last byte is unfinished the terminator loop
\* does not end: the packer refuses the bit that would fill the byte.)
WriteReturns == (saved # <<>> /\ w.owner) ~> (saved = <<>>)
=============================================================================

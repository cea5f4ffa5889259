------------------------------ MODULE SpeexBits ------------------------------
(***************************************************************************)
(* The bit packer of the voice codec (jni/bits.c), as operators on the     *)
(* SpeexBits structure.  charPtr and bitPtr are one position               *)
(* pos = 8 * charPtr + bitPtr, chars is the content of the buffer, one bit *)
(* per element, up to the end of byte charPtr (what lies behind it is      *)
(* never read: every byte is cleared when the packer enters it).  owner    *)
(* says whether the buffer was allocated by speex_bits_init.               *)
(***************************************************************************)
EXTENDS Integers, Sequences

BITS_PER_CHAR == 8

Zeros(n) == [i \in 1 .. n |-> 0]

\* The n low bits of data, the most significant first.
BitsOf(data, n) == [i \in 1 .. n |-> (data \div 2^(n - i)) % 2]

\* speex_bits_init (owner) and speex_bits_init_buffer (someone else's buffer).
speex_bits_init(size, owned) ==
  [chars |-> Zeros(BITS_PER_CHAR), nbBits |-> 0, pos |-> 0, overflow |-> FALSE,
   buf_size |-> size, owner |-> owned]

\* Mutant: the byte is not cleared.
ResetKeepsByte(b) == [b EXCEPT !.nbBits = 0, !.pos = 0, !.overflow = FALSE]

\* Clears the first byte only.
speex_bits_reset(b) ==
  [b EXCEPT !.chars = Zeros(BITS_PER_CHAR), !.nbBits = 0, !.pos = 0, !.overflow = FALSE]

speex_bits_rewind(b) == [b EXCEPT !.pos = 0, !.overflow = FALSE]

CharPtr(b) == b.pos \div BITS_PER_CHAR
BitPtr(b) == b.pos % BITS_PER_CHAR

Chars(bits) == (bits + BITS_PER_CHAR - 1) \div BITS_PER_CHAR

speex_bits_nbytes(b) == Chars(b.nbBits)

-----------------------------------------------------------------------------
(* Packing                                                                  *)

\* Mutant: the boundary is off by one.
TooSmallLate(b, n) == CharPtr(b) + ((n + BitPtr(b)) \div BITS_PER_CHAR) > b.buf_size

\* The field does not fit: the byte in which it ends would lie outside the
\* buffer (a field that fills the last byte counts as not fitting).
TooSmall(b, n) == CharPtr(b) + ((n + BitPtr(b)) \div BITS_PER_CHAR) >= b.buf_size

\* An owned buffer grows, once, by half and a bit; realloc succeeds.
Grown(b, n) ==
  IF TooSmall(b, n) THEN [b EXCEPT !.buf_size = ((b.buf_size + 5) * 3) \div 2] ELSE b

\* The bits are OR-ed into the current byte, whose tail is whatever it was;
\* every further byte is cleared on entering it.
OrInto(b, field) ==
  LET n == Len(field)
      end == b.pos + n
      bytes == end \div BITS_PER_CHAR + 1
      old(k) == IF k <= BITS_PER_CHAR * (CharPtr(b) + 1) THEN b.chars[k] ELSE 0
      new(k) == IF k > b.pos /\ k <= end THEN field[k - b.pos] ELSE 0
  IN [b EXCEPT !.chars = [k \in 1 .. BITS_PER_CHAR * bytes |->
                            IF old(k) = 1 \/ new(k) = 1 THEN 1 ELSE 0],
               !.pos = end, !.nbBits = @ + n]

\* Mutant: an owned buffer does not grow either.
PackNeverGrows(b, field) == IF TooSmall(b, Len(field)) THEN b ELSE OrInto(b, field)

\* A buffer of someone else that is too small: nothing is packed.
PackField(b, field) ==
  IF TooSmall(b, Len(field)) /\ ~b.owner
  THEN b
  ELSE OrInto(Grown(b, Len(field)), field)

speex_bits_pack(b, data, n) == PackField(b, BitsOf(data, n))

\* The terminator: a zero, then ones up to the end of the byte.  The loop packs
\* bit after bit; on an owned buffer it always reaches the end of the byte.
Terminator(b) ==
  [i \in 1 .. (BITS_PER_CHAR - BitPtr(b)) % BITS_PER_CHAR |-> IF i = 1 THEN 0 ELSE 1]

speex_bits_insert_terminator(b) == PackField(b, Terminator(b))

\* speex_bits_write leaves the positions as they were, and the terminator in
\* the buffer; the packet is the first bytes of the buffer.
Terminated(b) ==
  [speex_bits_insert_terminator(b) EXCEPT !.pos = b.pos, !.nbBits = b.nbBits]

speex_bits_write(b, max_nbytes) ==
  LET nchars == IF max_nbytes > Chars(b.nbBits) THEN Chars(b.nbBits) ELSE max_nbytes
  IN [bits |-> Terminated(b),
      packet |-> SubSeq(Terminated(b).chars, 1, BITS_PER_CHAR * nchars)]

\* Mutant: the unfinished byte is dropped with the others.
WriteDropsTail(b, max_nbytes) ==
  LET nchars == b.nbBits \div BITS_PER_CHAR
  IN [bits |-> speex_bits_reset(b), packet |-> SubSeq(b.chars, 1, BITS_PER_CHAR * nchars)]

\* speex_bits_write_whole_bytes keeps the unfinished byte for the next packet.
speex_bits_write_whole_bytes(b, max_nbytes) ==
  LET whole == b.nbBits \div BITS_PER_CHAR
      nchars == IF max_nbytes > whole THEN whole ELSE max_nbytes
      kept == IF BitPtr(b) > 0
              THEN SubSeq(b.chars, BITS_PER_CHAR * nchars + 1, BITS_PER_CHAR * (nchars + 1))
              ELSE Zeros(BITS_PER_CHAR)
  IN [bits |-> [b EXCEPT !.chars = kept, !.pos = BitPtr(b), !.nbBits = @ % BITS_PER_CHAR],
      packet |-> SubSeq(b.chars, 1, BITS_PER_CHAR * nchars)]

-----------------------------------------------------------------------------
(* Unpacking                                                                *)

\* A packet replaces the content; a buffer of someone else truncates it.
speex_bits_read_from(b, packet) ==
  LET len == Len(packet) \div BITS_PER_CHAR
      nchars == IF len > b.buf_size /\ ~b.owner THEN b.buf_size ELSE len
  IN [b EXCEPT !.chars = SubSeq(packet, 1, BITS_PER_CHAR * nchars),
               !.buf_size = IF nchars > @ THEN nchars ELSE @,
               !.nbBits = BITS_PER_CHAR * nchars, !.pos = 0, !.overflow = FALSE]

\* The bytes already read are dropped.
speex_bits_flush(b) ==
  [b EXCEPT !.chars = SubSeq(@, BITS_PER_CHAR * CharPtr(b) + 1, Len(@)),
            !.nbBits = @ - BITS_PER_CHAR * CharPtr(b), !.pos = BitPtr(b)]

\* Bytes are appended behind the last whole byte that was not read yet.
speex_bits_read_whole_bytes(b, packet) ==
  LET len == Len(packet) \div BITS_PER_CHAR
      full == Chars(b.nbBits) + len > b.buf_size
      nchars == IF full /\ ~b.owner THEN b.buf_size ELSE len
      size == IF full /\ b.owner THEN b.nbBits \div BITS_PER_CHAR + len + 1 ELSE b.buf_size
      f == speex_bits_flush(b)
      at == BITS_PER_CHAR * (f.nbBits \div BITS_PER_CHAR)
  IN [f EXCEPT !.chars = SubSeq(@, 1, at) \o SubSeq(packet, 1, BITS_PER_CHAR * nchars),
               !.nbBits = @ + BITS_PER_CHAR * nchars, !.buf_size = size]

\* Reading past the end sets a flag that makes every later read return 0.
Exhausted(b, n) == b.overflow \/ b.pos + n > b.nbBits

Advanced(b, n) ==
  IF Exhausted(b, n) THEN [b EXCEPT !.overflow = TRUE] ELSE [b EXCEPT !.pos = @ + n]

speex_bits_advance(b, n) == Advanced(b, n)

\* speex_bits_unpack_unsigned: the value, and the structure after it.
Unpacked(b, n) ==
  LET val[i \in 0 .. n] == IF i = 0 THEN 0 ELSE 2 * val[i - 1] + b.chars[b.pos + i]
  IN IF Exhausted(b, n) THEN 0 ELSE val[n]

\* speex_bits_unpack_signed: the same field, its first bit a sign.
UnpackedSigned(b, n) ==
  LET d == Unpacked(b, n) IN IF d >= 2^(n - 1) THEN d - 2^n ELSE d

speex_bits_peek(b) == Unpacked(b, 1)

speex_bits_remaining(b) == IF b.overflow THEN -1 ELSE b.nbBits - b.pos
=============================================================================

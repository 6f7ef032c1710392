---------------------------------- MODULE Sha1 ----------------------------------
(***************************************************************************)
(* utils/sha1.hpp: builder_t, which cuts a message into blocks, pads the   *)
(* last one and counts.  The digest is abstract: transform() is a function *)
(* of the digest and the block that nothing here looks into, so a digest   *)
(* is the sequence of the blocks that went into it.                        *)
(***************************************************************************)
EXTENDS Integers, Sequences

BlockSize == 64

TransformBlock(digest, block) == Append(digest, block)

\* reset(): buffer is the whole of m_buffer, len the part of it in use.
NewBuilder ==
    [buffer |-> [i \in 1 .. BlockSize |-> 0], len |-> 0, count |-> 0, digest |-> <<>>]

\* A form of Update that takes one block of the input at most.
UpdateOneBlock(b, what) ==
    LET n == IF Len(what) < BlockSize - b.len THEN Len(what) ELSE BlockSize - b.len
        filled == [b EXCEPT !.buffer = [i \in 1 .. BlockSize |->
                                IF i \in b.len + 1 .. b.len + n THEN what[i - b.len] ELSE @[i]],
                            !.len = @ + n]
    IN  IF filled.len # BlockSize THEN filled
        ELSE [filled EXCEPT !.digest = TransformBlock(@, filled.buffer), !.count = @ + 1, !.len = 0]

\* update(): one round per block that becomes full.
RECURSIVE Update(_, _)
Update(b, what) ==
    LET n == IF Len(what) < BlockSize - b.len THEN Len(what) ELSE BlockSize - b.len
        filled == [b EXCEPT !.buffer = [i \in 1 .. BlockSize |->
                                IF i \in b.len + 1 .. b.len + n THEN what[i - b.len] ELSE @[i]],
                            !.len = @ + n]
    IN  IF filled.len # BlockSize THEN filled
        ELSE Update([filled EXCEPT !.digest = TransformBlock(@, filled.buffer),
                                   !.count = @ + 1, !.len = 0],
                    SubSeq(what, n + 1, Len(what)))

\* calculate_total_bits_count() and push_uint_to_buffer(): eight bytes, the
\* highest first (the four highest are zero for the messages of a model).
TotalBitsCount(b) == (b.count * BlockSize + b.len) * 8
BitsToBytes(n) == <<0, 0, 0, 0, (n \div 16777216) % 256, (n \div 65536) % 256,
                    (n \div 256) % 256, n % 256>>

\* finish(): 0x80 and zeros fill the buffer; the block is closed first when
\* the message left no room for the count.
Finish(b) ==
    LET padded == [i \in 1 .. BlockSize |->
                    IF i <= b.len THEN b.buffer[i] ELSE IF i = b.len + 1 THEN 128 ELSE 0]
        full == b.len > BlockSize - 8
        digest == IF full THEN TransformBlock(b.digest, padded) ELSE b.digest
        last == IF full THEN [i \in 1 .. BlockSize |-> 0] ELSE padded
        bits == BitsToBytes(TotalBitsCount(b))
    IN  TransformBlock(digest, [i \in 1 .. BlockSize |->
                                IF i > BlockSize - 8 THEN bits[i - BlockSize + 8] ELSE last[i]])

\* make_digest()
MakeDigest(what) == Finish(Update(NewBuilder, what))
===============================================================================

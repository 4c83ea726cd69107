------------------------------ MODULE RawSerdata ------------------------------
(***************************************************************************)
(* The opaque sample type that carries serialized messages through         *)
(* CycloneDDS (raw_serdata.cpp).  A sample is its payload: bytes, the CDR  *)
(* header included.  Received samples arrive as a chain of fragments       *)
(*    [min |-> first byte covered, maxp1 |-> one past the last,            *)
(*     bytes |-> the bytes from min on].                                   *)
(***************************************************************************)
EXTENDS Integers, Sequences, SequencesExt

\* The zeros raw_resize leaves after the requested bytes: the next 4-byte boundary.
RawPad(requested) == (-requested) % 4

\* What a payload of the given size holds once these bytes were copied to its front.
Resized(bytes, size) == bytes \o [i \in 1..(size + RawPad(size) - Len(bytes)) |-> 0]

\* A local write, and a sample in one buffer: raw_serdata_from_blob.
raw_from_ser_iov(iov) == Resized(FlattenSeq(iov), Len(FlattenSeq(iov)))

\* Fragments overlap when the sender sent a part again.  off is what has been copied.
FreshMutant(frag, off) == frag.bytes
Fresh(frag, off) == SubSeq(frag.bytes, off - frag.min + 1, frag.maxp1 - frag.min)

raw_from_ser(fragchain, size) ==
    LET copy(bytes, frag) == IF frag.maxp1 > Len(bytes)
                             THEN bytes \o Fresh(frag, Len(bytes)) ELSE bytes
    IN  Resized(FoldLeft(copy, << >>, fragchain), size)

raw_to_ser(payload, off, sz) == SubSeq(payload, off + 1, off + sz)
raw_size(payload) == Len(payload)

\* CycloneDDS: the sample in fragments of the given size, each sent again with what
\* lies up to overlap bytes around it.  The chain has no gaps and is ordered by min.
Fragments(payload, size, overlap) ==
    LET lo(i) == IF (i - 1) * size > overlap THEN (i - 1) * size - overlap ELSE 0
        hi(i) == IF i * size + overlap < raw_size(payload) THEN i * size + overlap
                                                          ELSE raw_size(payload)
    IN  [i \in 1..((raw_size(payload) + size - 1) \div size) |->
            [min |-> lo(i), maxp1 |-> hi(i),
             bytes |-> raw_to_ser(payload, lo(i), hi(i) - lo(i))]]
==============================================================================

--------------------------------- MODULE Cdr ---------------------------------
(***************************************************************************)
(* The wire format: CdrWriter and CdrReader (cdr.hpp), the code that       *)
(* msg_codegen.py generates for a message and the codecs of the Python     *)
(* package (messages.py), which are written independently of it.           *)
(*                                                                         *)
(* A buffer is a sequence of bytes.  A message type is the sequence of its *)
(* members, with the members of nested messages in their place:            *)
(*    [many |-> "one" | "array" | "seq", n |-> length of an array,         *)
(*     elem |-> the primitives and strings of one element].                *)
(* A member's value is the sequence of its elements, an element the        *)
(* sequence of its numbers and strings.                                    *)
(***************************************************************************)
EXTENDS Integers, Sequences, SequencesExt

Zeros(n) == [i \in 1..n |-> 0]

\* sizeof, which is also the alignment.
SizeOf(t) ==
    CASE t \in {"bool", "uint8"} -> 1
      [] t \in {"int32", "uint32"} -> 4
      [] t \in {"uint64", "int64", "float64"} -> 8

\* memcpy of a number, little endian; the numbers used here are below 2^16.
Bytes(v, size) ==
    [i \in 1..size |-> IF i = 1 THEN v % 256 ELSE IF i = 2 THEN v \div 256 ELSE 0]

\* A length no buffer has.
Huge == 65536
Number(bs) ==
    IF \E i \in 3..Len(bs) : bs[i] # 0 THEN Huge
    ELSE bs[1] + (IF Len(bs) > 1 THEN 256 * bs[2] ELSE 0)

\* bytes.decode("utf-8") accepts sequences of characters: one byte, or a lead byte and the
\* continuation bytes it asks for, in no overlong form, no surrogate and none above 10FFFF.
Continuation == 128..191
IsChar(c) ==
    \/ Len(c) = 1 /\ c[1] < 128
    \/ Len(c) = 2 /\ c[1] \in 194..223 /\ c[2] \in Continuation
    \/ /\ Len(c) = 3 /\ c[1] \in 224..239 /\ c[3] \in Continuation
       /\ c[2] \in CASE c[1] = 224 -> 160..191 [] c[1] = 237 -> 128..159
                     [] OTHER -> Continuation
    \/ /\ Len(c) = 4 /\ c[1] \in 240..244 /\ c[3] \in Continuation /\ c[4] \in Continuation
       /\ c[2] \in CASE c[1] = 240 -> 144..191 [] c[1] = 244 -> 128..143
                     [] OTHER -> Continuation
Utf8(bs) ==
    LET begins == {i \in DOMAIN bs : bs[i] \notin Continuation} \cup {Len(bs) + 1}
    IN  /\ 1 \in begins
        /\ \A i \in begins \ {Len(bs) + 1} : \E n \in 1..4 :
              i + n \in begins /\ IsChar(SubSeq(bs, i, i + n - 1))

\* Any byte but 0 reads as true.
Decoded(t, bs) == IF t = "bool" /\ bs[1] # 0 THEN 1 ELSE Number(bs)

-----------------------------------------------------------------------------
(* CdrWriter.                                                              *)

Header == <<0, 1, 0, 0>>
Padding(offset, n) == (n - (offset % n)) % n

WAlign(buf, n) == buf \o Zeros(Padding(Len(buf) - 4, n))
write_aligned(buf, bytes, n) == WAlign(buf, n) \o bytes
write(buf, t, v) == write_aligned(buf, Bytes(v, SizeOf(t)), SizeOf(t))
write_string(buf, s) == write(buf, "uint32", Len(s) + 1) \o s \o <<0>>

-----------------------------------------------------------------------------
(* CdrReader.  A reader that threw, or a deserialize that returned false,  *)
(* has ok = FALSE and reads no more.  The value of a C++ bool copied from  *)
(* a byte above 1 is undefined: such a reader is odd.  A std::string takes *)
(* any bytes: utf8 says whether all strings read so far were UTF-8.        *)

NewReader(buf) ==
    [buf |-> buf, pos |-> 4, out |-> << >>, resized |-> 0, odd |-> FALSE, utf8 |-> TRUE,
     ok |-> Len(buf) >= 4 /\ SubSeq(buf, 1, 2) = <<0, 1>>]

Throw(r) == [r EXCEPT !.ok = FALSE]
Remaining(r) == Len(r.buf) - r.pos
\* What a read past the end would return is whatever is there: here, zeros.
Peek(r, n) == [i \in 1..n |-> IF r.pos + i <= Len(r.buf) THEN r.buf[r.pos + i] ELSE 0]

RAlign(r, n) ==
    LET to == r.pos + Padding(r.pos - 4, n)
    IN  IF to > Len(r.buf) THEN Throw(r) ELSE [r EXCEPT !.pos = to]

\* read_bytes into count values of type t.
read_bytes(r, t, count) ==
    LET size == count * SizeOf(t)
        at(i) == Peek([r EXCEPT !.pos = @ + (i - 1) * SizeOf(t)], SizeOf(t))
    IN  IF ~r.ok THEN r
        ELSE IF r.pos + size > Len(r.buf) THEN Throw(r)
        ELSE [r EXCEPT !.pos = @ + size,
                       !.out = @ \o [i \in 1..count |-> Decoded(t, at(i))],
                       !.odd = @ \/ (t = "bool" /\ at(1)[1] > 1)]

read(r, t) == IF r.ok THEN read_bytes(RAlign(r, SizeOf(t)), t, 1) ELSE r

\* A string replaces its length in out.
StringAt(r, len) ==
    LET bytes == Peek(r, len - 1)
    IN  [r EXCEPT !.pos = @ + len, !.out = Append(Front(@), bytes),
                  !.utf8 = @ /\ Utf8(bytes)]

StringFitsMutant(r, len) == len # 0
StringFits(r, len) == len # 0 /\ r.pos + len <= Len(r.buf)
read_string(r) ==
    LET l == read(r, "uint32")
    IN  IF ~l.ok THEN l
        ELSE IF StringFits(l, Last(l.out)) THEN StringAt(l, Last(l.out)) ELSE Throw(l)

-----------------------------------------------------------------------------
(* Generated code: emit_serialize and emit_deserialize of msg_codegen.py;  *)
(* write_sequence and read_sequence of msg_traits.hpp do the same.         *)

\* Sequences and arrays of a primitive are copied in one piece, a vector<bool> is not.
Bulk(m) == m.many # "one" /\ Len(m.elem) = 1 /\ m.elem[1] \notin {"string", "bool"}

WriteOne(buf, t, v) == IF t = "string" THEN write_string(buf, v) ELSE write(buf, t, v)
WriteElem(buf, elem, e) ==
    FoldLeftDomain(LAMBDA b, i : WriteOne(b, elem[i], e[i]), buf, elem)

AllBytes(t, val) == FlattenSeq([i \in DOMAIN val |-> Bytes(val[i][1], SizeOf(t))])

emit_serialize(buf, m, val) ==
    LET counted == IF m.many = "seq" THEN write(WAlign(buf, 4), "uint32", Len(val))
                                     ELSE buf
    IN  IF ~Bulk(m) THEN FoldLeft(LAMBDA b, e : WriteElem(b, m.elem, e), counted, val)
        ELSE IF m.many = "seq" /\ val = << >> THEN counted
        ELSE write_aligned(counted, AllBytes(m.elem[1], val), SizeOf(m.elem[1]))

ReadOne(r, t) == IF t = "string" THEN read_string(r) ELSE read(r, t)
ReadElem(r, elem) == FoldLeft(ReadOne, r, elem)

ReadMany(r, m, n) ==
    IF Bulk(m)
    THEN IF m.many = "seq" /\ n = 0 THEN r
         ELSE read_bytes(RAlign(r, SizeOf(m.elem[1])), m.elem[1], n)
    ELSE FoldLeft(LAMBDA s, i : IF s.ok THEN ReadElem(s, m.elem) ELSE s, r,
                  [i \in 1..n |-> i])

\* "n > r.remaining()": a length the buffer cannot hold is refused before the resize.
CountFitsMutant(r, n) == TRUE
CountFits(r, n) == n <= Remaining(r)

emit_deserialize(r, m) ==
    LET c == read(RAlign(r, 4), "uint32")
        n == Last(c.out)
    IN  IF ~r.ok THEN r
        ELSE IF m.many # "seq" THEN ReadMany(r, m, m.n)
        ELSE IF ~c.ok THEN c
        ELSE IF CountFits(c, n) THEN ReadMany([c EXCEPT !.resized = n], m, n)
        ELSE Throw(c)

serialize(type, val) ==
    FoldLeftDomain(LAMBDA b, i : emit_serialize(b, type[i], val[i]), Header, type)
deserialize(type, buf) ==
    FoldLeft(emit_deserialize, NewReader(buf), type)

-----------------------------------------------------------------------------
(* The Python codecs: _CdrWriter and _CdrReader of messages.py.            *)

py_wpad(buf, n) == buf \o Zeros((-(Len(buf) - 4)) % n)
py_number(buf, t, v) == py_wpad(buf, SizeOf(t)) \o Bytes(v, SizeOf(t))
py_string(buf, s) == py_number(buf, "uint32", Len(s) + 1) \o s \o <<0>>
py_one(buf, t, v) == IF t = "string" THEN py_string(buf, v) ELSE py_number(buf, t, v)

\* byte_sequence, double_sequence and doubles: the elements are padded only if there
\* are any.
py_many(buf, m, val) ==
    LET counted == IF m.many = "seq" THEN py_number(py_wpad(buf, 4), "uint32", Len(val))
                                     ELSE buf
    IN  IF val = << >> THEN counted
        ELSE py_wpad(counted, SizeOf(m.elem[1])) \o AllBytes(m.elem[1], val)

py_write(buf, m, val) ==
    IF m.many = "one"
    THEN FoldLeftDomain(LAMBDA b, i : py_one(b, m.elem[i], val[1][i]), buf, m.elem)
    ELSE py_many(buf, m, val)

\* pos has moved when _pad raises.
py_rpad(r, n) ==
    LET s == [r EXCEPT !.pos = @ + ((-(@ - 4)) % n)]
    IN  IF s.pos > Len(s.buf) THEN Throw(s) ELSE s
py_take(r, t, count) == IF r.ok THEN read_bytes(py_rpad(r, SizeOf(t)), t, count) ELSE r

\* A str is known here by its UTF-8; other bytes raise UnicodeDecodeError, a ValueError.
decode(r) == IF r.utf8 THEN r ELSE Throw(r)

PyStringFitsMutant(r, len) == r.pos + len <= Len(r.buf)
PyStringFits(r, len) == len # 0 /\ r.pos + len <= Len(r.buf)
py_rstring(r) ==
    LET l == py_take(r, "uint32", 1)
    IN  IF ~l.ok THEN l
        ELSE IF PyStringFits(l, Last(l.out)) THEN decode(StringAt(l, Last(l.out)))
        ELSE Throw(l)

\* double_sequence pads before the elements also when there are none.
py_read(r, m) ==
    LET c == py_take(r, "uint32", 1)
    IN  IF ~r.ok THEN r
        ELSE IF m.many = "one"
        THEN FoldLeft(LAMBDA s, t : IF t = "string" THEN py_rstring(s)
                                                    ELSE py_take(s, t, 1), r, m.elem)
        ELSE IF m.many = "array" THEN py_take(r, m.elem[1], m.n)
        ELSE IF c.ok THEN py_take(c, m.elem[1], Last(c.out)) ELSE c

py_serialize(type, val) ==
    FoldLeftDomain(LAMBDA b, i : py_write(b, type[i], val[i]), Header, type)
from_cdr(type, buf) == FoldLeft(py_read, NewReader(buf), type)
==============================================================================

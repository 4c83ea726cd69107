------------------------------- MODULE Messages -------------------------------
(***************************************************************************)
(* The message types that cross the wire, as sequences of members (see     *)
(* Cdr), and values for them.  A value's numbers are all different and     *)
(* every byte of it is below 128, where a string's UTF-8 is its bytes;     *)
(* what varies is the lengths of its strings and sequences, one length for *)
(* each member that has any.                                               *)
(***************************************************************************)
EXTENDS Cdr

CONSTANT Matrix         \* elements of CameraInfo's k, r and p

One(elem) == [many |-> "one", n |-> 1, elem |-> elem]
Array(t, n) == [many |-> "array", n |-> n, elem |-> <<t>>]
SeqOfElem(elem) == [many |-> "seq", n |-> 0, elem |-> elem]

Copies(t, n) == [i \in 1..n |-> t]

-----------------------------------------------------------------------------
(* Types both sides have a codec for.                                      *)

Time == <<"int32", "uint32">>
StdHeader == Time \o <<"string">>
Vector3 == Copies("float64", 3)
Quaternion == Copies("float64", 4)
RegionOfInterest == Copies("uint32", 4) \o <<"bool">>

Empty == << >>
String == <<One(<<"string">>)>>
PoseStamped == <<One(StdHeader), One(Vector3 \o Quaternion)>>
TransformStamped == <<One(StdHeader), One(<<"string">>), One(Vector3 \o Quaternion)>>

Image ==
    <<One(StdHeader), One(<<"uint32", "uint32", "string", "uint8", "uint32">>),
      SeqOfElem(<<"uint8">>)>>
CameraInfo ==
    <<One(StdHeader), One(<<"uint32", "uint32", "string">>), SeqOfElem(<<"float64">>),
      Array("float64", Matrix), Array("float64", Matrix), Array("float64", Matrix),
      One(<<"uint32", "uint32">> \o RegionOfInterest)>>

-----------------------------------------------------------------------------
(* Types only C++ has a codec for: replies of the parameter services, with *)
(* the header in front of every request and reply.                         *)

ServiceHeader == <<One(<<"uint64", "int64">>)>>

\* The names and the prefixes.
ListReply == ServiceHeader \o <<SeqOfElem(<<"string">>), SeqOfElem(<<"string">>)>>

\* For every parameter whether it was set, and the reason.
SetReply == ServiceHeader \o <<SeqOfElem(<<"bool", "string">>)>>

Both == {"Empty", "String", "PoseStamped", "TransformStamped", "Image", "CameraInfo"}
CppOnly == {"ListReply", "SetReply"}

TypeOf(name) ==
    CASE name = "Empty" -> Empty
      [] name = "String" -> String
      [] name = "PoseStamped" -> PoseStamped
      [] name = "TransformStamped" -> TransformStamped
      [] name = "Image" -> Image
      [] name = "CameraInfo" -> CameraInfo
      [] name = "ListReply" -> ListReply
      [] name = "SetReply" -> SetReply

-----------------------------------------------------------------------------
(* Values.                                                                 *)

Text(len) == [i \in 1..len |-> 97 + (i % 26)]
Scalar(t, k) ==
    CASE t = "bool" -> 1
      [] t = "uint8" -> k
      [] t \notin {"bool", "uint8"} -> 256 * k + (k + 1)

\* The members whose length varies.
Varied(type) ==
    {i \in DOMAIN type : type[i].many = "seq" \/ "string" \in ToSet(type[i].elem)}

\* Element j of member i; the strings of a sequence have different lengths.
Element(m, i, j, len) ==
    [k \in DOMAIN m.elem |->
        IF m.elem[k] = "string" THEN Text((len + j - 1) % (len + 2))
        ELSE Scalar(m.elem[k], (11 * i + 3 * j + k) % 127)]
Value(type, lens) ==
    [i \in DOMAIN type |->
        LET len == IF i \in DOMAIN lens THEN lens[i] ELSE 0
        IN  [j \in 1..(IF type[i].many = "seq" THEN len ELSE type[i].n) |->
                Element(type[i], i, j, len)]]

\* What a reader that returns this value has put out: a member's numbers and strings
\* in order, after the length of a sequence.
Flat(type, val) ==
    FlattenSeq([i \in DOMAIN type |->
        (IF type[i].many = "seq" THEN <<Len(val[i])>> ELSE << >>) \o FlattenSeq(val[i])])
==============================================================================

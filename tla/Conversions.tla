----------------------------- MODULE Conversions -----------------------------
(***************************************************************************)
(* The sequential parts, which keep no state between calls: a message on   *)
(* its way from one endpoint to another (Cdr, Messages, RawSerdata), the   *)
(* names endpoints are created under (Names) and the list_parameters       *)
(* service (ParameterList).  They share nothing, so that a behaviour is    *)
(* about one of them.                                                      *)
(***************************************************************************)
EXTENDS ParameterList, Messages, RawSerdata, Names

CONSTANTS
    Lens,           \* lengths of strings and sequences
    ShortLens,      \* those of the messages of which bytes are changed
    Garbage,        \* sequences of bytes that take the place of others
    MaxCut,         \* bound: bytes missing at the end of a payload
    FragmentSizes, Overlaps,
    Tokens,         \* tokens of names, each a sequence of pieces; one is empty
    MaxTokens,      \* bound: tokens of a name
    Namespaces      \* namespaces of the nodes, as sequences of tokens

ASSUME ConversionsAssumption ==
    /\ Matrix \in Nat \ {0} /\ Lens \subseteq 0..(Huge - 3) /\ ShortLens \subseteq Lens
    /\ (\A g \in Garbage : g \in Seq(0..255)) /\ MaxCut \in Nat
    /\ FragmentSizes \subseteq Nat \ {0} /\ Overlaps \subseteq Nat
    /\ << >> \in Tokens /\ MaxTokens \in Nat
    /\ \A t \in Tokens : t \in Seq(STRING) /\ "/" \notin ToSet(t)
    /\ \A ns \in Namespaces : ns \in Seq(Tokens) /\ ns # << << >> >>

Langs == {"cpp", "python"}
NotRead == [taken |-> FALSE]

VARIABLES
    stage,      \* of the message: "idle", "serialized", "written", "received"
    message,    \* [name |-> its type, lens |-> the lengths its value has]
    buffer,     \* its bytes where they are now
    whole,      \* how many it was serialized to
    fault,      \* "none", "cut" or "garbled"
    got,        \* what a subscription of each language read
    node,       \* [ns |-> namespace in tokens, fqn |-> name] or NoNode
    endpoints   \* created so far

wireVars == <<stage, message, buffer, whole, fault, got>>
nameVars == <<node, endpoints>>
vars == <<listVars, wireVars, nameVars>>

NoNode == [ns |-> << >>, fqn |-> << >>]

WireInit ==
    /\ stage = "idle" /\ message = [name |-> "Empty", lens |-> << >>] /\ buffer = << >>
    /\ whole = 0 /\ fault = "none" /\ got = [l \in Langs |-> NotRead]
NameInit == node = NoNode /\ endpoints = {}
Init == ListInit /\ WireInit /\ NameInit

-----------------------------------------------------------------------------
(* A message.                                                              *)

Codecs(name) == IF name \in Both THEN Langs ELSE {"cpp"}
Type == TypeOf(message.name)
Meant == Value(Type, message.lens)

\* Publisher::publish and Service serialize with CdrWriter, Message.serialize with
\* _CdrWriter.
Serialize(lang, name, lens) ==
    /\ stage = "idle" /\ stage' = "serialized" /\ lang \in Codecs(name)
    /\ message' = [name |-> name, lens |-> lens]
    /\ buffer' = LET type == TypeOf(name)
                 IN  IF lang = "cpp" THEN serialize(type, Value(type, lens))
                                     ELSE py_serialize(type, Value(type, lens))
    /\ whole' = Len(buffer')
    /\ UNCHANGED <<fault, got>>

\* pub_publish takes any bytes behind a header, and types are matched by name only: a
\* payload may lack the end of the message the reader expects, or hold other bytes.
Cut(k) ==
    /\ stage = "serialized" /\ fault = "none" /\ fault' = "cut" /\ k <= whole - 4
    /\ buffer' = SubSeq(buffer, 1, whole - k)
    /\ UNCHANGED <<stage, message, whole, got>>

Garble(i, g) ==
    /\ stage = "serialized" /\ fault = "none" /\ fault' = "garbled"
    /\ i \in 5..(whole + 1 - Len(g)) /\ ToSet(message.lens) \subseteq ShortLens
    /\ buffer' = [k \in 1..whole |-> IF k \in i..(i + Len(g) - 1) THEN g[k - i + 1]
                                    ELSE buffer[k]]
    /\ UNCHANGED <<stage, message, whole, got>>

check_cdr_payload == Len(buffer) >= 4 /\ buffer[1] = 0 /\ buffer[2] = 1

Write ==
    /\ stage = "serialized" /\ stage' = "written" /\ check_cdr_payload
    /\ buffer' = raw_from_ser_iov(<<buffer>>)
    /\ UNCHANGED <<message, whole, fault, got>>

\* A reader in the process gets the writer's sample, one elsewhere the fragments of it.
ReceiveLocally ==
    /\ stage = "written" /\ stage' = "received"
    /\ UNCHANGED <<message, buffer, whole, fault, got>>

Receive(size, overlap) ==
    /\ stage = "written" /\ stage' = "received" /\ fault = "none"
    /\ buffer' = raw_from_ser(Fragments(buffer, size, overlap), Len(buffer))
    /\ UNCHANGED <<message, whole, fault, got>>

Result(r) == [taken |-> TRUE, ok |-> r.ok, out |-> r.out, pos |-> r.pos,
              resized |-> r.resized, odd |-> r.odd, utf8 |-> r.utf8]

\* Reader::take hands the payload over, the padding included.
Take(lang) ==
    /\ stage = "received" /\ ~got[lang].taken /\ lang \in Codecs(message.name)
    /\ got' = [got EXCEPT ![lang] = Result(IF lang = "cpp" THEN deserialize(Type, buffer)
                                           ELSE from_cdr(Type, buffer))]
    /\ UNCHANGED <<stage, message, buffer, whole, fault>>

WireNext ==
    \/ \E lang \in Langs, name \in Both \cup CppOnly :
         \E lens \in [Varied(TypeOf(name)) -> Lens] : Serialize(lang, name, lens)
    \/ \E k \in 1..MaxCut : Cut(k)
    \/ \E i \in 5..whole, g \in Garbage : Garble(i, g)
    \/ Write \/ ReceiveLocally
    \/ \E size \in FragmentSizes, overlap \in Overlaps : Receive(size, overlap)
    \/ \E lang \in Langs : Take(lang)

-----------------------------------------------------------------------------
(* Names.                                                                  *)

\* Different names are spelled differently: "/" has no token, not an empty one, and a
\* relative name does not begin with an empty token.
NamesGiven ==
    {n \in [absolute : BOOLEAN, tokens : SeqOf(Tokens, MaxTokens)] :
        /\ n.tokens # << << >> >>
        /\ ~n.absolute /\ n.tokens # << >> => Head(n.tokens) # << >>}

Spell(absolute, tokens) ==
    IF tokens = << >> THEN (IF absolute THEN <<"/">> ELSE << >>)
    ELSE LET slashed == FlattenSeq([i \in DOMAIN tokens |-> <<"/">> \o tokens[i]])
         IN  IF absolute THEN slashed ELSE Tail(slashed)

\* Node's constructor, which checks namespace and name by joining them.
CreateNode(ns, name) ==
    /\ make_fq_node_name(Spell(TRUE, ns), name) # Error
    /\ node' = [ns |-> ns, fqn |-> make_fq_node_name(Spell(TRUE, ns), name)]
    /\ UNCHANGED endpoints

MessageNames == {"Name", "Other"}

\* An endpoint is what DDS knows of it, and what it was created for: role, name and type.
Add(role, name, type, topic, dds_type) ==
    /\ node # NoNode
    /\ topic # Error /\ dds_type # Error
    /\ endpoints' = endpoints \cup
         {[role |-> role, type |-> type, topic |-> topic, dds_type |-> dds_type,
           path |-> IF name.absolute THEN name.tokens ELSE node.ns \o name.tokens]}
    /\ UNCHANGED node

Expanded(name) ==
    expand_topic_name(Spell(name.absolute, name.tokens), Spell(TRUE, node.ns))

\* create_publisher and create_subscription
CreateTyped(name, type) ==
    Add("topic", name, type, ros_to_dds_topic_name(Expanded(name)),
        dds_name("pkg", "msg", <<type>>))

\* create_service and create_client: one endpoint for requests, one for replies.
CreateService(name, type) ==
    \/ Add("request", name, type, ros_to_dds_request_topic_name(Expanded(name)),
           dds_name("pkg", "srv", <<type, "_Request">>))
    \/ Add("reply", name, type, ros_to_dds_reply_topic_name(Expanded(name)),
           dds_name("pkg", "srv", <<type, "_Response">>))

\* pub_create and sub_create: the topic as it is given, the type in either spelling.
CreateRaw(name, type) ==
    \E spelling \in {<<"pkg", "/", "msg", "/", type>>, dds_name("pkg", "msg", <<type>>)} :
        Add("topic", name, type,
            ros_to_dds_topic_name(Spell(name.absolute, name.tokens)),
            dds_type_name(spelling))

NameNext ==
    \/ \E ns \in Namespaces, name \in Tokens : CreateNode(ns, name)
    \/ Cardinality(endpoints) < 2 /\ \E name \in NamesGiven, type \in MessageNames :
         CreateTyped(name, type) \/ CreateService(name, type) \/ CreateRaw(name, type)

-----------------------------------------------------------------------------
Next ==
    \/ stage = "idle" /\ node = NoNode /\ ListNext /\ UNCHANGED <<wireVars, nameVars>>
    \/ names = {} /\ ~served /\ node = NoNode /\ WireNext /\ UNCHANGED <<listVars, nameVars>>
    \/ names = {} /\ ~served /\ stage = "idle" /\ NameNext /\ UNCHANGED <<listVars, wireVars>>

Spec == Init /\ [][Next]_vars

-----------------------------------------------------------------------------
(* Properties.                                                             *)

\* "Byte for byte": a message serialized in C++ or in Python is read in either as the
\* value that was sent, in one piece or in overlapping fragments and with the padding
\* that raw_resize added behind it (CdrWriter, CdrReader, messages.py, raw_from_ser).
WireRoundTrip ==
    \A l \in Langs : got[l].taken /\ fault = "none" =>
        got[l].ok /\ got[l].out = Flat(Type, Meant)

\* A payload that lacks the end of its message is refused, unless the padding to the
\* next multiple of 4 makes up for what is missing (raw_resize and the readers' bounds).
\* It needs Lens without multiples of 256 other than 0: cut behind its first byte, the
\* length of such a sequence is read as 0.
TruncationNoticed ==
    \A l \in Langs : got[l].taken /\ fault = "cut" => (got[l].ok <=> whole <= Len(buffer))

\* Whatever the payload, the codec written in Python and the generated one in C++ read
\* the same message or both refuse it, with two exceptions: a message with a string that
\* is not UTF-8 is read in C++ and refused, in whichever member it is, in Python
\* (_CdrReader.string, read_string), and a bool that is neither 0 nor 1 is undefined in
\* C++.
ReadersAgree ==
    LET cpp == got["cpp"]
        py == got["python"]
    IN  cpp.taken /\ py.taken =>
            /\ py.ok = (cpp.ok /\ cpp.utf8)
            /\ py.ok /\ ~cpp.odd => cpp.out = py.out

\* No reader returns from beyond its buffer, the one in C++ never moves there, and no
\* sequence is resized to more elements than the buffer has bytes, whatever length a
\* payload claims (read_string, read_sequence, _take).
ReaderStaysInBuffer ==
    \A l \in Langs : got[l].taken =>
        /\ l = "cpp" \/ got[l].ok => got[l].pos <= Len(buffer)
        /\ got[l].resized <= Len(buffer)

\* Two endpoints have the same DDS topic and type exactly if they were created for the
\* same role, name and type, whether by relative or absolute name, in which namespace,
\* typed or through the bindings (names.cpp, node_impl.hpp, PubCreate_, SubCreate_).
EndpointsMeet ==
    \A e, f \in endpoints :
        (e.topic = f.topic /\ e.dds_type = f.dds_type)
            <=> (e.role = f.role /\ e.path = f.path /\ e.type = f.type)

\* The graph snapshot shows a topic or a service under the name it was created with,
\* a service once and never as a topic; the root name "/" is valid and not shown.
ShownAsNamed ==
    \A e \in endpoints : e.path # << >> =>
        Shown(e.topic) =
            IF e.role = "reply" \/ is_plumbing_topic(e.topic)
            THEN [as |-> "nothing", name |-> << >>]
            ELSE [as |-> IF e.role = "topic" THEN "topic" ELSE "service",
                  name |-> Spell(TRUE, e.path)]
==============================================================================

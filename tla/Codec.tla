------------------------------- MODULE Codec -------------------------------
(***************************************************************************)
(* The formats of objects and of RMI envelopes: the binary format, through *)
(* the buffer and the stream classes of bison_serialization.hpp, with and  *)
(* without a schema; JSON and YAML of bison.cpp; and the envelope.         *)
(*                                                                         *)
(* A field is a record of its type t, an alternative of field_base, and    *)
(* its value v; an object is a function from keys to fields.  Bytes are    *)
(* numbers, and a string or a name is a sequence of bytes.  A document of  *)
(* JSON or YAML is the tree that its parser sees: the text between them is *)
(* the business of nlohmann::json and libyaml.  A float is a number too,   *)
(* of which NonFinite have no notation, and Rounded gives what is left of  *)
(* it after seven digits.                                                  *)
(***************************************************************************)
EXTENDS Naturals, Sequences, SequencesExt, FiniteSets, TLC

CONSTANTS
    Objects,    \* the objects that are written
    Envelopes,  \* the envelopes that are written
    KeyName,    \* the names of the keys that are registered
    Lexeme,     \* the names that YAML reads as another scalar, and as which
    UserClasses,\* the classes of the registry, each with a parent and fields
    Factories,  \* the classes with a factory, and the fields of its product
    NonFinite,  \* inf and nan
    Rounded,    \* what seven digits leave of the floats that have more
    MaxTrips    \* bound on the conversions of one value

VARIABLES
    written,  \* what was written first
    item,     \* what it is now, with its form
    trips,    \* the conversions so far
    cut       \* whether the bytes were cut short

codecVars == <<written, item, trips, cut>>

\* An "object", "bytes", a document, an "envelope" or an "error".
form == item[1]
value == item[2]

CLASS == 1000
PARENT == 1001
NAMESPACE == 1002

Types == <<"empty", "hash", "key", "bool", "int", "float", "obj", "str", "vbool", "vint", "vfloat", "bytes">>
Tag(t) == (CHOOSE i \in DOMAIN Types : Types[i] = t) - 1
Field(t, v) == [t |-> t, v |-> v]
NullObject == Field("obj", <<>>)       \* every other object has a class
Anonymous == CLASS :> Field("key", 0)   \* what the constructor of dynamic leaves

\* resolveNamespace(), which every look-up of a field that is not there calls.
resolveNamespace(dyn) == dyn @@ (NAMESPACE :> Field("key", 0))

Good(v, p) == [ok |-> TRUE, v |-> v, p |-> p]
Bad == [ok |-> FALSE, v |-> <<>>, p |-> 0]
-----------------------------------------------------------------------------
(***************************************************************************)
(* The serializers.                                                        *)
(***************************************************************************)
\* write(T): big-endian.
Word(n) == <<n \div 16777216, (n \div 65536) % 256, (n \div 256) % 256, n % 256>>

\* Mutant of write_varint: lengths above 127 are cut to their low bits.
write_varint_byte(n) == <<n % 128>>

RECURSIVE write_varint(_)
write_varint(n) == IF n < 128 THEN <<n>> ELSE <<128 + (n % 128)>> \o write_varint(n \div 128)

\* write(vector) and write(string).
Counted(t, v) ==
    write_varint(Len(v)) \o FlattenSeq([i \in DOMAIN v |->
        CASE t \in {"str", "bytes"} -> <<v[i]>>
          [] t = "vbool" -> <<IF v[i] THEN 1 ELSE 0>>
          [] t \in {"vint", "vfloat"} -> Word(v[i])])

RECURSIVE SerializeField(_), Serialize(_)
SerializeField(f) ==
    <<Tag(f.t)>> \o
    CASE f.t = "empty" -> <<>>
      [] f.t \in {"hash", "key", "int", "float"} -> Word(f.v)
      [] f.t = "bool" -> <<IF f.v THEN 1 ELSE 0>>
      [] f.t = "obj" -> IF f = NullObject THEN <<0>> ELSE <<1>> \o Serialize(f.v)
      [] f.t \in {"str", "bytes", "vbool", "vint", "vfloat"} -> Counted(f.t, f.v)

\* fields_ is an ordered map.
InOrder(keys) ==
    [i \in 1 .. Cardinality(keys) |->
        CHOOSE k \in keys : Cardinality({j \in keys : j < k}) = i - 1]
Serialize(dyn) ==
    write_varint(Cardinality(DOMAIN dyn)) \o
    FlattenSeq([i \in 1 .. Cardinality(DOMAIN dyn) |->
        LET k == InOrder(DOMAIN dyn)[i] IN Word(k) \o SerializeField(dyn[k])])
-----------------------------------------------------------------------------
(***************************************************************************)
(* The deserializers, which read b from position p.  A buffer that is too  *)
(* short throws; a stream leaves zeros, but for a count, which throws.     *)
(***************************************************************************)
BufferTake(b, p, n) == IF p + n - 1 > Len(b) THEN Bad ELSE Good(SubSeq(b, p, p + n - 1), p + n)
StreamTake(b, p, n) ==
    Good([i \in 1 .. n |-> IF p + i - 1 <= Len(b) THEN b[p + i - 1] ELSE 0], p + n)
Take(src, b, p, n) == IF src = "buffer" THEN BufferTake(b, p, n) ELSE StreamTake(b, p, n)

\* read_varint(): at most ten bytes.
RECURSIVE read_varint(_, _, _)
read_varint(b, p, left) ==
    IF p > Len(b) \/ left = 0 THEN Bad
    ELSE IF b[p] < 128 THEN Good(b[p], p + 1)
    ELSE LET rest == read_varint(b, p + 1, left - 1)
         IN IF rest.ok THEN Good(b[p] - 128 + 128 * rest.v, rest.p) ELSE Bad

Number(w) == w[1] * 16777216 + w[2] * 65536 + w[3] * 256 + w[4]

\* A count, and that many elements.
TakeCounted(src, b, p, t) ==
    LET n == read_varint(b, p, 10)
        width == IF t \in {"vint", "vfloat"} THEN 4 ELSE 1
        all == Take(src, b, n.p, n.v * width)
    IN IF ~n.ok THEN Bad
       ELSE IF ~all.ok THEN Bad
       ELSE Good([i \in 1 .. n.v |->
                     CASE t \in {"str", "bytes"} -> all.v[i]
                       [] t = "vbool" -> all.v[i] # 0
                       [] t \in {"vint", "vfloat"} -> Number(SubSeq(all.v, 4 * i - 3, 4 * i))], all.p)

RECURSIVE ReadFields(_, _, _, _, _), ReadField(_, _, _)

\* dynamic::deserialize().
ReadDynamic(src, b, p) ==
    LET n == read_varint(b, p, 10)
    IN IF n.ok THEN ReadFields(src, b, n.p, n.v, Anonymous) ELSE Bad
ReadFields(src, b, p, n, dyn) ==
    LET key == Take(src, b, p, 4)
        f == ReadField(src, b, key.p)
    IN IF n = 0 THEN Good(dyn, p)
       ELSE IF ~key.ok THEN Bad
       ELSE IF ~f.ok THEN Bad
       ELSE ReadFields(src, b, f.p, n - 1, (Number(key.v) :> f.v) @@ dyn)

\* deserialize_instance(): what was read over the product of the factory; a
\* class that is not a key cannot be looked up.
Instance(dyn) ==
    LET klass == dyn[CLASS].v
    IN resolveNamespace(IF klass \in DOMAIN Factories THEN dyn @@ Factories[klass] ELSE dyn)
ReadInstance(src, b, p) ==
    LET r == ReadDynamic(src, b, p)
    IN IF ~r.ok THEN Bad
       ELSE IF r.v[CLASS].t = "key" THEN Good(Instance(r.v), r.p) ELSE Bad

\* field::deserialize().
Typed(r, t) == IF r.ok THEN Good(Field(t, r.v), r.p) ELSE Bad
ReadField(src, b, p) ==
    LET tag == Take(src, b, p, 1)
        t == Types[tag.v[1] + 1]
        word == Take(src, b, tag.p, 4)
        byte == Take(src, b, tag.p, 1)
    IN IF ~tag.ok THEN Bad
       ELSE IF tag.v[1] >= Len(Types) THEN Bad
       ELSE CASE t = "empty" -> Good(Field("empty", 0), tag.p)
              [] t \in {"hash", "key", "int", "float"} ->
                     IF word.ok THEN Good(Field(t, Number(word.v)), word.p) ELSE Bad
              [] t = "bool" -> IF byte.ok THEN Good(Field(t, byte.v[1] # 0), byte.p) ELSE Bad
              [] t = "obj" -> IF ~byte.ok THEN Bad
                              ELSE IF byte.v[1] = 0 THEN Good(NullObject, byte.p)
                              ELSE Typed(ReadInstance(src, b, byte.p), "obj")
              [] t \in {"str", "bytes", "vbool", "vint", "vfloat"} ->
                     Typed(TakeCounted(src, b, tag.p, t), t)

deserialize_buffer(b) == ReadDynamic("buffer", b, 1)
deserialize_stream(b) == ReadDynamic("stream", b, 1)
-----------------------------------------------------------------------------
(***************************************************************************)
(* The format with a schema: the values of the fields that the classes on  *)
(* the way up declare, without their keys.                                 *)
(***************************************************************************)
CLASS_ERROR == 900
CLASS_ENVELOPE == 901
ErrorFields == [code |-> 910, message |-> 911, details |-> 912]
EnvelopeFields == [version |-> 920, kind |-> 921, op |-> 922, request_id |-> 923, object_id |-> 924,
                   group |-> 925, payload |-> 926, error |-> 927, with_schema |-> 928, oneway |-> 929]

\* get_schemas().
get_schemas ==
    CLASS_ERROR :>
        [parent |-> 0, fields |->
            ErrorFields.code :> Field("key", 0) @@ ErrorFields.message :> Field("str", <<>>)
            @@ ErrorFields.details :> Field("obj", Anonymous)] @@
    CLASS_ENVELOPE :>
        [parent |-> 0, fields |->
            EnvelopeFields.version :> Field("int", 1)
            @@ [k \in {EnvelopeFields[n] : n \in {"kind", "op", "request_id", "object_id", "group"}} |->
                    Field("key", 0)]
            @@ [k \in {EnvelopeFields.payload, EnvelopeFields.error} |-> Field("bytes", <<>>)]
            @@ [k \in {EnvelopeFields.with_schema, EnvelopeFields.oneway} |-> Field("bool", FALSE)]]

Registry == UserClasses @@ get_schemas

\* The fields of a registered prototype: addClass() adds three.
Prototype(c) ==
    Registry[c].fields @@ CLASS :> Field("key", c) @@ PARENT :> Field("key", Registry[c].parent)
    @@ NAMESPACE :> Field("key", 0)

RECURSIVE Chain(_)
Chain(c) == IF c \in DOMAIN Registry THEN <<c>> \o Chain(Registry[c].parent) ELSE <<>>

\* The keys in the order in which they are written.
Layout(c) == FlattenSeq([i \in DOMAIN Chain(c) |->
                 [j \in 1 .. Cardinality(DOMAIN Prototype(Chain(c)[i])) |->
                     [of |-> Chain(c)[i], key |-> InOrder(DOMAIN Prototype(Chain(c)[i]))[j]]]])

serializeWithSchema(dyn) ==
    LET klass == dyn[CLASS].v
        slots == Layout(klass)
    IN Word(0) \o Word(klass) \o FlattenSeq([i \in DOMAIN slots |->
           SerializeField(IF slots[i].key \in DOMAIN dyn THEN dyn[slots[i].key]
                          ELSE Prototype(slots[i].of)[slots[i].key])])

RECURSIVE ReadSlots(_, _, _, _, _)
ReadSlots(src, b, p, slots, dyn) ==
    LET f == ReadField(src, b, p)
    IN IF slots = <<>> THEN Good(dyn, p)
       ELSE IF ~f.ok THEN Bad
       ELSE ReadSlots(src, b, f.p, Tail(slots), (Head(slots).key :> f.v) @@ dyn)
deserializeWithSchema(src, b) ==
    LET ns == Take(src, b, 1, 4)
        klass == Take(src, b, ns.p, 4)
    IN IF ~ns.ok THEN Bad
       ELSE IF ~klass.ok THEN Bad
       ELSE ReadSlots(src, b, klass.p, Layout(Number(klass.v)), Anonymous)
-----------------------------------------------------------------------------
(***************************************************************************)
(* The envelope: a payload and an error as bytes in an object with a       *)
(* schema.                                                                 *)
(***************************************************************************)
normalize_error_payload(error) == (CLASS :> Field("key", CLASS_ERROR)) @@ error

encode(e) ==
    LET F == EnvelopeFields
        payload == IF e.with_schema THEN serializeWithSchema(e.payload) ELSE Serialize(e.payload)
        env == CLASS :> Field("key", CLASS_ENVELOPE) @@ F.version :> Field("int", e.version)
               @@ F.kind :> Field("key", e.kind) @@ F.op :> Field("key", e.op)
               @@ F.request_id :> Field("key", e.request_id)
               @@ F.object_id :> Field("key", e.object_id) @@ F.group :> Field("key", e.group)
               @@ F.with_schema :> Field("bool", e.with_schema)
               @@ F.payload :> Field("bytes", payload) @@ F.oneway :> Field("bool", e.oneway)
    IN serializeWithSchema(
           IF ErrorFields.code \in DOMAIN e.error
           THEN (F.error :> Field("bytes", serializeWithSchema(normalize_error_payload(e.error)))) @@ env
           ELSE env)

decode(b) ==
    LET F == EnvelopeFields
        out == deserializeWithSchema("buffer", b)
        Of(k) == out.v[k].v
        payload == IF Of(F.with_schema) THEN deserializeWithSchema("buffer", Of(F.payload))
                   ELSE deserialize_buffer(Of(F.payload))
        error == IF Of(F.error) = <<>> THEN Good(Anonymous, 1)
                 ELSE deserializeWithSchema("buffer", Of(F.error))
    IN IF ~out.ok THEN Bad
       ELSE IF ~payload.ok \/ ~error.ok THEN Bad
       ELSE Good([version |-> Of(F.version), kind |-> Of(F.kind), op |-> Of(F.op),
                  request_id |-> Of(F.request_id), object_id |-> Of(F.object_id),
                  group |-> Of(F.group), with_schema |-> Of(F.with_schema),
                  oneway |-> Of(F.oneway), payload |-> payload.v, error |-> error.v], out.p)
-----------------------------------------------------------------------------
(***************************************************************************)
(* Names in documents.                                                     *)
(***************************************************************************)
Numeral(id) == <<35, id \div 1000, id % 1000>>   \* "#" and the number, abstracted
resolve_key(id) == IF id \in DOMAIN KeyName THEN KeyName[id] ELSE Numeral(id)

\* hash(): of a name that is registered, its key; of another one a key that
\* has no name.
HashOf(text) ==
    IF \E id \in DOMAIN KeyName : KeyName[id] = text
    THEN CHOOSE id \in DOMAIN KeyName : KeyName[id] = text
    ELSE 5000 + text[Len(text)]

is_zero_bookkeeping_field(k, f) == k \in {CLASS, NAMESPACE} /\ f = Field("key", 0)
Shown(dyn) == {k \in DOMAIN dyn : ~is_zero_bookkeeping_field(k, dyn[k])}
NameOf(dyn, text) == CHOOSE k \in Shown(dyn) : resolve_key(k) = text

HexDigit(d) == IF d < 10 THEN 48 + d ELSE 87 + d
Hex(bytes) == FlattenSeq([i \in DOMAIN bytes |-> <<HexDigit(bytes[i] \div 16), HexDigit(bytes[i] % 16)>>])

ElementType(t) == CASE t = "vbool" -> "bool" [] t = "vint" -> "int" [] t = "vfloat" -> "float"

\* from_json_array_field() and yaml_sequence_to_field(): a vector if the items
\* are of one kind, an object with numbers for keys otherwise.
Indexed(items) == [i \in 0 .. Len(items) - 1 |-> items[i + 1]] @@ Anonymous
Vector(items) ==
    LET types == {items[i].t : i \in DOMAIN items}
        Values == [i \in DOMAIN items |-> items[i].v]
    IN CASE types = {"bool"} -> Field("vbool", Values)
         [] types = {"int"} -> Field("vint", Values)
         [] types # {} /\ types # {"int"} /\ types \subseteq {"int", "float"} -> Field("vfloat", Values)
         [] OTHER -> Field("obj", Indexed(items))
-----------------------------------------------------------------------------
(***************************************************************************)
(* JSON.                                                                   *)
(***************************************************************************)
Json(j, v) == [j |-> j, v |-> v]

RECURSIVE field_to_json(_), dynamic_to_json(_)
\* A number that is not finite is dumped as null.
field_to_json(f) ==
    CASE f.t = "empty" \/ f = NullObject -> Json("null", 0)
      [] f.t \in {"bool", "int", "str"} -> Json(f.t, f.v)
      [] f.t = "float" -> IF f.v \in NonFinite THEN Json("null", 0) ELSE Json("float", f.v)
      [] f.t \in {"hash", "key"} -> Json("str", resolve_key(f.v))
      [] f.t = "bytes" -> Json("str", Hex(f.v))
      [] f.t \in {"vbool", "vint", "vfloat"} ->
             Json("array", [i \in DOMAIN f.v |-> field_to_json(Field(ElementType(f.t), f.v[i]))])
      [] f.t = "obj" /\ f # NullObject -> dynamic_to_json(f.v)
dynamic_to_json(dyn) ==
    Json("object", [text \in {resolve_key(k) : k \in Shown(dyn)} |->
                       field_to_json(dyn[NameOf(dyn, text)])])
to_json(dyn) == dynamic_to_json(dyn)

\* A value of the document; an array's items may be arrays and objects.
RECURSIVE json_to_field(_), from_json_object(_)
json_to_field(d) ==
    CASE d.j = "null" -> NullObject
      [] d.j \in {"bool", "int", "float", "str"} -> Field(d.j, d.v)
      [] d.j = "array" -> Vector([i \in DOMAIN d.v |-> json_to_field(d.v[i])])
      [] d.j = "object" -> Field("obj", from_json_object(d.v))
from_json_object(members) ==
    [k \in {HashOf(text) : text \in DOMAIN members} |->
        json_to_field(members[CHOOSE text \in DOMAIN members : HashOf(text) = k])]
    @@ (IF DOMAIN members = {} THEN Anonymous ELSE resolveNamespace(Anonymous))

\* The fresh object has a class and a namespace, to which a name cannot be
\* assigned.
RECURSIVE Rejected(_)
Rejected(d) ==
    CASE d.j = "object" -> \E text \in DOMAIN d.v :
                              \/ HashOf(text) \in {CLASS, NAMESPACE} /\ d.v[text].j # "array"
                              \/ Rejected(d.v[text])
      [] d.j = "array" -> \E i \in DOMAIN d.v : Rejected(d.v[i])
      [] OTHER -> FALSE
from_json(d) == IF Rejected(d) THEN Bad ELSE Good(from_json_object(d.v), 0)
-----------------------------------------------------------------------------
(***************************************************************************)
(* YAML: scalars are plain or quoted; what a plain one is read as is in    *)
(* its text, here as.                                                      *)
(***************************************************************************)
Scalar(plain, as) == [y |-> "scalar", plain |-> plain, as |-> as]
\* Mutant of Quoted: a string is written as a plain scalar.
Unquoted(text) ==
    Scalar(TRUE, IF text \in DOMAIN Lexeme THEN Lexeme[text] ELSE Field("str", text))

Quoted(text) == Scalar(FALSE, Field("str", text))

\* yaml_scalar_plain() of a name: libyaml quotes one that cannot be plain.
PlainScalar(text) ==
    IF text[1] = 35 THEN Quoted(text)
    ELSE Scalar(TRUE, IF text \in DOMAIN Lexeme THEN Lexeme[text] ELSE Field("str", text))

\* format_float_yaml(): "inf" gets a ".0" too, and is no number then.
format_float_yaml(x) ==
    IF x \in NonFinite THEN Field("str", <<105, x, 46, 48>>)
    ELSE Field("float", IF x \in DOMAIN Rounded THEN Rounded[x] ELSE x)

yaml_emit_sequence(scalars) == [y |-> "sequence", v |-> scalars]

RECURSIVE emit_field_yaml(_), emit_dynamic_yaml(_)
emit_field_yaml(f) ==
    CASE f.t = "empty" \/ f = NullObject -> Scalar(TRUE, NullObject)
      [] f.t \in {"bool", "int"} -> Scalar(TRUE, f)
      [] f.t = "float" -> Scalar(TRUE, format_float_yaml(f.v))
      [] f.t = "str" -> Quoted(f.v)
      [] f.t \in {"hash", "key"} -> PlainScalar(resolve_key(f.v))
      [] f.t = "bytes" -> Quoted(Hex(f.v))
      [] f.t \in {"vbool", "vint", "vfloat"} ->
             yaml_emit_sequence([i \in DOMAIN f.v |-> emit_field_yaml(Field(ElementType(f.t), f.v[i]))])
      [] f.t = "obj" /\ f # NullObject -> emit_dynamic_yaml(f.v)
emit_dynamic_yaml(dyn) ==
    [y |-> "mapping", v |-> [text \in {resolve_key(k) : k \in Shown(dyn)} |->
                                emit_field_yaml(dyn[NameOf(dyn, text)])]]
\* One document, whose root is a mapping.
to_yaml(dyn) == emit_dynamic_yaml(dyn)

RECURSIVE yaml_parse_value(_), yaml_parse_mapping(_)
yaml_scalar_to_field(d) == d.as
yaml_parse_value(d) ==
    CASE d.y = "scalar" -> yaml_scalar_to_field(d)
      [] d.y = "sequence" -> Vector([i \in DOMAIN d.v |-> yaml_parse_value(d.v[i])])
      [] d.y = "mapping" -> Field("obj", yaml_parse_mapping(d.v))
yaml_parse_mapping(members) ==
    [k \in {HashOf(text) : text \in DOMAIN members} |->
        yaml_parse_value(members[CHOOSE text \in DOMAIN members : HashOf(text) = k])]
    @@ (IF DOMAIN members = {} THEN Anonymous ELSE resolveNamespace(Anonymous))
from_yaml(d) == Good(yaml_parse_mapping(d.v), 0)
-----------------------------------------------------------------------------
(***************************************************************************)
(* A value goes through conversions, one after the other.                  *)
(***************************************************************************)
CodecInit ==
    /\ \/ written \in Objects /\ item = <<"object", written>>
       \/ written \in Envelopes /\ item = <<"envelope", written>>
    /\ trips = <<>>
    /\ cut = FALSE

Write(from, to, out) ==
    /\ form = from
    /\ Len(trips) < MaxTrips
    /\ item' = <<to, out>>
    /\ UNCHANGED <<written, trips, cut>>

Read(from, to, how, out) ==
    /\ form = from
    /\ item' = <<IF out.ok THEN to ELSE "error", out.v>>
    /\ trips' = Append(trips, how)
    /\ UNCHANGED <<written, cut>>

\* The bytes of one direction of a connection or of a file end early.
Cut(n) ==
    /\ form \in {"bytes", "schema", "frame"}
    /\ ~cut
    /\ trips = <<>>
    /\ n < Len(value)
    /\ item' = <<form, SubSeq(value, 1, n)>>
    /\ cut' = TRUE
    /\ UNCHANGED <<written, trips>>

CodecNext ==
    \/ Write("object", "bytes", Serialize(value))
    \/ Read("bytes", "object", "buffer", deserialize_buffer(value))
    \/ Read("bytes", "object", "stream", deserialize_stream(value))
    \/ form = "object" /\ value[CLASS].t = "key" /\ Write("object", "schema", serializeWithSchema(value))
    \/ \E src \in {"buffer", "stream"} :
          Read("schema", "object", "schema_" \o src, deserializeWithSchema(src, value))
    \/ Write("envelope", "frame", encode(value))
    \/ Read("frame", "envelope", "envelope", decode(value))
    \/ Write("object", "json", to_json(value))
    \/ Read("json", "object", "json", from_json(value))
    \/ Write("object", "yaml", to_yaml(value))
    \/ Read("yaml", "object", "yaml", from_yaml(value))
    \/ form \in {"bytes", "schema", "frame"} /\ \E n \in 0 .. Len(value) - 1 : Cut(n)
-----------------------------------------------------------------------------
\* What the fields of the error of an envelope are, once it was sent.
ErrorSeen(error) == IF ErrorFields.code \notin DOMAIN error THEN {}
                    ELSE {<<k, error[k]>> : k \in DOMAIN error \cap {ErrorFields.code, ErrorFields.message}}

\* An object without the bookkeeping that says nothing.
RECURSIVE Visible(_)
Visible(dyn) ==
    [k \in Shown(dyn) |-> IF dyn[k].t = "obj" /\ dyn[k] # NullObject
                          THEN Field("obj", Visible(dyn[k].v)) ELSE dyn[k]]

\* What was written in the binary format is read again whole: an object by
\* the buffer as by the stream classes; with a schema, each field that the
\* object itself has and one of its classes declares; an envelope with its
\* payload, and an error just when there was one.
BinaryLossless ==
    (Len(trips) = 1 /\ ~cut /\ form \in {"object", "envelope", "error"}) =>
        /\ trips[1] \in {"buffer", "stream"} => form = "object" /\ Visible(value) = Visible(written)
        /\ trips[1] \in {"schema_buffer", "schema_stream"} =>
              /\ form = "object"
              /\ \A k \in DOMAIN written \cap {s.key : s \in Range(Layout(written[CLASS].v))} :
                    value[k] = written[k]
        /\ trips[1] = "envelope" =>
              /\ form = "envelope"
              /\ [value EXCEPT !.error = 0, !.payload = 0] = [written EXCEPT !.error = 0, !.payload = 0]
              /\ \A k \in DOMAIN written.payload : value.payload[k] = written.payload[k]
              /\ ErrorSeen(value.error) = ErrorSeen(written.error)

\* Bytes that end early are never taken for a value by the buffer classes,
\* wherever they end, nor a frame for an envelope.
TruncationNoticed ==
    (cut /\ trips # <<>>) =>
        (trips[1] \in {"buffer", "schema_buffer", "envelope"} => form = "error")

\* The binary format, whole or cut short.
CodecLossless == BinaryLossless /\ TruncationNoticed

\* Every key of an object and of those below it has a name, and no class.
RECURSIVE Nameable(_)
Nameable(dyn) ==
    /\ dyn[CLASS] = Field("key", 0)
    /\ \A k \in Shown(dyn) :
          /\ k \in DOMAIN KeyName
          /\ dyn[k].t = "obj" /\ dyn[k] # NullObject => Nameable(dyn[k].v)
          /\ dyn[k].t = "vfloat" => \A i \in DOMAIN dyn[k].v : dyn[k].v[i] \notin NonFinite
\* And no float needs more than seven digits.
RECURSIVE Short(_)
Short(dyn) ==
    \A k \in DOMAIN dyn :
        /\ dyn[k].t = "float" => dyn[k].v \notin NonFinite \cup DOMAIN Rounded
        /\ dyn[k].t = "vfloat" => \A i \in DOMAIN dyn[k].v : dyn[k].v[i] \notin DOMAIN Rounded
        /\ dyn[k].t = "obj" /\ dyn[k] # NullObject => Short(dyn[k].v)

\* A document loses what its format cannot say (the type of an empty vector,
\* bytes, keys) the first time only: what was imported once stays as it is,
\* in either format, and the two formats agree on it.
TextSettles ==
    \A first, second \in {"json", "yaml"} :
        trips = <<first, second>> /\ form \in {"object", "error"}
        /\ Nameable(written) /\ Short(written) =>
            /\ form = "object"
            /\ first = "json" => value = from_json(to_json(written)).v
            /\ first = "yaml" => value = from_yaml(to_yaml(written)).v
=============================================================================

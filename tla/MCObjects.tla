----------------------------- MODULE MCObjects -----------------------------
(***************************************************************************)
(* Bindings, Codec and RmiC for TLC.  They share no state: a behaviour is  *)
(* of one of them, its part, while the others stay in an initial state,    *)
(* where none of their fair actions is enabled.                            *)
(***************************************************************************)
EXTENDS Bindings, Codec, RmiC

CONSTANT Parts  \* of "bindings", "codec" and "rmi"

VARIABLE part

(***************************************************************************)
(* Worlds a program may start from: an empty registry; a class 1 that has  *)
(* a method and two fields, one an object, and a class 2 that inherits     *)
(* from it; and an instance of class 2 besides.                            *)
(***************************************************************************)
EmptyWorld == [obj |-> [o \in Addresses |-> Free], reg |-> [c \in Classes |-> 0],
               hs |-> [h \in Handles |-> 0]]
TwoClasses == [EmptyWorld EXCEPT
    !.obj[1] = [NewDynamic(1) EXCEPT !.fields[100] = [t |-> "obj", v |-> 2], !.lookup[100] = "hit",
                                     !.fields[101] = [t |-> "int", v |-> 1], !.lookup[101] = "hit",
                                     !.methods["m"] = 100],
    !.obj[2] = NewDynamic(0),
    !.obj[3] = [NewDynamic(2) EXCEPT !.parent = 1],
    !.reg[1] = 1, !.reg[2] = 3]
WithInstance == [TwoClasses EXCEPT !.obj[4] = NewDynamic(2), !.hs[1] = 4]
NoneHeld == [x \in Holders |-> NoHandle]
MCStarts ==
    {[world |-> EmptyWorld, holder |-> NoneHeld, contexts |-> {100}],
     [world |-> TwoClasses, holder |-> NoneHeld, contexts |-> {100}],
     [world |-> WithInstance, contexts |-> {100},
      holder |-> [NoneHeld EXCEPT !["x"] = [h |-> 1, owned |-> TRUE]]]}

(***************************************************************************)
(* Values to write: a field of every type, at the limits of the notations  *)
(* (a name that YAML reads as a boolean, a float of nine digits, nan, a    *)
(* vector whose length takes two bytes); the same inside a nested object;  *)
(* objects of classes that are registered, derived, made by a factory and  *)
(* unknown.  "a", "b", "c" and "yes" are the names of 200 to 203.          *)
(***************************************************************************)
MCKeyName == (200 :> <<97>>) @@ (201 :> <<98>>) @@ (202 :> <<99>>) @@ (203 :> <<121, 101, 115>>)
             @@ (1000 :> <<95, 99>>) @@ (1002 :> <<95, 110>>)
MCLexeme == (<<121, 101, 115>> :> Field("bool", TRUE)) @@ (<<49>> :> Field("int", 1))
LongBytes == Field("bytes", [i \in 1 .. 130 |-> 7])
FieldValues ==
    {Field("empty", 0), Field("hash", 201), Field("key", 200), Field("key", 203), Field("key", 77),
     Field("bool", TRUE), Field("int", 300), Field("float", 3), Field("float", 8), Field("float", 9),
     NullObject, Field("obj", Anonymous), Field("str", <<>>), Field("str", <<49>>),
     Field("str", <<121, 101, 115>>), Field("vbool", <<TRUE, FALSE>>), Field("vint", <<1, 70000>>),
     Field("vint", <<>>), Field("vfloat", <<3, 4>>), Field("vfloat", <<3, 9>>),
     Field("bytes", <<1, 255>>), LongBytes}
PlainObjects == {(200 :> f) @@ Anonymous : f \in FieldValues}
NestedObjects == {(201 :> Field("obj", (200 :> f) @@ Anonymous)) @@ (202 :> Field("int", 2)) @@ Anonymous :
                     f \in FieldValues \ {LongBytes}}
OfClass(c) == CLASS :> Field("key", c)
ClassObjects ==
    {OfClass(301), (202 :> Field("bool", TRUE)) @@ OfClass(301),
     (200 :> Field("int", 5)) @@ (201 :> Field("str", <<97>>)) @@ OfClass(301),
     (200 :> Field("int", 9)) @@ OfClass(300),
     (200 :> Field("obj", (202 :> Field("int", 1)) @@ (201 :> Field("int", 3)) @@ OfClass(302))) @@ Anonymous,
     (5 :> Field("int", 1)) @@ Anonymous}
MCObjectValues == PlainObjects \cup NestedObjects \cup ClassObjects
MCUserClasses == (300 :> [parent |-> 0, fields |-> (200 :> Field("int", 1)) @@ (201 :> Field("str", <<>>))])
                 @@ (301 :> [parent |-> 300, fields |-> (202 :> Field("bool", FALSE))])
MCFactories == 302 :> ((201 :> Field("int", 0)) @@ OfClass(302))
MCRounded == 8 :> 10

\* Envelopes with and without a payload, an error and a schema.
EnvelopeOf(p, e, s) ==
    [version |-> 1, kind |-> 3, op |-> 4, request_id |-> 5, object_id |-> 6, group |-> 0,
     payload |-> p, error |-> e, with_schema |-> s, oneway |-> FALSE]
SomeError == (910 :> Field("key", 7)) @@ (911 :> Field("str", <<97>>)) @@ Anonymous
MCEnvelopes ==
    {EnvelopeOf(p, e, FALSE) : p \in {Anonymous, (200 :> Field("str", <<98>>)) @@ Anonymous},
                               e \in {Anonymous, SomeError}}
    \cup {EnvelopeOf((200 :> Field("int", 5)) @@ OfClass(300), e, TRUE) : e \in {Anonymous, SomeError}}
-----------------------------------------------------------------------------
\* A part that is not looked at is in one initial state.
ObjectsInit ==
    /\ part \in Parts
    /\ BindingsInit /\ (part # "bindings" => lang = "c" /\ world = EmptyWorld)
    /\ CodecInit /\ (part # "codec" => form = "object" /\ written = (200 :> Field("bool", TRUE)) @@ Anonymous)
    /\ RmiCInit /\ (part # "rmi" => cl.kind = "none" /\ rlang = "java")

\* The three next-state relations, an action at a time so that TLC reports each.
InBindings(A) == part = "bindings" /\ A /\ UNCHANGED <<part, codecVars, rmiCVars>>
InCodec(A) == part = "codec" /\ A /\ UNCHANGED <<part, bindingVars, rmiCVars>>
InRmi(A) == part = "rmi" /\ ~corrupt /\ A /\ UNCHANGED <<part, bindingVars, codecVars>>

BindingsSteps ==
    \/ InBindings(ClearRegistry)
    \/ \E x \in Holders :
        \/ \E c \in Classes \cup {0} : \/ InBindings(Create(x, c)) \/ InBindings(FindClassIn(x, c))
                                      \/ InBindings(AddClassFrom(x, c))
        \/ \E c \in Classes : InBindings(Instantiate(x, c))
        \/ InBindings(Release(x))
        \/ \E k \in Keys :
              \/ InBindings(SetVector(x, k)) \/ InBindings(SetNull(x, k))
              \/ InBindings(FieldAttributes(x, k))
              \/ \E flag \in BOOLEAN : InBindings(GetVector(x, k, flag)) \/ InBindings(Import(x, flag, k))
              \/ \E t \in FieldTypes : \/ InBindings(SetField(x, k, [t |-> t, v |-> 1]))
                                       \/ InBindings(GetField(x, k, t))
                                       \/ InBindings(AddFieldTo(x, k, [t |-> t, v |-> 1]))
        \/ \E m \in Methods \cup {CallFallback} : \/ InBindings(AddMethodTo(x, m))
                                                \/ InBindings(MethodAttributes(x, m))
    \/ \E x, y \in Holders :
        \/ InBindings(CloneTo(x, y)) \/ InBindings(CppCopy(x, y)) \/ InBindings(AddRef(x, y))
        \/ InBindings(Deserialize(x, y)) \/ InBindings(CppMove(x, y)) \/ InBindings(CppAssign(x, y))
        \/ \E k \in Keys :
              \/ InBindings(SetObject(x, k, y)) \/ InBindings(GetObject(x, y, k))
              \/ \E m \in Methods, attached \in BOOLEAN : InBindings(CallMethod(x, y, m, k, attached))

CodecSteps ==
    \/ InCodec(Write("object", "bytes", Serialize(value)))
    \/ InCodec(Read("bytes", "object", "buffer", deserialize_buffer(value)))
    \/ InCodec(Read("bytes", "object", "stream", deserialize_stream(value)))
    \/ InCodec(/\ form = "object" /\ value[CLASS].t = "key"
               /\ Write("object", "schema", serializeWithSchema(value)))
    \/ \E src \in {"buffer", "stream"} :
          InCodec(Read("schema", "object", "schema_" \o src, deserializeWithSchema(src, value)))
    \/ InCodec(Write("envelope", "frame", encode(value)))
    \/ InCodec(Read("frame", "envelope", "envelope", decode(value)))
    \/ InCodec(Write("object", "json", to_json(value)))
    \/ InCodec(Read("json", "object", "json", from_json(value)))
    \/ InCodec(Write("object", "yaml", to_yaml(value)))
    \/ InCodec(Read("yaml", "object", "yaml", from_yaml(value)))
    \/ InCodec(form \in {"bytes", "schema", "frame"} /\ \E n \in 0 .. Len(value) - 1 : Cut(n))

RmiSteps ==
    \/ \E t \in Callers :
          \/ InRmi(rmi_client_connect(t)) \/ InRmi(rmi_client_disconnect(t))
          \/ InRmi(rmi_client_release(t))
          \/ InRmi(rmi_client_describe(t)) \/ InRmi(rmi_client_instantiate(t))
          \/ InRmi(rmi_client_describe_async(t)) \/ InRmi(rmi_client_instantiate_async(t))
          \/ InRmi(ProxyCall(t)) \/ InRmi(FutureCall(t)) \/ InRmi(CallbackCall(t))
          \/ InRmi(CallEnds(t)) \/ InRmi(CallUnwinds(t)) \/ InRmi(FutureGot(t))
          \/ InRmi(FutureReleased(t)) \/ InRmi(CallTimesOut(t))
    \/ InRmi(\E r \in DOMAIN requests : Answer(r))
    \/ InRmi(PeerGone) \/ InRmi(WorkerExits)
    \/ InRmi(\E s \in subs : EventArrives(s)) \/ InRmi(\E c \in firing : EventHandled(c))

ObjectsNext == BindingsSteps \/ CodecSteps \/ RmiSteps

ObjectsSpec == ObjectsInit /\ [][ObjectsNext]_<<part, bindingVars, codecVars, rmiCVars>>

ObjectsFairSpec == ObjectsSpec /\ RmiCFairness
=============================================================================

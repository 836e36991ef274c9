------------------------------ MODULE Bindings ------------------------------
(***************************************************************************)
(* Programs over the C ABI of objects, in three languages: C, which holds  *)
(* handles itself; C++ with the wrapper class of bindings/cpp, which owns  *)
(* a handle and releases it; Java over bindings/android/jni, whose objects *)
(* carry the handle as a long until close().  Each action is one call of   *)
(* the program.  The wrappers turn an error code into an exception, so     *)
(* that a call that fails leaves the holder it would have filled empty.    *)
(***************************************************************************)
EXTENDS Wrappers, Functions

CONSTANTS
    Langs,      \* of "c", "cpp" and "java"
    Holders,    \* the program's variables
    FieldTypes, \* scalar field types; vectors have the type "vector"
    MaxCalls,   \* bound on the calls of a program
    Starts      \* the worlds a program may start from, with what it holds

VARIABLES
    lang,     \* the language of the program
    world,    \* the objects, the registry and the handles
    holder,   \* the handle of each variable, and whether it is to be released
    ret,      \* what the last call did: its error code and the object it was about
    calls,    \* how many calls were made
    shared,   \* objects that the program itself stored with bison_set_object()
    unowned,  \* handles of bison_find_class() that nobody is to release
    contexts  \* the closures and callbacks that the binding keeps for methods

bindingVars == <<lang, world, holder, ret, calls, shared, unowned, contexts>>

NoHandle == [h |-> 0, owned |-> FALSE]
Filled(x) == holder[x].h # 0
Target(x) == Dyn(world, holder[x].h)

BindingsInit ==
    /\ lang \in Langs
    /\ \E start \in Starts : world = start.world /\ holder = start.holder
                            /\ contexts = start.contexts
    /\ ret = [rc |-> "ok", on |-> 0]
    /\ calls = 0
    /\ shared = {}
    /\ unowned = {}

\* There is room for what a call may allocate.
Room ==
    /\ calls < MaxCalls
    /\ Cardinality({h \in Handles : world.hs[h] = 0}) >= 2
    /\ \A o \in Alive(world) : Cardinality(Under(world, o)) < Cardinality(FreeCells(world))

\* A call about object o ends with out, and x holds what it returns.
Returns(out, o, x) ==
    /\ world' = out.w
    /\ ret' = [rc |-> out.rc, on |-> o]
    /\ holder' = IF x = "none" \/ out.h = 0 THEN holder
                 ELSE [holder EXCEPT ![x] = [h |-> out.h, owned |-> TRUE]]
    /\ calls' = calls + 1
    /\ UNCHANGED <<lang, unowned>>

Plain(out, o) == Returns(out, o, "none") /\ UNCHANGED <<shared, contexts>>
New(out, o, x) == ~Filled(x) /\ Returns(out, o, x) /\ UNCHANGED <<shared, contexts>>

\* The entry point of the program's language.
InLang(c, cpp, java) == CASE lang = "c" -> c [] lang = "cpp" -> cpp [] lang = "java" -> java
-----------------------------------------------------------------------------
(***************************************************************************)
(* What every language does, through its own entry points.                 *)
(***************************************************************************)
Create(x, klass) ==
    Room /\ New(InLang(bison_create(world, klass), cpp_create(world, klass),
                       nativeCreate(world, klass)), 0, x)

Instantiate(x, klass) ==
    Room /\ New(InLang(bison_instantiate(world, klass), cpp_instantiate(world, klass),
                       nativeInstantiate(world, klass)), 0, x)

CloneTo(x, y) ==
    LET h == holder[y].h
    IN Filled(y) /\ Room /\ New(InLang(bison_clone(world, h), cpp_clone(world, h),
                                       nativeClone(world, h)), 0, x)

\* dynamic(const dynamic&).
CppCopy(x, y) ==
    Room /\ lang = "cpp" /\ Filled(y) /\ New(cpp_copy(world, holder[y].h), 0, x)

\* Java has no way to it.
AddRef(x, y) ==
    LET h == holder[y].h
    IN /\ Filled(y) /\ Room
       /\ lang # "java"
       /\ New(InLang(bison_add_ref(world, h), cpp_add_ref(world, h), world), 0, x)

SetField(x, k, val) ==
    LET h == holder[x].h
    IN Filled(x) /\ Room /\ Plain(
           InLang(bison_set(world, h, k, val), cpp_assign(world, h, k, val),
                  IF k \in Positions THEN nativeSetAt(world, h, k, val)
                                     ELSE nativeSet(world, h, k, val)), Target(x))

\* Only the C++ wrapper can be asked for a vector by index.
SetVector(x, k) ==
    LET h == holder[x].h
        val == [t |-> "vector", v |-> 0]
    IN /\ Filled(x) /\ Room
       /\ k \in Names \/ lang = "cpp"
       /\ Plain(InLang(bison_set_vector(world, h, k, val), cpp_assign_vector(world, h, k, val),
                       nativeSetVector(world, h, k, val)), Target(x))

\* A program that makes a circle of objects leaks it, and is left out.
SetObject(x, k, y) ==
    LET h == holder[x].h
        child == holder[y].h
    IN /\ Filled(x) /\ Filled(y) /\ Room
       /\ Target(x) \notin Under(world, Target(y))
       /\ Returns(InLang(bison_set_object(world, h, k, child),
                         cpp_assign_object(world, h, k, child),
                         nativeSetObject(world, h, k, child)), Target(x), "none")
       /\ shared' = shared \cup {Target(y)}
       /\ UNCHANGED contexts

SetNull(x, k) ==
    LET h == holder[x].h
    IN Filled(x) /\ Room /\ Plain(
           InLang(bison_set_object(world, h, k, 0), cpp_assign_null(world, h, k),
                  nativeSetObject(world, h, k, 0)), Target(x))

GetField(x, k, t) ==
    LET h == holder[x].h
    IN Filled(x) /\ Room /\ Plain(
           InLang(bison_get(world, h, k, t), cpp_as(world, h, k, t, TRUE),
                  IF k \in Positions THEN nativeGetAt(world, h, k, t)
                                     ELSE nativeGet(world, h, k, t)), Target(x))

GetVector(x, k, longer) ==
    LET h == holder[x].h
    IN /\ Filled(x) /\ Room
       /\ k \in Names \/ lang = "cpp"
       /\ Plain(InLang(bison_get_vector(world, h, k, "vector"),
                       cpp_as(world, h, k, "vector", longer),
                       nativeGetVector(world, h, k, longer)), Target(x))

GetObject(x, y, k) ==
    LET h == holder[y].h
    IN Filled(y) /\ Room /\ New(
           InLang(bison_get_object(world, h, k), cpp_as_object(world, h, k),
                  nativeGetObject(world, h, k)), Target(y), x)

AddFieldTo(x, k, val) ==
    LET h == holder[x].h
    IN Filled(x) /\ Room /\ Plain(
           InLang(bison_add_field(world, h, k, val), cpp_addField(world, h, k, val),
                  nativeAddField(world, h, k, val)), Target(x))

FieldAttributes(x, k) ==
    LET h == holder[x].h
    IN Filled(x) /\ Room /\ Plain(
           InLang(bison_get_field_attributes(world, h, k), cpp_field_attributes(world, h, k),
                  nativeGetAttributes(world, h, k)), Target(x))
MethodAttributes(x, m) ==
    LET h == holder[x].h
    IN Filled(x) /\ Room /\ Plain(
           InLang(bison_get_method_attributes(world, h, m), cpp_method_attributes(world, h, m),
                  nativeGetMethodAttributes(world, h, m)), Target(x))

\* A method of the call's number; a C program keeps its user data itself.
AddMethodTo(x, m) ==
    LET h == holder[x].h
        impl == calls + 1
        out == InLang(bison_add_method(world, h, m, impl), cpp_addMethod(world, h, m, impl),
                      nativeAddMethod(world, h, m, impl))
    IN /\ Filled(x) /\ Room
       /\ Returns(out, Target(x), "none")
       /\ contexts' = InLang(contexts \cup {impl}, cpp_closures(contexts, impl),
                             nativeContexts(contexts, impl, out.rc))
       /\ UNCHANGED shared

\* The method of the model sets a field of self.
CallMethod(x, y, m, k, attached) ==
    LET h == holder[y].h
    IN Filled(y) /\ Room /\ New(
           InLang(bison_call(world, h, m, h, {k}), cpp_call(world, h, m, {k}),
                  nativeCall(world, h, m, attached, {k})), Target(y), x)

Import(x, parses, k) ==
    LET val == [t |-> "int", v |-> 1]
    IN Room /\ New(InLang(bison_import(world, parses, k, val), cpp_from_text(world, parses, k, val),
                          nativeFromText(world, parses, k, val)), 0, x)
Deserialize(x, y) ==
    LET h == holder[y].h
    IN Filled(y) /\ Room /\ New(InLang(bison_deserialize(world, h), cpp_deserialize(world, h),
                                       nativeDeserialize(world, h)), 0, x)

\* A prototype is passed to addClass() once: a second call of one that is
\* registered changes its parent all the same, and may close a circle of
\* classes that the walk up never leaves.
AddClassFrom(x, parent) ==
    LET h == holder[x].h
    IN /\ Filled(x) /\ Room
       /\ Target(x) \notin Range(world.reg)
       /\ Plain(InLang(bison_add_class(world, h, parent), cpp_addClass(world, h, parent),
                       nativeAddClass(world, h, parent)), Target(x))

ClearRegistry ==
    Room /\ lang # "cpp" /\ Plain(InLang(bison_clear_registry(world), world, nativeClearRegistry(world)), 0)
-----------------------------------------------------------------------------
(***************************************************************************)
(* Ownership, which is each language's own.                                *)
(***************************************************************************)
\* What a call of this section leaves alone.
Owns(w, hs) ==
    /\ world' = w
    /\ holder' = hs
    /\ ret' = [rc |-> "ok", on |-> 0]
    /\ calls' = calls + 1
    /\ UNCHANGED <<lang, shared, contexts>>

\* bison_release(), which a C program does not call on a handle it does not
\* own; ~dynamic(); Dynamic.close().
Release(x) ==
    LET h == holder[x].h
        owned == holder[x].owned
    IN /\ Filled(x)
       /\ calls < MaxCalls
       /\ Owns(InLang(IF owned THEN bison_release(world, h).w ELSE world,
                      cpp_release(world, h, owned).w,
                      IF owned THEN nativeRelease(world, h).w ELSE world),
               [holder EXCEPT ![x] = NoHandle])
       /\ UNCHANGED unowned

\* dynamic(dynamic&&).
CppMove(x, y) ==
    /\ lang = "cpp"
    /\ Filled(y) /\ Room /\ ~Filled(x)
    /\ Owns(world, [holder EXCEPT ![x] = holder[y], ![y] = NoHandle])
    /\ UNCHANGED unowned

\* operator=(dynamic&&).
CppAssign(x, y) ==
    /\ lang = "cpp"
    /\ Filled(x) /\ Filled(y) /\ Room /\ x # y
    /\ Owns(cpp_release(world, holder[x].h, holder[x].owned).w,
            [holder EXCEPT ![x] = holder[y], ![y] = NoHandle])
    /\ UNCHANGED unowned

\* find_class(): C and Java hold what the header calls a non-owning handle;
\* the C++ wrapper holds a reference of its own.
FindClassIn(x, klass) ==
    LET found == bison_find_class(world, klass)
        out == InLang(found, cpp_find_class(world, klass), nativeFindClass(world, klass))
    IN /\ Room /\ ~Filled(x)
       /\ found.h # 0
       /\ Owns(out.w, [holder EXCEPT ![x] = [h |-> out.h, owned |-> lang = "cpp"]])
       /\ unowned' = unowned \cup {found.h}
-----------------------------------------------------------------------------
ObjectCall(x, y) ==
    \/ \E c \in Classes \cup {0} : Create(x, c) \/ FindClassIn(x, c) \/ AddClassFrom(x, c)
    \/ \E c \in Classes : Instantiate(x, c)
    \/ CloneTo(x, y) \/ CppCopy(x, y) \/ AddRef(x, y) \/ Deserialize(x, y) \/ CppMove(x, y) \/ CppAssign(x, y)
    \/ Release(x) \/ ClearRegistry
    \/ \E k \in Keys :
          \/ SetVector(x, k) \/ SetNull(x, k) \/ FieldAttributes(x, k)
          \/ \E longer \in BOOLEAN : GetVector(x, k, longer)
          \/ SetObject(x, k, y) \/ GetObject(x, y, k)
          \/ \E parses \in BOOLEAN : Import(x, parses, k)
          \/ \E t \in FieldTypes : \/ SetField(x, k, [t |-> t, v |-> 1]) \/ GetField(x, k, t)
                                   \/ AddFieldTo(x, k, [t |-> t, v |-> 1])
          \/ \E m \in Methods, attached \in BOOLEAN : CallMethod(x, y, m, k, attached)
    \/ \E m \in Methods \cup {CallFallback} : AddMethodTo(x, m) \/ MethodAttributes(x, m)

BindingsNext == \E x, y \in Holders : ObjectCall(x, y)
-----------------------------------------------------------------------------
\* The look-up cache of an object agrees with its fields, through copies,
\* inheritance, new classes and failed calls: a cached pointer is to a field
\* that is there, and a cached miss is of one that is not.
LookupCoherent ==
    \A o \in Alive(world) : \A k \in Keys :
        /\ world.obj[o].lookup[k] = "hit" => world.obj[o].fields[k] # Absent
        /\ world.obj[o].lookup[k] = "miss" => world.obj[o].fields[k] = Absent

\* No two fields share an object unless the program stored that object
\* itself: clones and inherited defaults are deep copies, so that a change of
\* one object never shows in another one or in a prototype.
NoHiddenSharing ==
    \A c \in Alive(world) \ shared :
        Cardinality({f \in Alive(world) \X Keys :
                        world.obj[f[1]].fields[f[2]] = [t |-> "obj", v |-> c]}) <= 1

\* Neither the cache nor what objects share goes wrong behind a program's back.
ObjectsCoherent == LookupCoherent /\ NoHiddenSharing

\* A handle of the ABI belongs to one variable of the program, whatever it was
\* copied, moved or assigned to, and a variable's handle has not been released;
\* only what bison_find_class() gave belongs to nobody.  A method that an
\* object has, its own or inherited, still has its closure behind it.
OwnershipHolds ==
    /\ \A h \in Handles \ unowned :
          world.hs[h] # 0 => Cardinality({x \in Holders : holder[x].h = h}) = 1
    /\ \A x \in Holders : Filled(x) => Target(x) \in Alive(world)
    /\ \A o \in Alive(world) : Range(world.obj[o].methods) \subseteq contexts \cup {0}

\* What a program sees of a field: its own value, or the one it would inherit.
Seen(w, o, k) ==
    LET p == Definer(w, w.obj[o].klass, Declaring(w, k))
    IN IF w.obj[o].fields[k] # Absent THEN w.obj[o].fields[k].t
       ELSE IF p = 0 \/ k \in Positions THEN "absent" ELSE w.obj[p].fields[k].t

\* A call that fails changes no field anybody can see, and a field that has a
\* type keeps it for as long as the object lives.
FailuresAndTypes ==
    [][\A o \in Alive(world) : world'.obj[o] # Free =>
           \A k \in Keys :
               /\ ret'.rc \in {"type", "duplicate", "not_found", "parse"} /\ ret'.on = o =>
                     \/ Seen(world', o, k) = Seen(world, o, k)
                     \/ Seen(world, o, k) = "absent" /\ Seen(world', o, k) = "empty"
               /\ world.obj[o].fields[k].t \notin {"absent", "empty"} =>
                     world'.obj[o].fields[k].t = world.obj[o].fields[k].t]_bindingVars
=============================================================================

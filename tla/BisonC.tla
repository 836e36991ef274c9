------------------------------- MODULE BisonC -------------------------------
(***************************************************************************)
(* The C ABI of bison_c.cpp over Dynamic: a bison_handle is an allocated   *)
(* shared_ptr, and every function gives a world, an error code and perhaps *)
(* a new handle.  The typed variants of one function (int, float, bool,    *)
(* string, key, vectors, by name and by index) differ only in the type of  *)
(* the value.  Functions that only format or copy out leave no trace here. *)
(***************************************************************************)
EXTENDS Dynamic, TLC

CONSTANT MaxHandles

Handles == 1 .. MaxHandles

Out(w, rc, h) == [w |-> w, rc |-> rc, h |-> h]
NullArgument(w) == Out(w, "null", 0)

\* dyn(h).
Dyn(w, h) == w.hs[h]

\* new sp_dyn(object).
NewHandle(w, o) ==
    LET h == Min({g \in Handles : w.hs[g] = 0}) IN Out([w EXCEPT !.hs[h] = o], "ok", h)
HandleTo(c) == NewHandle(c.w, c.o)
-----------------------------------------------------------------------------
bison_create(w, klass) ==
    HandleTo(Allocated(w, NewDynamic(klass)))

\* The class need not exist; with a factory, create_instance() makes the
\* object, an empty one of the class just the same.
bison_instantiate(w, klass) ==
    HandleTo(Allocated(w, Instantiated(klass)))

bison_add_ref(w, h) == IF h = 0 THEN NullArgument(w) ELSE NewHandle(w, Dyn(w, h))

bison_release(w, h) ==
    IF h = 0 THEN NullArgument(w) ELSE Out(Reclaimed([w EXCEPT !.hs[h] = 0]), "ok", 0)

bison_clone(w, h) ==
    IF h = 0 THEN NullArgument(w) ELSE HandleTo(Cloned(w, Dyn(w, h)))

\* bison_from_json() and bison_from_yaml(): a new tree, here one object with
\* one field, or no handle when the text does not parse.
bison_import(w, parses, k, val) ==
    IF ~parses THEN Out(w, "parse", 0)
    ELSE HandleTo(Allocated(w, AddField([obj |-> 1 :> NewDynamic(0)], 1, k, val).obj[1]))

\* bison_deserialize(): the fields of the object that was serialized, without
\* its methods.
bison_deserialize(w, h) ==
    LET c == Cloned(w, Dyn(w, h))
    IN NewHandle([c.w EXCEPT !.obj[c.o].methods = NewDynamic(0).methods], c.o)
-----------------------------------------------------------------------------
bison_add_class(w, h, parent) ==
    IF h = 0 THEN NullArgument(w)
    ELSE Out(AddClass(w, Dyn(w, h), parent),
             IF AddsClass(w, Dyn(w, h), parent) THEN "ok" ELSE "duplicate", 0)

\* A handle that shares the prototype, although the header calls it
\* non-owning and forbids to release it.
bison_find_class(w, klass) ==
    IF ~Registered(w, klass) THEN Out(w, "ok", 0) ELSE NewHandle(w, w.reg[klass])

bison_clear_registry(w) == Out(Reclaimed([w EXCEPT !.reg = [c \in Classes |-> 0]]), "ok", 0)

bison_get_field_attributes(w, h, k) ==
    IF h = 0 THEN NullArgument(w)
    ELSE LET f == FindField(w, Dyn(w, h), k)
         IN Out(f, IF f.obj[Dyn(w, h)].fields[k] = Absent THEN "not_found" ELSE "ok", 0)

bison_get_method_attributes(w, h, m) ==
    IF h = 0 THEN NullArgument(w)
    ELSE LET f == FindMethod(w, Dyn(w, h), m)
         IN Out(f, IF f.obj[Dyn(w, h)].methods[m] = 0 THEN "not_found" ELSE "ok", 0)
-----------------------------------------------------------------------------
\* bison_add_field_*().
bison_add_field(w, h, k, val) ==
    IF h = 0 THEN NullArgument(w)
    ELSE Out(AddField(w, Dyn(w, h), k, val),
             IF w.obj[Dyn(w, h)].fields[k] = Absent THEN "ok" ELSE "duplicate", 0)

\* (*dyn(h))[name] = value.
Assigned(w, o, k, val) ==
    IF Assignable(w.obj[o].fields[k], val)
    THEN Out(Reclaimed([w EXCEPT !.obj[o].fields[k] = val]), "ok", 0)
    ELSE Out(w, "type", 0)
SetValue(w, h, k, val) == Assigned(Subscript(w, Dyn(w, h), k), Dyn(w, h), k, val)

\* bison_set_int() ... bison_set_key(), and by index.
bison_set(w, h, k, val) == IF h = 0 THEN NullArgument(w) ELSE SetValue(w, h, k, val)

\* bison_set_vector_*().
bison_set_vector(w, h, k, val) == IF h = 0 THEN NullArgument(w) ELSE SetValue(w, h, k, val)

\* bison_set_object(): the caller's object itself is stored, or null.
bison_set_object(w, h, k, child) ==
    IF h = 0 THEN NullArgument(w)
    ELSE SetValue(w, h, k, IF child = 0 THEN Null ELSE [t |-> "obj", v |-> Dyn(w, child)])

\* (*dyn(h))[name].as<T>(): reading an absent field creates it.
AsGot(w, o, k, t) == Out(w, IF w.obj[o].fields[k].t = t THEN "ok" ELSE "type", 0)
GetValue(w, h, k, t) ==
    AsGot(AsType(Subscript(w, Dyn(w, h), k), Dyn(w, h), k, t), Dyn(w, h), k, t)

bison_get(w, h, k, t) == IF h = 0 THEN NullArgument(w) ELSE GetValue(w, h, k, t)
bison_get_vector(w, h, k, t) == IF h = 0 THEN NullArgument(w) ELSE GetValue(w, h, k, t)

\* bison_get_object(): a new handle to the object, none to a null one.
HandleOf(got, o, k) ==
    LET c == got.w.obj[o].fields[k].v
    IN IF got.rc = "ok" /\ c # 0 THEN NewHandle(got.w, c) ELSE got
bison_get_object(w, h, k) ==
    IF h = 0 THEN NullArgument(w) ELSE HandleOf(GetValue(w, h, k, "obj"), Dyn(w, h), k)

bison_size(w, h) == IF h = 0 THEN 0 ELSE Size(w, Dyn(w, h))

bison_add_method(w, h, m, impl) ==
    IF h = 0 THEN NullArgument(w)
    ELSE Out(AddMethod(w, Dyn(w, h), m, impl),
             IF w.obj[Dyn(w, h)].methods[m] = 0 THEN "ok" ELSE "duplicate", 0)

\* bison_call(): the method, or the fallback.  The callback writes to self and
\* to a result object, which is moved out to the caller; sets are the fields
\* of self that it sets.
CallbackRun(call, h, sets) ==
    LET Set(k, acc) == SetValue(acc, h, k, [t |-> "int", v |-> 1]).w
    IN IF call.none THEN Out(call.w, "not_found", 0)
       ELSE HandleTo(Allocated(FoldSet(Set, call.w, sets), NewDynamic(0)))
bison_call(w, h, m, params, sets) ==
    IF h = 0 \/ params = 0 THEN NullArgument(w) ELSE CallbackRun(Call(w, Dyn(w, h), m), h, sets)
=============================================================================

------------------------------ MODULE Wrappers ------------------------------
(***************************************************************************)
(* The language bindings over the C ABI: the C++ classes dynamic and       *)
(* field_ref of bindings/cpp, as cpp_..., and the JNI functions of         *)
(* bindings/android, as native....  Like those of BisonC, each gives       *)
(* the world it leaves, how it ended and the handle it returned; an error  *)
(* code of the ABI ends as an exception of that code, without a handle.    *)
(* One operator stands for the overloads or functions that differ only in  *)
(* the type of the value.  A borrowed handle is not the caller's to        *)
(* release.                                                                *)
(***************************************************************************)
EXTENDS BisonC

\* detail::check().
check(out) == IF out.rc = "ok" THEN out ELSE [out EXCEPT !.h = 0]

\* throw_bison_exception().
Thrown(out) == IF out.rc = "ok" THEN out ELSE [out EXCEPT !.h = 0]

\* What returns false where another code throws.
FalseIfDuplicate(out) == IF out.rc = "duplicate" THEN [out EXCEPT !.rc = "false"] ELSE check(out)

Refused(w) == Out(w, "logic", 0)

\* A first call for the length, and a second one for the content when there
\* is any; the first one may have created the field.
ProbeThenFetch(Get(_), w, longer) ==
    LET probe == Get(w) IN IF probe.rc = "ok" /\ longer THEN Get(probe.w) ELSE probe
-----------------------------------------------------------------------------
(***************************************************************************)
(* C++.                                                                    *)
(***************************************************************************)
cpp_create(w, klass) == bison_create(w, klass)
cpp_copy(w, h) == check(bison_clone(w, h))
cpp_clone(w, h) == check(bison_clone(w, h))
\* Mutant of cpp_add_ref: the handle itself, not a new one.
cpp_add_ref_alias(w, h) == Out(w, "ok", h)

cpp_add_ref(w, h) == check(bison_add_ref(w, h))
cpp_release(w, h, owned) == IF owned /\ h # 0 THEN bison_release(w, h) ELSE Out(w, "ok", 0)

cpp_assign(w, h, k, val) == check(bison_set(w, h, k, val))
cpp_assign_null(w, h, k) == check(bison_set_object(w, h, k, 0))
cpp_assign_object(w, h, k, child) == check(bison_set_object(w, h, k, child))

\* A field_ref by index refuses vectors.
cpp_assign_vector(w, h, k, val) ==
    IF k \in Positions THEN Refused(w) ELSE check(bison_set_vector(w, h, k, val))

\* as<T>().
cpp_as(w, h, k, t, longer) ==
    LET Get(v) == IF t = "vector" THEN bison_get_vector(v, h, k, t) ELSE bison_get(v, h, k, t)
    IN IF t = "vector" /\ k \in Positions THEN Refused(w)
       ELSE check(ProbeThenFetch(Get, w, longer /\ t \in {"vector", "str"}))
cpp_as_object(w, h, k) == check(bison_get_object(w, h, k))

cpp_addField(w, h, k, val) == FalseIfDuplicate(bison_add_field(w, h, k, val))
cpp_field_attributes(w, h, k) == check(bison_get_field_attributes(w, h, k))
cpp_method_attributes(w, h, m) == check(bison_get_method_attributes(w, h, m))

\* register_method_fn(): the closure is kept for good, before the method is
\* known to be accepted.
cpp_closures(kept, impl) == kept \cup {impl}
cpp_addMethod(w, h, m, impl) == check(bison_add_method(w, h, m, impl))

\* method_trampoline(): three borrowed views, whose destructors release
\* nothing, around a function whose exceptions stop here.
cpp_trampoline(called, views) ==
    LET Leave(h, acc) == cpp_release(acc, h, FALSE).w
    IN IF called.rc = "ok" THEN [called EXCEPT !.w = FoldSet(Leave, called.w, views)] ELSE called
cpp_call(w, h, m, sets) == check(cpp_trampoline(bison_call(w, h, m, h, sets), {h}))

cpp_deserialize(w, h) == check(bison_deserialize(w, h))
cpp_from_text(w, parses, k, val) == check(bison_import(w, parses, k, val))
cpp_addClass(w, h, parent) == FalseIfDuplicate(bison_add_class(w, h, parent))

\* find_class(): a reference of its own to what was found; the handle that was
\* found is not released.
cpp_find_class(w, klass) ==
    LET found == bison_find_class(w, klass)
    IN IF found.h = 0 THEN found ELSE check(bison_add_ref(found.w, found.h))
cpp_instantiate(w, klass) == bison_instantiate(w, klass)
-----------------------------------------------------------------------------
(***************************************************************************)
(* Java.                                                                   *)
(***************************************************************************)
nativeCreate(w, klass) == bison_create(w, klass)
nativeFromText(w, parses, k, val) == Thrown(bison_import(w, parses, k, val))
nativeDeserialize(w, h) == Thrown(bison_deserialize(w, h))
nativeClone(w, h) == bison_clone(w, h)
nativeRelease(w, h) == bison_release(w, h)

nativeSet(w, h, k, val) == Thrown(bison_set(w, h, k, val))
nativeSetAt(w, h, k, val) == Thrown(bison_set(w, h, k, val))
nativeSetObject(w, h, k, child) == Thrown(bison_set_object(w, h, k, child))
nativeSetVector(w, h, k, val) == Thrown(bison_set_vector(w, h, k, val))

nativeGet(w, h, k, t) ==
    Thrown(ProbeThenFetch(LAMBDA v : bison_get(v, h, k, t), w, t = "str"))
nativeGetAt(w, h, k, t) ==
    Thrown(ProbeThenFetch(LAMBDA v : bison_get(v, h, k, t), w, t = "str"))
nativeGetObject(w, h, k) == Thrown(bison_get_object(w, h, k))

\* read_vector().
read_vector(w, h, k, longer) ==
    ProbeThenFetch(LAMBDA v : bison_get_vector(v, h, k, "vector"), w, longer)
nativeGetVector(w, h, k, longer) == Thrown(read_vector(w, h, k, longer))

nativeAddField(w, h, k, val) == Thrown(bison_add_field(w, h, k, val))
nativeGetAttributes(w, h, k) == Thrown(bison_get_field_attributes(w, h, k))
nativeGetMethodAttributes(w, h, m) == Thrown(bison_get_method_attributes(w, h, m))

\* The global reference to the callback is dropped when the method is refused.
nativeContexts(kept, impl, rc) == IF rc = "ok" THEN kept \cup {impl} ELSE kept
nativeAddMethod(w, h, m, impl) == Thrown(bison_add_method(w, h, m, impl))

\* method_trampoline(): without an environment the callback is not run; what
\* it throws is logged and dropped.
nativeTrampoline(attached, sets) == IF attached THEN sets ELSE {}
nativeCall(w, h, m, attached, sets) ==
    Thrown(bison_call(w, h, m, h, nativeTrampoline(attached, sets)))

nativeAddClass(w, h, parent) == Thrown(bison_add_class(w, h, parent))
nativeFindClass(w, klass) == bison_find_class(w, klass)
nativeInstantiate(w, klass) == bison_instantiate(w, klass)
nativeClearRegistry(w) == bison_clear_registry(w)
=============================================================================

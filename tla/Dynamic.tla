------------------------------ MODULE Dynamic ------------------------------
(***************************************************************************)
(* bdg::bison::dynamic: objects that are maps of typed fields and methods, *)
(* with a cache of field look-ups, over a registry of class prototypes     *)
(* from which fields and methods are inherited lazily.                     *)
(*                                                                         *)
(* A world is a record [obj, reg, hs]: the objects by address, the         *)
(* registry of one namespace from class names to addresses, and the        *)
(* handles of the C ABI (see BisonC).  Each operator gives the world that  *)
(* the function leaves.  A value has a type t and a content v; what an     *)
(* object points to is alive as long as something points to it.            *)
(***************************************************************************)
EXTENDS Naturals, FiniteSets, FiniteSetsExt

CONSTANTS
    Names,      \* named field keys
    Positions,  \* numeric field keys, 0 .. n-1
    Classes,    \* class names; 0 is no class
    Methods,    \* method names
    MaxObjs     \* bound on the objects alive at one time

Keys == Names \cup Positions
Addresses == 1 .. MaxObjs
CallFallback == "__callFallback"

Absent == [t |-> "absent", v |-> 0]   \* the key is not in fields_
Empty == [t |-> "empty", v |-> 0]     \* std::monostate
Null == [t |-> "obj", v |-> 0]        \* a null dynamic_ptr
Free == [klass |-> "free"]

\* dynamic::dynamic(klass).
NewDynamic(klass) ==
    [klass |-> klass, parent |-> 0, fields |-> [k \in Keys |-> Absent],
     lookup |-> [k \in Keys |-> "unknown"],
     methods |-> [m \in Methods \cup {CallFallback} |-> 0]]

Alive(w) == {o \in Addresses : w.obj[o] # Free}
FreeCells(w) == Addresses \ Alive(w)
Children(w, o) == {w.obj[o].fields[k].v : k \in {j \in Keys : w.obj[o].fields[j].t = "obj"}} \ {0}

\* The objects under o, itself included; a dynamic_ptr cycle is excluded by
\* the callers (it would keep itself alive for good).
RECURSIVE Under(_, _)
Under(w, o) == {o} \cup UNION {Under(w, c) : c \in Children(w, o)}

\* create_instance() and instantiate(): a factory makes an object of the class
\* too, and a class that is not there an object without prototype.
Instantiated(klass) == NewDynamic(klass)

\* What the last shared_ptr to an object releases with it.
Reclaimed(w) ==
    LET roots == (Range(w.reg) \cup Range(w.hs)) \ {0}
        live == UNION {Under(w, o) : o \in roots}
    IN [w EXCEPT !.obj = [o \in Addresses |-> IF o \in live THEN w.obj[o] ELSE Free]]

\* A new object in a free cell.
Allocated(w, dyn) == LET o == Min(FreeCells(w)) IN [w |-> [w EXCEPT !.obj[o] = dyn], o |-> o]
-----------------------------------------------------------------------------
(***************************************************************************)
(* Copies: the copy constructor, clone_into(), clone_ptr() and clone() all *)
(* copy fields, methods and user data, clone every object below, and start *)
(* with an empty look-up cache.                                            *)
(***************************************************************************)
RECURSIVE Cloned(_, _)
Cloned(w, o) ==
    LET bare == Allocated(w, [w.obj[o] EXCEPT !.lookup = NewDynamic(0).lookup])
        CloneField(k, acc) ==
            IF acc.obj[bare.o].fields[k].t # "obj" \/ acc.obj[bare.o].fields[k].v = 0 THEN acc
            ELSE LET c == Cloned(acc, acc.obj[bare.o].fields[k].v)
                 IN [c.w EXCEPT !.obj[bare.o].fields[k].v = c.o]
    IN [w |-> FoldSet(CloneField, bare.w, Keys), o |-> bare.o]

\* Mutant of ClonedValue: an inherited object is shared with the prototype.
ClonedValueShared(w, val) == [w |-> w, val |-> val]

\* A field's value as another object gets it: objects are cloned.
ReferenceTo(c) == [w |-> c.w, val |-> [t |-> "obj", v |-> c.o]]
ClonedValue(w, val) ==
    IF val.t = "obj" /\ val.v # 0 THEN ReferenceTo(Cloned(w, val.v)) ELSE [w |-> w, val |-> val]
-----------------------------------------------------------------------------
(***************************************************************************)
(* Inheritance: the prototypes met on the way up from a class.             *)
(***************************************************************************)
\* The class n steps above c, 0 past the end.
Ancestor(w, c) ==
    LET up[n \in 0 .. Cardinality(Classes) + 1] ==
            IF n = 0 THEN c
            ELSE IF up[n - 1] \in Classes /\ w.reg[up[n - 1]] # 0 THEN w.obj[w.reg[up[n - 1]]].parent
            ELSE 0
    IN up

Registered(w, c) == c \in Classes /\ w.reg[c] # 0

\* The prototypes that declare a field, and those that declare a method.
Declaring(w, k) == {p \in Range(w.reg) \ {0} : w.obj[p].fields[k] # Absent}
Implementing(w, m) == {p \in Range(w.reg) \ {0} : w.obj[p].methods[m] # 0}

\* The first of these prototypes on the walk, 0 if none is.
Definer(w, c, these) ==
    LET at == {n \in 0 .. Cardinality(Classes) :
                  LET a == Ancestor(w, c)[n] IN Registered(w, a) /\ w.reg[a] \in these}
    IN IF at = {} THEN 0 ELSE w.reg[Ancestor(w, c)[Min(at)]]

\* The value of a prototype p is copied into the object; a miss is cached too.
CopiedIn(copy, o, k) ==
    [copy.w EXCEPT !.obj[o].fields[k] = copy.val, !.obj[o].lookup[k] = "hit"]
InheritField(w, o, k, p) ==
    IF p = 0 THEN [w EXCEPT !.obj[o].lookup[k] = "miss"]
    ELSE CopiedIn(ClonedValue(w, w.obj[p].fields[k]), o, k)

\* findField(): the cache, the object's own fields, then the prototypes.
FindField(w, o, k) ==
    IF w.obj[o].lookup[k] # "unknown" THEN w
    ELSE IF w.obj[o].fields[k] # Absent THEN [w EXCEPT !.obj[o].lookup[k] = "hit"]
    ELSE InheritField(w, o, k, Definer(w, w.obj[o].klass, Declaring(w, k)))

\* operator[]: a field that is found, or a new empty one.  A numeric key is
\* never inherited.
FoundOrNew(w, o, k) ==
    IF w.obj[o].fields[k] # Absent THEN [w EXCEPT !.obj[o].lookup[k] = "hit"]
    ELSE [w EXCEPT !.obj[o].fields[k] = Empty, !.obj[o].lookup[k] = "hit"]
Subscript(w, o, k) == FoundOrNew(IF k \in Positions THEN w ELSE FindField(w, o, k), o, k)

\* findMethod(): own methods, then the prototypes', which are shared.
FindMethod(w, o, m) ==
    LET p == Definer(w, w.obj[o].klass, Implementing(w, m))
    IN IF w.obj[o].methods[m] # 0 \/ p = 0 THEN w
       ELSE [w EXCEPT !.obj[o].methods[m] = w.obj[p].methods[m]]

\* call(): the method of that name, else the fallback, which are looked up and
\* so inherited; none says that there is neither.
Call(w, o, m) ==
    LET named == FindMethod(w, o, m)
        called == IF named.obj[o].methods[m] # 0 THEN named
                  ELSE FindMethod(named, o, CallFallback)
    IN [w |-> called,
        none |-> called.obj[o].methods[m] = 0 /\ called.obj[o].methods[CallFallback] = 0]
-----------------------------------------------------------------------------
(***************************************************************************)
(* Fields.                                                                 *)
(***************************************************************************)
\* Mutant of Assignable: a value of another type replaces the field.
AssignableAlways(old, val) == TRUE

\* field::operator=: an empty field takes any type, another only its own.
Assignable(old, val) == old.t = "empty" \/ old.t = val.t

\* field::as<T>() on what operator[] gives: an empty field becomes T{}, which
\* for a dynamic_ptr is a new object.
AsType(w, o, k, t) ==
    IF w.obj[o].fields[k] # Empty THEN w
    ELSE IF t # "obj" THEN [w EXCEPT !.obj[o].fields[k] = [t |-> t, v |-> 0]]
    ELSE LET c == Allocated(w, NewDynamic(0))
         IN [c.w EXCEPT !.obj[o].fields[k] = [t |-> "obj", v |-> c.o]]

\* addField(): only a key that the object does not have itself.
AddField(w, o, k, val) ==
    IF w.obj[o].fields[k] # Absent THEN w
    ELSE [w EXCEPT !.obj[o].fields[k] = val, !.obj[o].lookup[k] = "hit"]

\* addMethod().
AddMethod(w, o, m, impl) ==
    IF w.obj[o].methods[m] # 0 THEN w ELSE [w EXCEPT !.obj[o].methods[m] = impl]

\* size(): one past the last numeric key.
Size(w, o) ==
    LET at == {k \in Positions : w.obj[o].fields[k] # Absent}
    IN IF at = {} THEN 0 ELSE Max(at) + 1
-----------------------------------------------------------------------------
(***************************************************************************)
(* The registry.                                                           *)
(***************************************************************************)
\* addClass(): the prototype gets its parent before the walk up from that
\* parent decides whether the class closes a circle or exists already.
Circular(w, o, parent) ==
    \E n \in 0 .. Cardinality(Classes) : Ancestor(w, parent)[n] = w.obj[o].klass
AddClass(w, o, parent) ==
    LET linked == [w EXCEPT !.obj[o].parent = parent]
        name == w.obj[o].klass
    IN IF Circular(linked, o, parent) \/ Registered(w, name) THEN linked
       ELSE [linked EXCEPT !.reg[name] = o]

\* Whether addClass() returns true.
AddsClass(w, o, parent) ==
    LET linked == [w EXCEPT !.obj[o].parent = parent]
    IN ~Circular(linked, o, parent) /\ ~Registered(w, w.obj[o].klass)
=============================================================================

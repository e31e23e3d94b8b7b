----------------------------- MODULE ExceptionPtr ------------------------------
(***************************************************************************)
(* excptptr.cpp: an exception_ptr is a shared_ptr to a record of an        *)
(* exception, in a block of memory that holds the reference count, the     *)
(* record and a copy of the exception object.  Allocating the block may    *)
(* fail and copying the object may throw, whose exception is then copied   *)
(* instead; two blocks of the library never fail.  Every thread has one    *)
(* exception_ptr and may copy another thread's; the count is atomic, what  *)
(* follows its last decrement is not.                                      *)
(***************************************************************************)
EXTENDS Integers, FiniteSets

CONSTANTS
    Threads,
    Heap,           \* blocks the memory has room for
    Images,         \* executables and DLLs that throw
    MaxThrows       \* bound: exceptions the program throws and rethrows

Null == "null"
Static == {"bad_alloc", "bad_exception"}
Of(code, type, size, image) == [code |-> code, type |-> type, size |-> size, image |-> image]
None == Of("none", "none", 0, "none")
Garbage == Of("garbage", "none", 0, "none")
Seh == Of("seh", "none", 0, "none")
Managed == Of("managed", "none", 0, "none")
Library == Of("cpp", "simple", 1, "library")    \* bad_alloc, bad_exception
Objects == UNION {{Of("cpp", "handle", 1, i), Of("cpp", "class", 1, i),
                   Of("cpp", "class", 2, i)} : i \in Images}
Exceptions == Objects \cup {Seh, Managed}

VARIABLES
    current,        \* of each thread: the exception it handles, _pCurrentException
    ptr,            \* of each thread: the block its exception_ptr refers to
    uses,           \* of each block: its reference count
    size, held,     \* of each block of the heap: object size, 0 when free; its exception
    copies,         \* ghost: objects constructed and not destroyed, by type
    pc, dying,      \* a thread in the destructor of the last exception_ptr
    throws

vars == <<current, ptr, uses, size, held, copies, pc, dying, throws>>

Init ==
    /\ current = [t \in Threads |-> None]
    /\ ptr = [t \in Threads |-> Null]
    /\ uses = [b \in Heap \cup Static |-> IF b \in Static THEN 1 ELSE 0]
    /\ size = [b \in Heap |-> 0]
    /\ held = [b \in Heap |-> None]
    /\ copies = [type \in {"class", "handle"} |-> 0]
    /\ pc = [t \in Threads |-> "idle"]
    /\ dying = [t \in Threads |-> Null]
    /\ throws = 0

(* A thread catches something, and is done with it. *)
Throw(t, e) ==
    /\ pc[t] = "idle" /\ current[t] = None /\ throws < MaxThrows
    /\ throws' = throws + 1
    /\ current' = [current EXCEPT ![t] = e]
    /\ UNCHANGED <<ptr, uses, size, held, copies, pc, dying>>

Handled(t) ==
    /\ pc[t] = "idle" /\ current[t] # None
    /\ current' = [current EXCEPT ![t] = None]
    /\ UNCHANGED <<ptr, uses, size, held, copies, pc, dying, throws>>

-----------------------------------------------------------------------------
(* _CopyExceptionObject: the memory is copied, a handle is counted, or the *)
(* copy constructor is called at its offset in the image; it may throw.    *)
CopyExceptionObject(e, ThrowImageBase) ==
    IF e.type # "class" THEN {[value |-> e, thrown |-> None]}
    ELSE IF ThrowImageBase # e.image THEN {[value |-> Garbage, thrown |-> None]}
    ELSE {[value |-> e, thrown |-> x] : x \in Exceptions \cup {None}}

Counted(e, n) == IF e.type \in DOMAIN copies THEN [copies EXCEPT ![e.type] = @ + n] ELSE copies

(* _ExceptionPtr_static::_Get *)
Static_Get(t, b) ==
    /\ uses' = [uses EXCEPT ![b] = @ + 1]
    /\ ptr' = [ptr EXCEPT ![t] = b]
    /\ UNCHANGED <<size, held, copies>>

(* Memory for an object of n bytes, and the record of e in it. *)
Free == {b \in Heap : size[b] = 0}
Malloc == IF Free = {} THEN {} ELSE {CHOOSE b \in Free : TRUE}
Set_ptr_rep(t, b, n, e) ==
    /\ uses' = [uses EXCEPT ![b] = 1]
    /\ ptr' = [ptr EXCEPT ![t] = b]
    /\ size' = [size EXCEPT ![b] = 1 + n]
    /\ held' = [held EXCEPT ![b] = e]
    /\ copies' = Counted(e, 1)

Assign_seh_exception_ptr_from_record(t, e) ==
    \/ Static_Get(t, "bad_alloc")
    \/ \E b \in Malloc : Set_ptr_rep(t, b, 0, e)

(* Mutant of Copy_inner: the larger exception is put into the same memory. *)
Copy_inner_squeezed(t, b, e, x) ==
    \/ x.code = "managed" /\ Static_Get(t, "bad_exception")
    \/ x.code = "seh" /\ Set_ptr_rep(t, b, e.size, x)
    \/ /\ x.code = "cpp"
       /\ \E o \in CopyExceptionObject(x, e.image) :
             \/ o.thrown = None /\ Set_ptr_rep(t, b, e.size, o.value)
             \/ o.thrown # None /\ Static_Get(t, "bad_exception")

(* The copy of e has thrown x: memory for e is used again when it is large *)
(* enough.                                                                 *)
Copy_inner(t, b, e, x) ==
    \/ x.code = "managed" /\ Static_Get(t, "bad_exception")
    \/ x.code = "seh" /\ Set_ptr_rep(t, b, e.size, x)
    \/ x.code = "cpp" /\ x.size > e.size /\ Static_Get(t, "bad_alloc")
    \/ /\ x.code = "cpp"
       /\ \E o \in CopyExceptionObject(x, e.image) :
             \/ /\ o.thrown = None
                /\ Set_ptr_rep(t, b, IF x.size > e.size THEN x.size ELSE e.size, o.value)
             \/ o.thrown # None /\ Static_Get(t, "bad_exception")

Assign_cpp_exception_ptr_from_record(t, e) ==
    \/ Static_Get(t, "bad_alloc")
    \/ \E b \in Malloc, o \in CopyExceptionObject(e, e.image) :
          \/ o.thrown = None /\ Set_ptr_rep(t, b, e.size, e)
          \/ o.thrown # None /\ Copy_inner(t, b, e, o.thrown)

-----------------------------------------------------------------------------
(* current_exception, into a new exception_ptr *)
CurrentException(t) ==
    /\ pc[t] = "idle" /\ ptr[t] = Null
    /\ \/ current[t].code = "cpp" /\ Assign_cpp_exception_ptr_from_record(t, current[t])
       \/ current[t].code = "seh" /\ Assign_seh_exception_ptr_from_record(t, current[t])
    /\ UNCHANGED <<current, pc, dying, throws>>

(* make_exception_ptr: the record is made up by _PopulateCppExceptionRecord*)
CopyException(t, e) ==
    /\ pc[t] = "idle" /\ ptr[t] = Null /\ throws < MaxThrows
    /\ throws' = throws + 1
    /\ Assign_cpp_exception_ptr_from_record(t, e)
    /\ UNCHANGED <<current, pc, dying>>

Copy(t, u) ==
    /\ pc[t] = "idle" /\ pc[u] = "idle" /\ ptr[t] = Null /\ ptr[u] # Null
    /\ uses' = [uses EXCEPT ![ptr[u]] = @ + 1]
    /\ ptr' = [ptr EXCEPT ![t] = ptr[u]]
    /\ UNCHANGED <<current, size, held, copies, pc, dying, throws>>

(* _Decref of the block t gives up, which may be its last use. *)
Decref(t, b) ==
    /\ dying' = [dying EXCEPT ![t] = IF uses[b] = 1 THEN b ELSE Null]
    /\ pc' = [pc EXCEPT ![t] = IF uses[b] = 1 THEN "destroy" ELSE "idle"]

(* Assignment: a copy, swapped with the old value, which is destroyed. *)
Assign(t, u) ==
    /\ pc[t] = "idle" /\ pc[u] = "idle" /\ ptr[t] # Null /\ ptr[u] \notin {Null, ptr[t]}
    /\ uses' = [uses EXCEPT ![ptr[u]] = @ + 1, ![ptr[t]] = @ - 1]
    /\ ptr' = [ptr EXCEPT ![t] = ptr[u]]
    /\ Decref(t, ptr[t])
    /\ UNCHANGED <<current, size, held, copies, throws>>

Swap(t, u) ==
    /\ pc[t] = "idle" /\ pc[u] = "idle"
    /\ ptr' = [ptr EXCEPT ![t] = ptr[u], ![u] = ptr[t]]
    /\ UNCHANGED <<current, uses, size, held, copies, pc, dying, throws>>

Destroy(t) ==
    /\ pc[t] = "idle" /\ ptr[t] # Null
    /\ uses' = [uses EXCEPT ![ptr[t]] = @ - 1]
    /\ ptr' = [ptr EXCEPT ![t] = Null]
    /\ Decref(t, ptr[t])
    /\ UNCHANGED <<current, size, held, copies, throws>>

(* _ExceptionPtr_normal::_Destroy, and _Delete_this *)
Destroy_object(t) ==
    /\ pc[t] = "destroy"
    /\ pc' = [pc EXCEPT ![t] = "delete"]
    /\ copies' = Counted(held[dying[t]], -1)
    /\ UNCHANGED <<current, ptr, uses, size, held, dying, throws>>

Delete_this(t) ==
    /\ pc[t] = "delete"
    /\ pc' = [pc EXCEPT ![t] = "idle"]
    /\ size' = [size EXCEPT ![dying[t]] = 0]
    /\ held' = [held EXCEPT ![dying[t]] = None]
    /\ dying' = [dying EXCEPT ![t] = Null]
    /\ UNCHANGED <<current, ptr, uses, copies, throws>>

(* rethrow_exception raises a copy, or what its copy constructor throws.   *)
Record(b) ==
    CASE b \in Static \cup {Null} -> Library
      [] b \in Heap -> held[b]

Rethrow(t) ==
    /\ pc[t] = "idle" /\ current[t] = None /\ throws < MaxThrows
    /\ throws' = throws + 1
    /\ LET e == Record(ptr[t]) IN
       \E o \in CopyExceptionObject(e, e.image) :
          current' = [current EXCEPT ![t] = IF o.thrown = None THEN o.value ELSE o.thrown]
    /\ UNCHANGED <<ptr, uses, size, held, copies, pc, dying>>

-----------------------------------------------------------------------------
Release(t) == Destroy_object(t) \/ Delete_this(t)

Next ==
    \E t \in Threads :
        \/ \E e \in Exceptions : Throw(t, e)
        \/ \E e \in Objects : CopyException(t, e)
        \/ Handled(t) \/ CurrentException(t) \/ Destroy(t) \/ Release(t) \/ Rethrow(t)
        \/ \E u \in Threads \ {t} : Copy(t, u) \/ Assign(t, u) \/ Swap(t, u)

Spec == Init /\ [][Next]_vars

-----------------------------------------------------------------------------
Referring(b) == {t \in Threads : ptr[t] = b}

(* Every block lives exactly as long as an exception_ptr refers to it,     *)
(* whatever failed while it was made: its count is the number of them (the *)
(* two of the library have one more), its memory has room for its object,  *)
(* and the objects copied and handles counted are the ones in blocks that  *)
(* are not destroyed yet.                                                  *)
BlocksAccounted ==
    /\ \A b \in Static : uses[b] = 1 + Cardinality(Referring(b))
    /\ \A b \in Heap :
        /\ uses[b] = Cardinality(Referring(b))
        /\ size[b] > 0 <=> uses[b] > 0 \/ \E t \in Threads : dying[t] = b
        /\ size[b] > 0 => held[b].size < size[b]
    /\ \A type \in DOMAIN copies :
        copies[type] = Cardinality({b \in Heap : /\ held[b].type = type
                                                 /\ \A t \in Threads : dying[t] = b => pc[t] # "delete"})

(* "if copying the exception object referred to _Record throws, constructs *)
(* a reference count control block for that exception instead": what an    *)
(* exception_ptr holds, and what is raised from it, is an exception that   *)
(* was thrown.                                                             *)
HoldsThrown ==
    /\ \A b \in Heap : held[b] # Garbage
    /\ \A t \in Threads : current[t] # Garbage

=============================================================================

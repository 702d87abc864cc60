------------------------------ MODULE MyArray ------------------------------
(***************************************************************************)
(* The array of any number of dimensions in portfolio/study.cpp: class     *)
(* Array, a tree of Address blocks over int blocks, and class Int, what    *)
(* a path of [] yields.                                                    *)
(*                                                                         *)
(* heap is the sequence of the blocks allocated; a pointer is a block and  *)
(* an index.  A path shorter than the array's dimension points at an       *)
(* Address, whose first member, level, is then read and written as the int.*)
(* Indices count from 0, as in C; negative ones, which the code does not   *)
(* test, and paths longer than the dimension are undefined and not taken.  *)
(***************************************************************************)
EXTENDS Integers, Sequences, FiniteSets, SequencesExt

CONSTANTS
    Shapes,       \* the `size` arrays handed to the constructor
    Values,       \* the ints assigned
    MaxArrays,    \* bound: arrays constructed
    Unset         \* an int nothing was written to

ASSUME ShapeAssumption == \A size \in Shapes : size \in Seq(Nat) /\ size # <<>>
ASSUME ValueAssumption == Values \subseteq Nat /\ Unset \notin Nat

VARIABLES
    heap,     \* the blocks, in the order they were allocated
    arrays,   \* the Array objects: [dim, size, top]
    frees,    \* the deletes of the destructor that has run: [block, as].  It
              \* leaves the heap undefined (see DeletedAsPointedTo): the model ends
    last      \* history: last[a][path], the value last assigned to arrays[a] there

vars == <<heap, arrays, frees, last>>

NULL == <<0, 0>>

Deref(h, p) == h[p[1]].cells[p[2]]
Store(h, p, cell) == [h EXCEPT ![p[1]].cells[p[2]] = cell]

New(h, kind, n, cell) == Append(h, [kind |-> kind, cells |-> [i \in 0 .. n - 1 |-> cell]])

Address(level, next) == [level |-> level, next |-> next]

Indices(n) == [i \in 1 .. n |-> i - 1]

-----------------------------------------------------------------------------
(* initialize_address: the heap after it, for current = p.                 *)
RECURSIVE initialize_address(_, _, _)
InitChildOnly(h, arr, p, i) ==    \* fault: no recursive call
    LET child == <<Deref(h, p).next, i>>
    IN  Store(h, child, Address(Deref(h, p).level + 1, 0))

InitChild(h, arr, p, i) ==
    LET child == <<Deref(h, p).next, i>>
    IN  initialize_address(Store(h, child, Address(Deref(h, p).level + 1, 0)), arr, child)

initialize_address(h, arr, p) ==
    LET level == Deref(h, p).level
        block == Len(h) + 1
        h1 == Store(h, p, Address(level, block))
    IN  IF level = arr.dim - 1
        THEN New(h1, "int[]", arr.size[level + 1], Unset)
        ELSE FoldLeft(LAMBDA g, i : InitChild(g, arr, p, i),
                      New(h1, "Address[]", arr.size[level + 1], Address(0, 0)),
                      Indices(arr.size[level + 1]))

(* copy_address, into the fresh tree at dst.                               *)
RECURSIVE copy_address(_, _, _, _)
copy_address_shallow(h, arr, dst, src) ==    \* fault: the pointer is copied
    Store(h, dst, [Deref(h, dst) EXCEPT !.next = Deref(h, src).next])

copy_address(h, arr, dst, src) ==
    LET level == Deref(h, dst).level
        at(p, i) == <<Deref(h, p).next, i>>
    IN  FoldLeft(LAMBDA g, i : IF level = arr.dim - 1
                               THEN Store(g, at(dst, i), Deref(g, at(src, i)))
                               ELSE copy_address(g, arr, at(dst, i), at(src, i)),
                 h, Indices(arr.size[level + 1]))

(* delete_address: its deletes in order.  What it would follow without     *)
(* there being an Address ends them.                                       *)
RECURSIVE delete_address(_, _, _)
delete_children_short(h, arr, a) ==    \* fault: i < size - 1
    IF a.level < arr.dim - 1
    THEN FlattenSeq([i \in 1 .. arr.size[a.level + 1] - 1 |->
                        delete_address(h, arr, <<a.next, i - 1>>)])
    ELSE <<>>

delete_children(h, arr, a) ==
    IF a.level < arr.dim - 1
    THEN FlattenSeq([i \in 1 .. arr.size[a.level + 1] |->
                        delete_address(h, arr, <<a.next, i - 1>>)])
    ELSE <<>>

delete_address(h, arr, p) ==
    IF h[p[1]].kind = "int[]" \/ p[2] \notin DOMAIN h[p[1]].cells
    THEN <<>>
    ELSE LET a == Deref(h, p)
         IN  delete_children(h, arr, a)
             \o (IF a.level = arr.dim - 1 THEN <<[block |-> a.next, as |-> "int[]"]>> ELSE <<>>)
             \o <<[block |-> a.next, as |-> "Address[]"]>>

-----------------------------------------------------------------------------
(* Int::Int.                                                               *)
MakeInt(h, index, level, data, arr) ==
    [data |-> IF level < 1 \/ index >= arr.size[level] THEN NULL
              ELSE <<Deref(h, data).next, index>>,
     level |-> level]

(* Array::operator[] and then Int::operator[], along a path.               *)
At(h, arr, path) ==
    FoldLeft(LAMBDA x, index : IF x.data = NULL THEN [data |-> NULL, level |-> 0]
                               ELSE MakeInt(h, index, x.level + 1, x.data, arr),
             MakeInt(h, Head(path), 1, arr.top, arr),
             Tail(path))

(* Int::operator int and operator=.                                        *)
ReadInt(h, p) ==
    IF p = NULL THEN 0
    ELSE IF h[p[1]].kind = "int[]" THEN Deref(h, p) ELSE Deref(h, p).level

WriteInt(h, p, v) ==
    IF p = NULL THEN h
    ELSE IF h[p[1]].kind = "int[]" THEN Store(h, p, v)
    ELSE Store(h, p, [Deref(h, p) EXCEPT !.level = v])

-----------------------------------------------------------------------------
(* Paths of one to dim indices, one more than there are included.          *)
Paths(size) ==
    UNION {{path \in [1 .. n -> 0 .. Len(size) + 2] : \A l \in 1 .. n : path[l] <= size[l]} :
              n \in 1 .. Len(size)}
InRange(path, size) == \A l \in DOMAIN path : path[l] < size[l]

(* What is to be read where nothing was assigned: the ints are unset, a    *)
(* shorter path reads its Address's level.                                 *)
Fresh(size) ==
    [path \in {p \in Paths(size) : InRange(p, size)} |->
        IF Len(path) = Len(size) THEN Unset ELSE Len(path)]

Init ==
    /\ heap = <<>>
    /\ arrays = <<>>
    /\ frees = <<>>
    /\ last = <<>>

(* Both constructors: `new Address` for top, and its tree.                 *)
Built(size) ==
    LET h == New(heap, "Address", 1, Address(0, 0))
        top == <<Len(h), 0>>
    IN  [arr |-> [dim |-> Len(size), size |-> size, top |-> top],
         heap |-> initialize_address(h, [dim |-> Len(size), size |-> size], top)]

Construct(size) ==
    /\ frees = <<>> /\ Len(arrays) < MaxArrays
    /\ heap' = Built(size).heap
    /\ arrays' = Append(arrays, Built(size).arr)
    /\ last' = Append(last, Fresh(size))
    /\ UNCHANGED frees

Copy(a) ==
    /\ frees = <<>> /\ Len(arrays) < MaxArrays
    /\ LET new == Built(arrays[a].size) IN
       /\ heap' = copy_address(new.heap, new.arr, new.arr.top, arrays[a].top)
       /\ arrays' = Append(arrays, new.arr)
    /\ LET size == arrays[a].size IN
       last' = Append(last, [path \in DOMAIN Fresh(size) |->
                                IF Len(path) = Len(size) THEN last[a][path] ELSE Len(path)])
    /\ UNCHANGED frees

Assign(a, path, v) ==
    /\ frees = <<>>
    /\ heap' = WriteInt(heap, At(heap, arrays[a], path).data, v)
    /\ last' = IF path \in DOMAIN last[a] THEN [last EXCEPT ![a][path] = v] ELSE last
    /\ UNCHANGED <<arrays, frees>>

(* ~Array.  (size, which it deletes too, is not in the heap of the model.) *)
Destroy(a) ==
    /\ frees = <<>>
    /\ frees' = delete_address(heap, arrays[a], arrays[a].top)
    /\ UNCHANGED <<heap, arrays, last>>

Next ==
    \/ \E size \in Shapes : Construct(size)
    \/ \E a \in DOMAIN arrays :
          \/ Copy(a)
          \/ \E path \in Paths(arrays[a].size), v \in Values : Assign(a, path, v)
          \/ Destroy(a)

Spec == Init /\ [][Next]_vars

-----------------------------------------------------------------------------
(* Reachable from an array: its blocks of Address and of int.              *)
Addresses(bs) ==
    UNION {{<<b, i>> : i \in DOMAIN heap[b].cells} : b \in {b \in bs : heap[b].kind # "int[]"}}
Nexts(bs) == {Deref(heap, p).next : p \in Addresses(bs)}

RECURSIVE Closure(_)
Closure(bs) == IF Nexts(bs) \subseteq bs THEN bs ELSE Closure(bs \cup Nexts(bs))
BlocksOf(a) == Closure({arrays[a].top[1]})

TypeOK ==
    /\ \A b \in DOMAIN heap :
          IF heap[b].kind = "int[]"
          THEN \A i \in DOMAIN heap[b].cells : heap[b].cells[i] \in Values \cup {Unset}
          ELSE \A i \in DOMAIN heap[b].cells : /\ heap[b].cells[i].level \in Nat
                                               /\ heap[b].cells[i].next \in DOMAIN heap
    /\ \A a \in DOMAIN arrays : arrays[a].top[1] \in DOMAIN heap

(* A path reads what was last assigned through it to that array, or to the *)
(* array it was copied from before the copy; no other path and no other    *)
(* array has changed it; out of range there is nothing to read or write.   *)
(* A shorter path reads its level until it is assigned, in a copy its own: *)
(* what was assigned to a level is not copied.                             *)
(* (Array::Array, copy_address, Int::Int, Int::operator[], operator=)      *)
ReadsLastWritten ==
    \A a \in DOMAIN arrays : \A path \in Paths(arrays[a].size) :
        ReadInt(heap, At(heap, arrays[a], path).data)
            = IF path \in DOMAIN last[a] THEN last[a][path] ELSE 0

LevelsIntact(a) ==
    \A path \in DOMAIN last[a] :
        Len(path) < arrays[a].dim => last[a][path] = Len(path)

(* The destructor deletes every block of its array but `top`, and none of  *)
(* another one, a copy's or an original's: if no level was assigned through*)
(* a short path, which would mislead it.                                   *)
(* (initialize_address, copy_address, delete_address)                      *)
DeletesTheTree ==
    LET deleted == {frees[i].block : i \in DOMAIN frees}
    IN  \A a \in DOMAIN arrays :
           deleted \cap BlocksOf(a) # {} /\ LevelsIntact(a)
           => deleted = BlocksOf(a) \ {arrays[a].top[1]}

(* The last level points to the data array, every level above to an array  *)
(* of Address, and each is deleted as that.                                *)
DeletedAsPointedTo ==
    \A i \in DOMAIN frees : frees[i].as = heap[frees[i].block].kind
=============================================================================

----------------------------- MODULE TntObject ------------------------------
(***************************************************************************)
(* Building a msgpack value in a tnt_object stream (tnt/tnt_object.c over  *)
(* the buffer of tnt/tnt_buf.c): scalars, arrays and maps are appended to  *)
(* the buffer, and a stack of open containers knows where the header of    *)
(* each one is, so that closing it can write the number of its elements.   *)
(*                                                                         *)
(* The buffer is a sequence of cells, one per byte that matters: a scalar  *)
(* is one cell, a header is its first cell followed by the cells of a      *)
(* longer length.  tnt_object_vformat makes these calls as its format says *)
(* and stops at the first that fails.  The containers of update operations *)
(* (tnt/tnt_update.c) are such objects too, with a count of their own.     *)
(***************************************************************************)
EXTENDS Integers, Sequences

CONSTANTS
    StackInit,     \* stack entries an object starts with (8 in the code)
    StackMax,      \* stack entries it can grow to (128)
    FixMax,        \* elements a one-byte header can count (15)
    ShortMax,      \* elements a three-byte header can count (65535)
    DeclaredSizes, \* sizes the callers declare
    MaxAdds        \* bound: values appended to one object

ASSUME ObjectAssumption ==
    /\ StackInit \in Nat \ {0} /\ StackMax \in Nat /\ StackInit <= StackMax
    /\ FixMax \in Nat /\ ShortMax \in Nat /\ FixMax <= ShortMax
    /\ DeclaredSizes \subseteq Nat /\ MaxAdds \in Nat

VARIABLES
    type,        \* sbo->type
    cells,       \* the cells sb->data[0 .. sb->size - 1]
    stack,       \* sbo->stack[0 .. sbo->stack_size - 1]
    stackAlloc,  \* sbo->stack_alloc
    wrcnt,       \* s->wrcnt
    fmt,         \* what is left of the format in tnt_object_vformat
    upd,         \* the object came from tnt_update_container
    built,       \* history: the open containers and their elements so far
    exact,       \* history: declared sizes were right
    failed,      \* history: an append returned -1
    undefined    \* history: an uninitialized stack entry was read

objectVars == <<type, cells, stack, stackAlloc, wrcnt, fmt, upd, built, exact, failed, undefined>>

Types == {"SIMPLE", "SPARSE", "PACKED"}
Containers == {"array", "map"}

-----------------------------------------------------------------------------
(* Cells. *)

Cell(k, n, w) == [kind |-> k, n |-> n, w |-> w]
Atom == Cell("atom", 0, 1)

\* mp_sizeof_array and mp_sizeof_map.
Width(n) == IF n <= FixMax THEN 1 ELSE IF n <= ShortMax THEN 3 ELSE 5

\* A header of w bytes that counts n elements (pairs, in a map).
HeaderCells(k, n, w) == <<Cell(k, n, w)>> \o [i \in 1..(w - 1) |-> Cell("length", 0, 1)]

\* Mutant: the values of a map, not its pairs.
CountedValues(k, n) == n

\* What a header has to count for a container with n values in it.
Counted(k, n) == IF k = "map" THEN n \div 2 ELSE n

-----------------------------------------------------------------------------
(* The values the caller means, as trees; built[1] collects the values that *)
(* are in no container.                                                     *)

Node(k, kids) == [kind |-> k, kids |-> kids]
Frame(k, n) == [kind |-> k, declared |-> n, kids |-> <<>>]

Grow(frames, node) ==
    [frames EXCEPT ![Len(frames)].kids = Append(@, node)]

Fold(frames) ==
    LET last == frames[Len(frames)]
    IN  Grow(SubSeq(frames, 1, Len(frames) - 1), Node(last.kind, last.kids))

-----------------------------------------------------------------------------
ObjectInit ==
    /\ type = "SIMPLE" /\ cells = <<>> /\ wrcnt = 0
    /\ stack = <<>> /\ stackAlloc = StackInit /\ fmt = <<>> /\ upd = FALSE
    /\ built = <<Frame("top", 0)>> /\ exact = TRUE
    /\ failed = FALSE /\ undefined = FALSE

\* tnt_object_type
SetType(t) ==
    /\ wrcnt = 0
    /\ type' = t
    /\ UNCHANGED <<cells, stack, stackAlloc, wrcnt, built, exact, failed, undefined>>

\* Every append counts as an element of the innermost open container.
Bump(st) == IF st = <<>> THEN st ELSE [st EXCEPT ![Len(st)].size = @ + 1]

\* tnt_object_add_nil, _uint, _int, _str, _strz, _bin, _bool, _float, _double
AddScalar ==
    /\ wrcnt < MaxAdds
    /\ stack' = Bump(stack)
    /\ cells' = Append(cells, Atom)
    /\ wrcnt' = wrcnt + 1
    /\ built' = Grow(built, Node("atom", <<>>))
    /\ UNCHANGED <<type, stackAlloc, exact, failed, undefined>>

\* tnt_sbuf_object_grow_stack allocates a new stack and frees the old one
\* without copying it: the entries of the open containers are uninitialized.
Room == IF Len(stack) < stackAlloc THEN stackAlloc ELSE 2 * stackAlloc
Grown(st) == [i \in 1..Len(st) |-> [st[i] EXCEPT !.known = FALSE]]

\* Mutant: the short header in place of the five bytes that Close expects.
OpeningShort(k, n) == IF type = "SIMPLE" THEN HeaderCells(k, n, Width(n)) ELSE HeaderCells(k, 0, Width(0))

\* The header an open container starts with.
Opening(k, n) ==
    CASE type = "SIMPLE" -> HeaderCells(k, n, Width(n))
      [] type = "SPARSE" -> HeaderCells(k, 0, 5)
      [] type = "PACKED" -> HeaderCells(k, 0, Width(0))

\* tnt_object_add_array and tnt_object_add_map.  On the last return -1 the
\* enclosing container has counted an element that is not there (MaxAdds also
\* bounds how often).
AddContainer(k, n) ==
    /\ wrcnt < MaxAdds
    /\ IF Len(stack) = stackAlloc /\ stackAlloc = StackMax
       THEN /\ stack[Len(stack)].size < MaxAdds
            /\ stack' = Bump(stack)
            /\ failed' = TRUE
            /\ UNCHANGED <<cells, stackAlloc, wrcnt, built>>
       ELSE /\ LET st == IF Len(stack) < stackAlloc THEN Bump(stack) ELSE Grown(Bump(stack))
               IN  stack' = Append(st, [size |-> 0, offset |-> Len(cells), kind |-> k,
                                        known |-> TRUE])
            /\ stackAlloc' = Room
            /\ cells' = cells \o Opening(k, n)
            /\ wrcnt' = wrcnt + 1
            /\ built' = Append(built, Frame(k, IF type = "SIMPLE" THEN n ELSE 0))
            /\ UNCHANGED failed
    /\ UNCHANGED <<type, exact, undefined>>

\* The cells after the header at o of width w are moved behind a new header h.
Rewrite(o, w, h) == SubSeq(cells, 1, o) \o h \o SubSeq(cells, o + w + 1, Len(cells))

\* tnt_object_container_close.  With no container open, or an odd number of
\* values in a map, it returns -1 and does nothing.
Close ==
    /\ stack # <<>>
    /\ LET top == stack[Len(stack)]
           n == Counted(top.kind, top.size)
       IN  IF ~top.known
           THEN undefined' = TRUE /\ UNCHANGED <<cells, stack, built, exact>>
           ELSE /\ ~(top.kind = "map" /\ top.size % 2 = 1)
                /\ stack' = SubSeq(stack, 1, Len(stack) - 1)
                /\ cells' = CASE type = "SIMPLE" -> cells
                             [] type = "SPARSE" -> Rewrite(top.offset, 5, HeaderCells(top.kind, n, 5))
                             [] type = "PACKED" ->
                                  Rewrite(top.offset, 1, HeaderCells(top.kind, n, Width(n)))
                /\ built' = Fold(built)
                /\ exact' = (exact /\ (type = "SIMPLE" => built[Len(built)].declared = n))
                /\ UNCHANGED undefined
    /\ UNCHANGED <<type, stackAlloc, wrcnt, failed>>

\* tnt_object_reset keeps the buffer and the stack it has grown to.
Reset ==
    /\ wrcnt' = 0 /\ cells' = <<>> /\ stack' = <<>> /\ type' = "SIMPLE"
    /\ built' = <<Frame("top", 0)>> /\ exact' = TRUE /\ failed' = FALSE
    /\ UNCHANGED <<stackAlloc, undefined>>

-----------------------------------------------------------------------------
(* tnt_object_vformat.  A format is a sequence of directives: the brackets  *)
(* and "%" for a scalar.                                                    *)

Formats == {<<"[", "%", "{", "%", "%", "]", "]">>, <<"[", "%", "%", "%", "]">>,
            <<"{", "%", "]", "%">>, <<"[", "]", "]", "%">>, <<"[", "%">>,
            <<"[", "[", "[", "%", "]", "]", "]">>}

\* tnt_object_container_close returns -1 and does nothing.
CloseFails ==
    stack # <<>> => LET top == stack[Len(stack)]
                    IN  top.known /\ top.kind = "map" /\ top.size % 2 = 1

FormatStart(f) == SetType("PACKED") /\ fmt' = f /\ UNCHANGED upd

FormatStep ==
    /\ fmt # <<>> /\ UNCHANGED upd
    /\ \/ /\ Head(fmt) = "%" /\ AddScalar
          /\ fmt' = Tail(fmt)
       \/ /\ Head(fmt) \in {"[", "{"}
          /\ AddContainer(IF Head(fmt) = "[" THEN "array" ELSE "map", 0)
          /\ fmt' = IF failed' THEN <<>> ELSE Tail(fmt)
       \/ /\ Head(fmt) = "]" /\ Close
          /\ fmt' = Tail(fmt)
       \/ /\ Head(fmt) = "]" /\ CloseFails
          /\ fmt' = <<>>
          /\ UNCHANGED <<type, cells, stack, stackAlloc, wrcnt, built, exact, failed, undefined>>

-----------------------------------------------------------------------------
(* Update operations. *)

\* tnt_update_container on a new object; tnt_update_container_reset
UpdateContainer ==
    /\ upd \/ (wrcnt = 0 /\ cells = <<>>)
    /\ upd' = TRUE /\ type' = "SPARSE" /\ wrcnt' = 1
    /\ stack' = <<[size |-> 0, offset |-> 0, kind |-> "array", known |-> TRUE]>>
    /\ cells' = HeaderCells("array", 0, 5)
    /\ built' = <<Frame("top", 0), Frame("array", 0)>> /\ exact' = TRUE /\ failed' = FALSE
    /\ stackAlloc' = IF upd THEN stackAlloc ELSE StackInit
    /\ UNCHANGED <<fmt, undefined>>

\* tnt_update_op, of n elements (tnt_update_op_len): it is written past the
\* object functions, so that the container does not count it.
UpdateOp(n) ==
    /\ upd /\ wrcnt < MaxAdds
    /\ cells' = cells \o HeaderCells("array", n, Width(n)) \o [i \in 1..n |-> Atom]
    /\ wrcnt' = wrcnt + 1
    /\ built' = Grow(built, Node("array", [i \in 1..n |-> Node("atom", <<>>)]))
    /\ UNCHANGED <<type, stack, stackAlloc, fmt, upd, exact, failed, undefined>>

\* tnt_update_bit, _arith_*, _delete, _insert, _assign; tnt_update_splice
UpdateField == UpdateOp(3)
UpdateSplice == UpdateOp(5)

\* What tnt_update_container_close takes for the number of operations.
OpsWritten == wrcnt - 1

\* tnt_update_container_close: on a closed container it does nothing.
UpdateClose ==
    /\ upd /\ stack # <<>>
    /\ stack' = <<>>
    /\ cells' = Rewrite(stack[1].offset, 5, HeaderCells("array", OpsWritten, 5))
    /\ built' = Fold(built)
    /\ UNCHANGED <<type, stackAlloc, wrcnt, fmt, upd, exact, failed, undefined>>

\* The caller of the object functions.
Calls ==
    \/ \E t \in Types : SetType(t)
    \/ AddScalar
    \/ \E k \in Containers, n \in DeclaredSizes : AddContainer(k, n)
    \/ Close

ObjectNext ==
    \/ fmt = <<>> /\ ~upd /\ Calls /\ UNCHANGED <<fmt, upd>>
    \/ fmt = <<>> /\ Reset /\ upd' = FALSE /\ UNCHANGED fmt
    \/ fmt = <<>> /\ ~upd /\ \E f \in Formats : FormatStart(f)
    \/ FormatStep
    \/ fmt = <<>> /\ UpdateContainer
    \/ UpdateField \/ UpdateSplice \/ UpdateClose

ObjectSpec == ObjectInit /\ [][ObjectNext]_objectVars

-----------------------------------------------------------------------------
Entries == [size : Nat, offset : Nat, kind : Containers, known : BOOLEAN]
Cells == [kind : Containers \cup {"atom", "length"}, n : Nat, w : {1, 3, 5}]

TypeOK ==
    /\ type \in Types /\ cells \in Seq(Cells) /\ stack \in Seq(Entries)
    /\ stackAlloc \in StackInit..StackMax /\ Len(stack) <= stackAlloc
    /\ wrcnt \in Nat
    /\ exact \in BOOLEAN /\ failed \in BOOLEAN /\ undefined \in BOOLEAN

\* A msgpack reader: count values from cell p on, as trees, and where it got.
Decode[p \in Nat, count \in Nat] ==
    IF count = 0 THEN [kids |-> <<>>, next |-> p]
    ELSE IF p > Len(cells) \/ cells[p].kind = "length"
         THEN [kids |-> <<Node("malformed", <<>>)>>, next |-> p]
         ELSE LET cell == cells[p]
                  inner == Decode[p + cell.w,
                                  IF cell.kind = "map" THEN 2 * cell.n ELSE cell.n]
                  rest == Decode[inner.next, count - 1]
              IN  [kids |-> <<Node(cell.kind, inner.kids)>> \o rest.kids,
                   next |-> rest.next]

\* Once every container is closed, a msgpack reader finds in the buffer exactly
\* the nested values that were appended and nothing after them: the counts in
\* the headers are right, and moving the cells behind a header that has to grow
\* disturbs no header of an enclosing container.
RoundTrip ==
    ~undefined /\ ~failed /\ exact /\ stack = <<>> =>
        LET top == built[1].kids
            read == Decode[1, Len(top)]
        IN  read.kids = top /\ read.next = Len(cells) + 1

\* Until then every open container's offset still leads to its own header,
\* which has the width that closing it expects.
OffsetsValid ==
    \A i \in 1..Len(stack) :
        stack[i].known =>
            LET cell == cells[stack[i].offset + 1]
            IN  /\ cell.kind = stack[i].kind
                /\ cell.w = CASE type = "SPARSE" -> 5
                              [] type = "PACKED" -> 1
                              [] type = "SIMPLE" -> Width(cell.n)
                /\ i > 1 /\ stack[i - 1].known => stack[i - 1].offset < stack[i].offset

\* doc/source/msgpackobject.rst:179, tnt_object_container_close: "Close the
\* latest opened container", at any depth.
ClosesKnown == ~undefined
=============================================================================

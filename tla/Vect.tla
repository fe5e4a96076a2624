-------------------------------- MODULE Vect --------------------------------
(***************************************************************************)
(* src/mmp_gen_vect.h: a vector of elements, as operators on its structure *)
(* [data, n_data, n_alloc].  data is the block: a function from as many    *)
(* indices as elements fit in it.  A store past the block leaves the       *)
(* vector as Broken: what it hits is not modelled.                         *)
(***************************************************************************)
EXTENDS Naturals

CONSTANTS Quantum,      \* 4080, the bytes a block is rounded up to
          ElemSize,     \* the size of an element, in bytes
          Val,          \* the elements
          Junk,         \* what memory holds that was not written
          Broken,       \* a vector that was written past its block
          Null          \* no vector

ASSUME SizesAssumption == Quantum \in Nat \ {0} /\ ElemSize \in 1..(Quantum - 1)
ASSUME ValueAssumption == Junk \notin Val /\ Broken \notin Val

Block(n) == [i \in 0..(n - 1) |-> Junk]
At(v, i) == IF i \in DOMAIN v.data THEN v.data[i] ELSE Junk

\* nearSize: how many elements to allocate for size of them.  What is
\* divided by the size is a number of bytes: a small size gets a large
\* block, a large size one that is too small.
NearSize(size) ==
    IF size = 0 THEN Quantum \div ElemSize
    ELSE LET bytes == size * ElemSize IN
         (bytes + (Quantum - (bytes % Quantum))) \div size

\* bug: the room there is is not looked at
ReserveAlways(v, size) ==
    [v EXCEPT !.data = [i \in 0..(size - 1) |-> At(v, i)], !.n_alloc = size]

\* reserve: the block grows, never shrinks, and keeps what it holds.
Reserve(v, size) ==
    IF v.n_alloc >= size THEN v
    ELSE [v EXCEPT !.data = [i \in 0..(size - 1) |-> At(v, i)], !.n_alloc = size]

\* The store of x at the indices from..to - 1.
Store(v, from, to, x) ==
    IF from..(to - 1) \subseteq DOMAIN v.data
    THEN [v EXCEPT !.data = [i \in DOMAIN v.data |->
                                IF i \in from..(to - 1) THEN x ELSE v.data[i]]]
    ELSE Broken

Count(v, n) == IF v = Broken THEN Broken ELSE [v EXCEPT !.n_data = n]

\* create: size elements, filled.
VectCreate(size, x) ==
    LET n == NearSize(size)
    IN  Store([data |-> Block(n), n_data |-> size, n_alloc |-> n], 0, size, x)

VectFill(v, x) == Store(v, 0, v.n_data, x)

\* resize: after it has grown, n_alloc is what was asked of reserve, even if
\* the block was larger.
VectResize(v, size, x) ==
    IF v.n_data >= size THEN Count(v, size)
    ELSE LET n == NearSize(size)
         IN  Count(Store([Reserve(v, n) EXCEPT !.n_alloc = n], v.n_data, size, x), size)

\* What push_back and insert do first.
Grown(v) == IF v.n_alloc < v.n_data + 1 THEN Reserve(v, NearSize(v.n_data + 1)) ELSE v

VectPushBack(v, x) == Count(Store(Grown(v), v.n_data, v.n_data + 1, x), v.n_data + 1)

VectPopBack(v) == [v EXCEPT !.n_data = @ - 1]

\* bug: the loop starts one late
VectErasePast(v, pos) ==
    [v EXCEPT !.data = [i \in DOMAIN v.data |->
                            IF i \in (pos + 1)..(v.n_data - 1) THEN At(v, i + 1) ELSE v.data[i]],
              !.n_data = @ - 1]

\* erase: the last index copied from is n_data, which may be past the block.
VectErase(v, pos) ==
    [v EXCEPT !.data = [i \in DOMAIN v.data |->
                            IF i \in pos..(v.n_data - 1) THEN At(v, i + 1) ELSE v.data[i]],
              !.n_data = @ - 1]

VectInsert(v, pos, x) ==
    LET g == Grown(v) IN
    IF v.n_data \notin DOMAIN g.data THEN Broken
    ELSE [g EXCEPT !.data = [i \in DOMAIN g.data |->
                                IF i = pos THEN x
                                ELSE IF i \in (pos + 1)..v.n_data THEN g.data[i - 1]
                                ELSE g.data[i]],
                   !.n_data = @ + 1]
=============================================================================

----------------------------- MODULE VectCalls ------------------------------
(***************************************************************************)
(* A vector of src/mmp_gen_vect.h and a client that calls its functions in *)
(* any order.  An allocation may fail: the call then changes nothing.      *)
(***************************************************************************)
EXTENDS Vect, Sequences

CONSTANT MaxSize        \* bound: no vector gets longer

ASSUME BoundAssumption == MaxSize \in Nat

VARIABLES v,
          did,      \* history: the last call that changed it, its name and arguments
          short     \* history: fewer elements were allocated for it than asked for

vars == <<v, did, short>>

Init == v = Null /\ did = << >> /\ short = FALSE

\* What the functions allocate for n elements holds n elements.
Fits(n) == n = 0 \/ NearSize(n) >= n
Holds == v # Null /\ v # Broken
Becomes(u, op, n, x) == v' = u /\ did' = <<op, n, x>>

\* A call that has n elements allocated.
Allocates(n) == short' = (short \/ ~Fits(n))
AllocatesNothing == UNCHANGED short

Create(n, x) == /\ v = Null
                /\ Becomes(VectCreate(n, x), "create", n, x)
                /\ Allocates(n)
Fill(x) == Holds /\ Becomes(VectFill(v, x), "fill", 0, x) /\ AllocatesNothing
ReserveMore(n) == Holds /\ v' = Reserve(v, n) /\ UNCHANGED did /\ AllocatesNothing
Resize(n, x) == /\ Holds
                /\ Becomes(VectResize(v, n, x), "resize", n, x)
                /\ IF n <= v.n_data THEN AllocatesNothing ELSE Allocates(n)

\* push_back and insert need room for one more element.
TakesRoom == /\ Holds
             /\ v.n_data < MaxSize
             /\ IF v.n_data < v.n_alloc THEN AllocatesNothing ELSE Allocates(v.n_data + 1)

PushBack(x) == TakesRoom /\ Becomes(VectPushBack(v, x), "push", 0, x)
PopBack == Holds /\ v.n_data > 0 /\ Becomes(VectPopBack(v), "pop", 0, Null) /\ AllocatesNothing
Erase(pos) == /\ Holds /\ pos < v.n_data
              /\ Becomes(VectErase(v, pos), "erase", pos, Null) /\ AllocatesNothing
Insert(pos, x) == TakesRoom /\ pos < v.n_data /\ Becomes(VectInsert(v, pos, x), "insert", pos, x)
Destroy == Holds /\ Becomes(Null, "destroy", 0, Null) /\ short' = FALSE

Next == \/ \E n \in 0..MaxSize, x \in Val : Create(n, x) \/ Resize(n, x) \/ Insert(n, x)
        \/ \E n \in 0..MaxSize : ReserveMore(n) \/ Erase(n)
        \/ \E x \in Val : Fill(x) \/ PushBack(x)
        \/ PopBack \/ Destroy

Spec == Init /\ [][Next]_vars

(***************************************************************************)
(* Properties                                                              *)
(***************************************************************************)
TypeOK == v = Null \/ /\ DOMAIN v = {"data", "n_data", "n_alloc"}
                      /\ v.n_data \in Nat /\ v.n_alloc \in Nat
                      /\ \A i \in DOMAIN v.data : v.data[i] \in Val \cup {Junk}

\* No call writes past the block, and the vector never has more elements, nor
\* believes to have room for more, than the block holds, until nearSize has
\* computed fewer elements than it was asked for.  The block was sized by another
\* call, growth, shrinking and reservations between.
InBlock == short \/ /\ v # Broken
                    /\ TypeOK
                    /\ v # Null => /\ v.n_data <= v.n_alloc
                                   /\ 0..(v.n_alloc - 1) \subseteq DOMAIN v.data

Elements == IF v = Null THEN Null ELSE [i \in 1..v.n_data |-> At(v, i - 1)]

\* Up to then every call is one on a sequence of values, with the arguments it was
\* given: none is lost when the block grows, and what erase reads past the last
\* element, or past the block, never shows.
Promise == INSTANCE Vector WITH s <- Elements
IsVector == Promise!Init /\ [][~short /\ ~short' => [Promise!Next]_<<Elements, did>>]_vars
=============================================================================

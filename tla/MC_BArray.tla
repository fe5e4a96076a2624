------------------------------ MODULE MC_BArray -----------------------------
(***************************************************************************)
(* BArray for TLC.  Four records to a page are the fewest with which a     *)
(* search in a page ends, and does not end; two pages and room for one in  *)
(* the cache make the search over pages branch and the cache evict.        *)
(* MC_BArray_pages.cfg has three pages of two records, and two entries.    *)
(***************************************************************************)
EXTENDS BArray

Idx6 == 1..6
Idx5 == 1..5

\* Bound: once the order of the records is not sound, files that have used more
\* slots than this are not followed further.
MaxUsed == 3
Used == {p \in (DOMAIN file) \X Slots : file[p[1]][p[2]] # BlankPage[p[2]]}
FewAfter == Sound \/ Cardinality(Used) <= MaxUsed
=============================================================================

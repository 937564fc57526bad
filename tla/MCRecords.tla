----------------------------- MODULE MCRecords ------------------------------
(* Three callers: two can race for one row while a third creates another    *)
(* one.  Two shipments with their parties, an administrator, two addresses, *)
(* certifications or documents.  The walks over a list have four rows, one  *)
(* to a page; the tables two rows, and two requests under way together; an  *)
(* export has two rows, a report one account and two shipments.            *)
EXTENDS Records, TLC

Symmetry == Permutations(Shipments)

(* An ordinary character, one that begins a formula, the three that are    *)
(* quoted and the one that ends a row all the same; texts with each, and   *)
(* with two of them next to each other.                                    *)
SomeCharacters == {"a", "=", "'", "quote", "comma", "newline", "return"}
SomeTexts ==
    {<<>>, <<"a">>, <<"=">>, <<"quote">>, <<"comma">>, <<"newline">>, <<"return">>,
     <<"=", "quote">>, <<"return", "newline">>}
=============================================================================

-------------------------- MODULE ForwardedHeader --------------------------
(***************************************************************************)
(* The Forwarded header (proxy/forwarded_header.rs).  A header is the      *)
(* sequence of its parts between semicolons, and of each only the for=     *)
(* elements are told: "by=b;for=f, for=g;host=h" is <<<<>>, <<f, g>>,      *)
(* <<>>>>.  An element counts the blanks around its "for=".                *)
(***************************************************************************)
EXTENDS Naturals, Sequences

Element(S) == [name : S, blanks : Nat]
Header(S) == Seq(Seq(Element(S)))

\* What for_ holds of a header: the first part that has a for=, split at commas.
for_(header) ==
    LET some == {i \in DOMAIN header : header[i] # <<>>}
    IN  IF some = {} THEN <<>>
        ELSE header[CHOOSE i \in some : \A j \in some : i =< j]

\* Mutant: the peer takes the place of the last one.
from_info_replace(peer, header) ==
    SubSeq(for_(header), 1, Len(for_(header)) - 1) \o <<[name |-> peer, blanks |-> 0]>>

\* The list that goes on, with the peer at its end.
from_info(peer, header) == Append(for_(header), [name |-> peer, blanks |-> 0])

\* Display: "by=...;for=..., for=...;host=...;proto=...".  The blanks that were
\* there stay in the names, and every element but the first gets one more.
fmt(fors) ==
    <<<<>>,
      [i \in DOMAIN fors |-> [fors[i] EXCEPT !.blanks = IF i = 1 THEN @ ELSE @ + 1]],
      <<>>, <<>>>>

\* The names of a list, in order.
NamesOf(fors) == [i \in DOMAIN fors |-> fors[i].name]
=============================================================================

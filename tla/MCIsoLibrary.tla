--------------------------- MODULE MCIsoLibrary ---------------------------
(* The names and symmetry of the TLC runs of IsoLibrary. *)
EXTENDS IsoLibrary, TLC

CONSTANTS a, b, sub_a

\* Two plain names.
PlainNames == [f \in Filenames |-> f]

\* One file under two names: the import override "sub/a.iso" is written to
\* a.iso and recorded as sub/a.iso.
AliasBase     == [f \in {a, sub_a} |-> a]
AliasDeclared == [f \in {a, sub_a} |-> f]

ClientSymmetry == Permutations(Clients)
===========================================================================

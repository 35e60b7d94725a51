--------------------------- MODULE MCBAMHandler ---------------------------
(* TLC instances of BAMHandler. *)
EXTENDS BAMHandler, TLC

\* Sources and PGNs are interchangeable to the handler.
Symmetry == Permutations(Sources) \cup Permutations(PGNs)

\* A full transfer, a header with no data, and one with no packets.
HeadersAll == {<<2, 2>>, <<0, 1>>, <<1, 0>>}

\* Transfers as a conforming sender announces them.
HeadersGood == {<<1, 1>>, <<2, 2>>}
===========================================================================

----------------------------- MODULE MCCatalog -----------------------------
(***************************************************************************)
(* Two uploads that list the same parts in opposite orders, and two        *)
(* enrichments, over a catalogue that knows one of the parts.              *)
(***************************************************************************)
EXTENDS Catalog

MCUploads == {"u1", "u2"}
MCEnrichments == {"e1", "e2"}
MCNames == {"a", "b"}
MCLines == [u \in MCUploads |-> IF u = "u1" THEN <<"a", "b">> ELSE <<"b", "a">>]
MCSeeded == <<"a">>

=============================================================================

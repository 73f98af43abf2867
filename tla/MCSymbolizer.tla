---------------------------- MODULE MCSymbolizer ----------------------------
(* Instances of Symbolizer for TLC: f1 is no ELF file, f2 is one,
   and f3 is one without debug information. *)
EXTENDS Symbolizer, TLC

CONSTANTS c1, c2, s1, s2, f1, f2, f3

MCKind == [f \in Files \cup {UpstreamFile} |->
            CASE f = f1 -> "invalid" [] f = f2 -> "ok" [] f = f3 -> "empty"]

=============================================================================

------------------------------ MODULE MCExplorer ------------------------------
(* A small instance of Explorer: two delta types with different labels and *)
(* one that is not a delta, opened without a query or from a link that     *)
(* carries no sum_by.                                                      *)
EXTENDS Explorer, TLC

MCTypes == {"cpu", "wall", "heap"}
MCDelta == {"cpu", "wall"}
MCLabelsOf == "cpu" :> {"comm"} @@ "wall" :> {"namespace"} @@ "heap" :> {"comm"}

MCEmpty == [expr |-> Blank, time |-> 1, sum |-> Null, merge |-> <<>>, sel |-> Blank,
            zoom |-> <<>>, group |-> FALSE, filters |-> {}]
MCLink == LET e == [type |-> "wall", m |-> ""]
          IN  [MCEmpty EXCEPT !.expr = e, !.merge = <<1>>, !.sel = e]
MCLinks == {MCEmpty, MCLink}
===============================================================================

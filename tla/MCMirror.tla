------------------------------ MODULE MCMirror ------------------------------
(***************************************************************************)
(* Licences 1 and 2 had and have call sign 1, and the licensee of 2 gets a *)
(* second licence, 3, later; 4 has a delimiter in its name.                *)
(***************************************************************************)
EXTENDS Browse

CONSTANTS f1, f2, f3

MCCall == <<1, 1, 2, 3>>
MCFrn == <<f1, f2, f2, f3>>
MCStyle == <<"plain", "split", "plain", "delimited">>
MCTouched == <<{1, 4}, {1, 2}, {2, 3}>>
MCLapses == <<9, 3, 9, 2>>

MCQueries ==
  {[kind |-> "browse", service |-> "ship", sort |-> "call_sign", order |-> "desc", status |-> None],
        [kind |-> "browse", service |-> "gmrs", sort |-> "entity_name", order |-> "asc", status |-> None],
        [kind |-> "browse", service |-> "amateur", sort |-> "call_sign", order |-> "asc", status |-> "A"],
        [kind |-> "browse", service |-> "gmrs", sort |-> "operator_class", order |-> "asc", status |-> None],
        [kind |-> "history", by |-> "subject", of |-> 1],
        [kind |-> "history", by |-> "frn", of |-> f2],
        [kind |-> "newhams", order |-> "asc"],
        [kind |-> "detail", of |-> 1], [kind |-> "detail", of |-> 2],
        [kind |-> "tower", of |-> 4],
        [kind |-> "search"], [kind |-> "identity", of |-> f2]}
  \cup {[kind |-> "tool", service |-> s, supplied |-> ToolArguments(s)] : s \in Services \cup {"tower"}}
=============================================================================

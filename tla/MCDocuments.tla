------------------------------ MODULE MCDocuments ------------------------------
(* Instances of Documents for TLC: of each validator a document that passes *)
(* and one for each way to fail, and every order of two bounds.             *)
EXTENDS Documents

Item(type, keys) == [dict |-> TRUE, keys |-> keys \cup {"type"}, type |-> type,
                     cooldown |-> "none"]
Scalar   == [Item("email", {}) EXCEPT !.dict = FALSE]
Untyped  == [Item("email", {"address", "template_id"}) EXCEPT !.keys = @ \ {"type"}]
List(s)  == [list |-> TRUE, items |-> s]
NotAList == [list |-> FALSE, items |-> <<>>]

Notify == Item("notification", {"template_id"})
Halt   == Item("stop_machine", {"machine_id"})

Actions ==
    {NotAList, List(<<>>), List(<<Notify, Halt>>), List(<<Notify, Untyped>>),
     List(<<Scalar>>), List(<<Item("notification", {"machine_id"})>>),
     List(<<Halt, Item("stop_machine", {})>>), List(<<Item("webhook", {})>>)}
    \cup {List(<<[Notify EXCEPT !.cooldown = kind]>>) :
              kind \in {"natural", "negative", "boolean", "text"}}

Recipients ==
    {NotAList, List(<<>>), List(<<Scalar>>), List(<<Untyped>>),
     List(<<Item("email", {"address"}), Item("sms", {"phone"})>>),
     List(<<Item("email", {"address"}), Item("email", {"phone"})>>),
     List(<<Item("webhook", {"url"}), Item("webhook", {"address"})>>),
     List(<<Item("pager", {"phone"})>>)}

MCRuleRow == {[action_config |-> a] : a \in Actions}
MCTemplateRow ==
    {[recipients |-> x, retry_count |-> n, retry_delay_minutes |-> d] :
         x \in Recipients, n \in {0, 1}, d \in {0, 1}}
MCTypeRow == [{"metric_min", "metric_max"} -> {Null, 1, 2}]
=============================================================================

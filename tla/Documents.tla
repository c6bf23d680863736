------------------------------- MODULE Documents -------------------------------
(***************************************************************************)
(* What the change forms of the admin let into the columns that have       *)
(* validators: Rule.action_config, NotificationTemplate.recipients and its *)
(* counters, and DeviceType.metric_min and metric_max, which clean()       *)
(* compares. Several requests work on one row at a time; fixtures, the     *)
(* shell and rows older than a validator pass no form.                     *)
(*                                                                         *)
(* A JSON document is what the validators tell apart: if it is a list,     *)
(* and of each item whether it is a dictionary, its keys, its type and the *)
(* kind of its cooldown. Null is None.                                     *)
(*                                                                         *)
(* The specification is named FormsSpec, so that one module can extend    *)
(* this one and BulkUpdate.                                                *)
(***************************************************************************)
EXTENDS Integers, Sequences

CONSTANTS Request,   \* requests that post a change form
          RuleRow, TemplateRow, TypeRow,  \* rows to consider, of each table
          Null

(* The columns of each table. Items are in a list; counters are integers.  *)
RowShape ==
    /\ \A r \in RuleRow : DOMAIN r = {"action_config"}
    /\ \A r \in TemplateRow :
           /\ DOMAIN r = {"recipients", "retry_count", "retry_delay_minutes"}
           /\ r.recipients.items \in Seq({r.recipients.items[k] :
                                             k \in DOMAIN r.recipients.items})
           /\ r.retry_count \in Int /\ r.retry_delay_minutes \in Int
    /\ \A r \in TypeRow : DOMAIN r = {"metric_min", "metric_max"}

ASSUME DocumentsAssumption == RowShape

VARIABLES model,    \* the model whose row this is
          row,      \* the row in the table
          by_form,  \* the row is as a form saved it
          instance, \* request -> the row it loaded, or Null
          cleaned   \* request -> cleaned_data, or Null

form_vars == <<model, row, by_form, instance, cleaned>>

RowsOf(m) == CASE m = "Rule" -> RuleRow
               [] m = "NotificationTemplate" -> TemplateRow
               [] m = "DeviceType" -> TypeRow

(* The first row comes from a fixture or from before the validators.       *)
FormsInit ==
    /\ model \in {"Rule", "NotificationTemplate", "DeviceType"}
    /\ row \in RowsOf(model)
    /\ by_form = FALSE
    /\ instance = [q \in Request |-> Null]
    /\ cleaned = [q \in Request |-> Null]

-----------------------------------------------------------------------------
Items(document) == {document.items[k] : k \in DOMAIN document.items}

(* A bool is an int in Python; an absent or null cooldown is no cooldown.  *)
IsCooldown(kind) == kind \in {"none", "natural", "boolean"}

validate_action_config(value) ==
    /\ value.list
    /\ \A item \in Items(value) :
        /\ item.dict
        /\ "type" \in item.keys
        /\ IsCooldown(item.cooldown)
        /\ item.type = "notification" => "template_id" \in item.keys
        /\ item.type = "stop_machine" => "machine_id" \in item.keys

(* An unknown type is refused here, and passes in an action.               *)
AddressKey == [email |-> "address", sms |-> "phone", webhook |-> "url"]

validate_recipients(value) ==
    /\ value.list
    /\ value.items # <<>>
    /\ \A item \in Items(value) :
        /\ item.dict
        /\ "type" \in item.keys
        /\ item.type \in DOMAIN AddressKey
        /\ AddressKey[item.type] \in item.keys

MinValueValidator(value) == value >= 1

(* DeviceType.clean                                                        *)
clean(r) ==
    r.metric_min # Null /\ r.metric_max # Null => r.metric_min < r.metric_max

(* A required field takes the empty list for a missing value.              *)
IsEmpty(document) == document.list /\ document.items = <<>>

is_valid(m, r) ==
    CASE m = "Rule" ->
            ~IsEmpty(r.action_config) /\ validate_action_config(r.action_config)
      [] m = "NotificationTemplate" ->
            /\ ~IsEmpty(r.recipients) /\ validate_recipients(r.recipients)
            /\ MinValueValidator(r.retry_count)
            /\ MinValueValidator(r.retry_delay_minutes)
      [] m = "DeviceType" -> clean(r)

(* A form is posted: the row is loaded and the values typed are validated. *)
(* A form with errors is shown again, and nothing is stored.               *)
Post(q, values) ==
    /\ cleaned[q] = Null
    /\ is_valid(model, values)
    /\ instance' = [instance EXCEPT ![q] = row]
    /\ cleaned' = [cleaned EXCEPT ![q] = values]
    /\ UNCHANGED <<model, row, by_form>>

(* Mutated: only the columns the form changed are saved.                   *)
columns_changed(q) ==
    [c \in DOMAIN row |-> IF cleaned[q][c] # instance[q][c] THEN cleaned[q][c]
                          ELSE row[c]]

(* save() writes each column of the form, changed or not.                  *)
columns(q) == [c \in DOMAIN row |-> cleaned[q][c]]

save(q) ==
    /\ cleaned[q] # Null
    /\ row' = columns(q)
    /\ by_form' = TRUE
    /\ instance' = [instance EXCEPT ![q] = Null]
    /\ cleaned' = [cleaned EXCEPT ![q] = Null]
    /\ UNCHANGED model

(* loaddata, create() and update() of a shell: no validator runs.          *)
Store(r) ==
    /\ row' = r
    /\ by_form' = FALSE
    /\ UNCHANGED <<model, instance, cleaned>>

FormsNext ==
    \/ \E q \in Request : \/ \E values \in RowsOf(model) : Post(q, values)
                          \/ save(q)
    \/ \E r \in RowsOf(model) : Store(r)

FormsSpec == FormsInit /\ [][FormsNext]_form_vars

-----------------------------------------------------------------------------
(* The schemas of the help texts and of docs/database_schema.md.           *)
Action(item) ==
    CASE ~item.dict \/ "type" \notin item.keys -> FALSE
      [] item.cooldown \in {"negative", "text"} -> FALSE
      [] item.type = "notification" -> "template_id" \in item.keys
      [] item.type = "stop_machine" -> "machine_id" \in item.keys
      [] OTHER -> TRUE

Recipient(item) ==
    /\ item.dict /\ "type" \in item.keys
    /\ <<item.type, TRUE>> \in {<<"email", "address" \in item.keys>>,
                                <<"sms", "phone" \in item.keys>>,
                                <<"webhook", "url" \in item.keys>>}

Documented ==
    CASE model = "Rule" ->
            /\ row.action_config.list
            /\ \A k \in DOMAIN row.action_config.items :
                   Action(row.action_config.items[k])
      [] model = "NotificationTemplate" ->
            /\ row.recipients.list /\ Len(row.recipients.items) > 0
            /\ \A k \in DOMAIN row.recipients.items :
                   Recipient(row.recipients.items[k])
            /\ row.retry_count > 0 /\ row.retry_delay_minutes > 0
      [] model = "DeviceType" ->
            Null \notin {row.metric_min, row.metric_max}
                => row.metric_min < row.metric_max

(* A row that a form was the last to store is as documented, whatever the  *)
(* row was before and whoever else changed another column of it between    *)
(* the load and the save of this request.                                  *)
FormsKeepDocuments == by_form => Documented
=============================================================================

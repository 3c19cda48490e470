----------------------------- MODULE NetopsTools -----------------------------
(***************************************************************************)
(* servers/netops/core.py and validation.py: what each tool advertises,    *)
(* what the validator makes of its arguments, and how the handler behind   *)
(* it ends.  What the handlers do to the tickets is NetopsStore.           *)
(*                                                                         *)
(* An argument is the keyword of the advertised schema it does not satisfy,*)
(* or, for one that satisfies all, what it turns out to be: something the  *)
(* store knows or not, a date that is past or not real.                    *)
(***************************************************************************)
EXTENDS FiniteSets

Keywords == [account_id  |-> {"type", "minLength"},
             phone       |-> {"type", "minLength"},
             region      |-> {"type", "enum"},
             active_only |-> {"type"},
             test_type   |-> {"type", "enum"},
             category    |-> {"type", "enum"},
             description |-> {"type", "minLength", "maxLength"},
             priority    |-> {"type", "enum"},
             ticket_id   |-> {"type", "minLength"},
             date        |-> {"type", "pattern"},
             time_window |-> {"type", "enum"}]

Properties == [lookup_account       |-> {"account_id", "phone"},
               check_service_status |-> {"account_id"},
               list_outages         |-> {"region", "active_only"},
               run_diagnostic       |-> {"account_id", "test_type"},
               open_ticket          |-> {"account_id", "category", "description", "priority"},
               get_ticket           |-> {"ticket_id"},
               schedule_visit       |-> {"ticket_id", "date", "time_window"}]

Mut_Required == [tool \in DOMAIN Properties |->
                     Properties[tool] \ {"phone", "region", "active_only", "priority",
                                         "category"}]

(* A search by account or by phone has to name one, which no schema says. *)
Required == [tool \in DOMAIN Properties |->
                IF tool = "lookup_account" THEN {}
                ELSE Properties[tool] \ {"region", "active_only", "priority"}]

Tool == DOMAIN Properties

Value(name) == Keywords[name] \cup {"known"} \cup
               CASE name \in {"account_id", "phone", "ticket_id"} -> {"unknown"}
                 [] name = "date" -> {"past", "unreal"}
                 [] OTHER -> {}

(* The params of a tools/call: a name, and arguments, which are an object  *)
(* or not; other arguments than these are not looked at.                   *)
NoArguments == [name \in {} |-> "known"]
NotAnObject == [name \in {"arguments"} |-> "type"]
Arguments(tool) ==
    UNION {{args \in [names -> UNION {Value(name) : name \in names}] :
               \A name \in names : args[name] \in Value(name)} :
           names \in SUBSET Properties[tool]}
Call == UNION {[name : {tool}, arguments : Arguments(tool) \cup {NotAnObject}] : tool \in Tool}
        \cup {[name |-> other, arguments |-> NoArguments] : other \in {"unknown", "bad"}}

-----------------------------------------------------------------------------
(* validate_arguments(): an absent or null object counts as an empty one. *)
Valid(tool, args) ==
    /\ args # NotAnObject
    /\ Required[tool] \subseteq DOMAIN args
    /\ \A name \in DOMAIN args : args[name] \notin Keywords[name]

(* What a handler takes from its arguments: a missing one, or one of       *)
(* another type where text is wanted, raises what nobody maps.             *)
Given(names, args, rest) == IF names \subseteq DOMAIN args THEN rest ELSE "internal_error"
Text(name, args) == name \in DOMAIN args /\ args[name] # "type"
Find(name, args, rest) ==
    CASE ~Text(name, args) -> "internal_error"
      [] Text(name, args) /\ args[name] = "known" -> rest
      [] OTHER -> "isError"

(* require_one_of() *)
OneOf(args) == {"account_id", "phone"} \cap DOMAIN args

OnDate(args) ==
    IF ~Text("date", args) THEN "internal_error"
    ELSE CASE args.date \in {"unreal", "pattern"} -> "invalid_params"
           [] args.date = "past" -> "isError"
           [] OTHER -> Given({"time_window"}, args, "result")

(* HANDLERS, with a store that does not fail. *)
Handler(tool, args) ==
    CASE tool = "lookup_account" ->
            IF Cardinality(OneOf(args)) # 1 THEN "invalid_params"
            ELSE Find(CHOOSE name \in OneOf(args) : TRUE, args, "result")
      [] tool = "check_service_status" -> Find("account_id", args, "result")
      [] tool = "list_outages" ->
            IF "region" \in DOMAIN args => Text("region", args) THEN "result" ELSE "internal_error"
      [] tool = "run_diagnostic" -> Find("account_id", args, Given({"test_type"}, args, "result"))
      [] tool = "open_ticket" ->
            Find("account_id", args, Given({"category", "description"}, args, "result"))
      [] tool = "get_ticket" -> Find("ticket_id", args, "result")
      [] tool = "schedule_visit" -> Find("ticket_id", args, OnDate(args))

(* handle_tools_call() and dispatch() *)
Dispatch(call) ==
    IF call.name \in Tool /\ Valid(call.name, call.arguments)
    THEN Handler(call.name, call.arguments) ELSE "invalid_params"

(* The handlers that end in NetopsStore._save(), which may fail. *)
Saves(call) == call.name \in {"open_ticket", "schedule_visit"} /\ Dispatch(call) = "result"

(* How a call may end. *)
Ends(call) == {Dispatch(call)} \cup IF Saves(call) THEN {"internal_error"} ELSE {}
=============================================================================

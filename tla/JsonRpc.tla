------------------------------- MODULE JsonRpc -------------------------------
(***************************************************************************)
(* host/mcp/jsonrpc.py: what parse_message makes of an envelope.           *)
(*                                                                         *)
(* An envelope is what its fields hold, as far as the code looks: a field  *)
(* may be absent, null, of a type the code accepts or of one it does not   *)
(* ("bad"; a boolean id is bad, though Python counts it as an integer).    *)
(* A string id may hold half a surrogate pair ("halved"): json.loads lets  *)
(* it through, but UTF-8 cannot write it; "?" is what stdio puts for it.   *)
(***************************************************************************)
CONSTANTS Id        \* integers and strings, as ids

ASSUME IdAssumption == {"absent", "null", "bad", "halved", "?"} \cap Id = {}

ValidId == Id \cup {"halved", "?"}

Method == {"initialize", "notifications/initialized", "ping", "tools/list",
           "tools/call", "other"}

Raw == [version : {"2.0", "bad"},
        id : Id \cup {"halved", "absent", "null", "bad"},
        method : Method \cup {"absent", "bad"},
        params : {"absent", "structured", "bad"},
        result : {"absent", "given"},
        error : {"absent", "object", "bad"}]

(* The checks that every message with a method goes through. *)
Called(raw) == raw.version = "2.0" /\ raw.method \in Method /\ raw.params # "bad"

(* Exactly one of result and error, and no method. *)
Answers(raw) == /\ raw.version = "2.0" /\ raw.method = "absent"
                /\ raw.result = "absent" <=> raw.error # "absent"

Parse(raw) ==
    CASE Called(raw) /\ raw.id \in ValidId -> "request"
      [] Called(raw) /\ raw.id = "absent" -> "notification"
      [] Answers(raw) /\ raw.result = "given" /\ raw.id \in ValidId -> "success"
      [] Answers(raw) /\ raw.error = "object" /\ raw.id # "bad" -> "error"
      [] OTHER -> "invalid"
=============================================================================

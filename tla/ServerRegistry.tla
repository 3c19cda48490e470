---------------------------- MODULE ServerRegistry ----------------------------
(***************************************************************************)
(* host/mcp/registry.py: the tables of the registry, and what each step of *)
(* connecting to a server does to them.  A tool is known by its qualified  *)
(* name alone; two servers may offer one name (server "a" with a tool      *)
(* "b__c" and server "a__b" with "c").                                     *)
(***************************************************************************)
CONSTANTS Server,     \* the names in configs
          QName       \* qualified tool names

VARIABLES transports, \* the keys of _transports
          clients,    \* the keys of clients
          failures,   \* the keys of failures
          tools       \* _tools: qualified name -> the server that owns it

NoTools == [q \in {} |-> {}]

RegistryInit ==
    /\ transports = {} /\ clients = {} /\ failures = {}
    /\ tools = NoTools

-----------------------------------------------------------------------------
(* The first of some servers, in the order of the configuration. *)
First(servers) == CHOOSE s \in servers : TRUE

(* connect_all() goes on to the next server. *)
IsNext(s) == s \notin transports /\ s = First(Server \ transports)

Begin(s) == /\ IsNext(s) /\ transports' = transports \cup {s}
            /\ UNCHANGED <<clients, failures, tools>>

AllTried == transports = Server

(* The handshake is over. *)
Connected(s) == /\ clients' = clients \cup {s}
                /\ UNCHANGED <<transports, failures, tools>>

(* An exception connect_all() catches. *)
Failed(s) == /\ failures' = failures \cup {s}
             /\ UNCHANGED <<transports, clients, tools>>

(* The loop over the listing, as far as it got: a later tool replaces an   *)
(* earlier one of its name.                                                *)
AddTools(s, names) ==
    /\ tools' = [q \in DOMAIN tools \cup names |-> IF q \in names THEN s ELSE tools[q]]
    /\ UNCHANGED <<transports, clients, failures>>

Mut_Clear == /\ transports' = {} /\ clients' = {}
             /\ UNCHANGED <<failures, tools>>

(* The end of close_all(); failures stay. *)
Clear == /\ transports' = {} /\ clients' = {} /\ tools' = NoTools
         /\ UNCHANGED failures
=============================================================================

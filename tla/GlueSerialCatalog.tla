------------------------- MODULE GlueSerialCatalog -------------------------
(***************************************************************************)
(* What the Glue Data Catalog promises its clients: commands take effect   *)
(* one at a time, each as a whole and at most once, on the catalog as it   *)
(* is at that moment, between the moment the client asks and the moment it *)
(* is answered.  "ok" means the command took effect; an error of the       *)
(* domain, that the catalog of such a moment refuses it; "busy" and        *)
(* "failed", that it did not take effect; "cancelled" leaves that open.    *)
(*                                                                         *)
(* No transaction, lock, draft or retry appears here.  GlueCatalogRefinement *)
(* shows that GlueCatalog implements this.                                 *)
(***************************************************************************)
CONSTANTS
  Clients,
  Answer(_, _),    \* what a catalog says to a command: "ok", or why it is refused
  After(_, _)      \* the catalog after a command it does not refuse

VARIABLES catalog, request

vars == <<catalog, request>>

\* The command a client has asked for, if any, and what it was told
Nothing == [command |-> {}, told |-> "none"]
Asked(command) == [command |-> {command}, told |-> "none"]
Told(command, outcome) == [command |-> {command}, told |-> outcome]

Becomes(c, r) == request' = [request EXCEPT ![c] = r]

Waits(c, command) == request[c] = Asked(command)

\* any catalog to start with
Init == request = [c \in Clients |-> Nothing]
-----------------------------------------------------------------------------
\* A client that is not waiting asks for something.
Ask(c) ==
  /\ \A command \in request[c].command : ~Waits(c, command)
  /\ \E command \in request'[c].command : Becomes(c, Asked(command))
  /\ UNCHANGED catalog

\* The command takes effect; a client that has gone away meanwhile is told so.
Serve(c) ==
  \E command \in request[c].command :
    /\ Waits(c, command)
    /\ Answer(catalog, command) = "ok" /\ catalog' = After(catalog, command)
    /\ \E outcome \in {"ok", "cancelled"} : Becomes(c, Told(command, outcome))

Refuse(c) ==
  \E command \in request[c].command :
    /\ Waits(c, command)
    /\ Answer(catalog, command) # "ok" /\ Becomes(c, Told(command, Answer(catalog, command)))
    /\ UNCHANGED catalog

GiveUp(c) ==
  \E command \in request[c].command :
    /\ Waits(c, command)
    /\ \E outcome \in {"busy", "failed", "cancelled"} : Becomes(c, Told(command, outcome))
    /\ UNCHANGED catalog

Return(c) ==
  /\ \A command \in request[c].command : ~Waits(c, command)
  /\ Becomes(c, Nothing)
  /\ UNCHANGED catalog

\* The optimizer starts and ends runs, and touches nothing else.
Optimize ==
  /\ catalog' = [catalog EXCEPT !.running = catalog'.running]
  /\ UNCHANGED request

Next == Optimize \/ \E c \in Clients : Ask(c) \/ Serve(c) \/ Refuse(c) \/ GiveUp(c) \/ Return(c)

Spec == Init /\ [][Next]_vars
=============================================================================

--------------------------- MODULE MCPublications ---------------------------
(* An instance of Publications for TLC. *)
EXTENDS Publications

\* Everything the pump tells of itself; and the commands, which is refused.
MCSubscribeRequests ==
    {{[category |-> "state", leaf |-> "#"], [category |-> "status", leaf |-> "#"]},
     {[category |-> "command", leaf |-> "#"]}}
=============================================================================

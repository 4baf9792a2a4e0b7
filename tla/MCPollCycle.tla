---------------------------- MODULE MCPollCycle ----------------------------
(* One day, published and republished; a sweep every second or third poll. *)
EXTENDS PollCycle
============================================================================

---------------------------- MODULE MCFrontEnds ----------------------------
(* The RPC loop and the interactive loop for TLC, side by side: part says which *)
(* of them a behaviour is about.                                                *)
EXTENDS RpcLoop, InteractiveLoop

VARIABLE part

MCInit ==
    /\ part \in {"rpc", "interactive"}
    /\ Init /\ InteractiveInit
    /\ part = "rpc" => /\ enabled /\ target = 0 /\ cli = 0
                       /\ default = [s \in Ids |-> CHOOSE p \in Profiles : TRUE]

MCNext ==
    /\ UNCHANGED part
    /\ \/ part = "rpc" /\ Next /\ UNCHANGED interactiveVars
       \/ part = "interactive" /\ InteractiveNext /\ UNCHANGED vars

\* The fair actions of the part that rests are disabled in its initial states.
MCSpec == MCInit /\ [][MCNext]_<<part, vars, interactiveVars>> /\ Fairness /\ InteractiveFairness
=============================================================================

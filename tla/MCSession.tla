----------------------------- MODULE MCSession -----------------------------
(* A session for TLC: its log over faults and restarts, its log over branches,   *)
(* and the prompt turns that fill it, side by side; part says which of them a     *)
(* behaviour is about.                                                           *)
EXTENDS SessionLog, PromptTurn, TLC

CONSTANTS
    Parts  \* the parts that are checked: a subset of {"faults", "branches", "prompt"}

(* Clients and coordinator are at their richest with a short agent run, the     *)
(* recording of a long run with the few commands of a terminal, that of tools    *)
(* which end in any order with no commands at all.                              *)
Turns == [f \in Fronts |-> IF f = "rpc" THEN 1 ELSE 2]
Calls == [f \in Fronts |-> CASE f = "rpc" -> 0 [] f = "ui" -> 1 [] f = "print" -> 2]

(* Control ids are only compared for equality. *)
Symmetry == Permutations(ControlIds)

VARIABLE part

(* Faults are at their worst in two operations with messages and tool calls;     *)
(* a branch, a return to an older leaf and a fork take three short ones.          *)
Bounded ==
    /\ part = "faults" => used.ops <= 2
    /\ part = "branches" => faults <= 1 /\ Items = {} /\ tx.of # "edit"

(* The coordinator treats a follow-up like a steering text; the terminal sends    *)
(* all three kinds of command.                                                   *)
SteerOrAbort == front = "rpc" => \A i \in DOMAIN accepted : accepted[i].kind # "FollowUp"

MCInit ==
    /\ part \in Parts
    /\ Init /\ PromptInit
    /\ part # "prompt" => front = CHOOSE f \in Fronts : TRUE

MCNext ==
    /\ UNCHANGED part
    /\ \/ part # "prompt" /\ Next /\ Bounded' /\ UNCHANGED promptTurnVars
       \/ part = "prompt" /\ PromptNext /\ SteerOrAbort' /\ UNCHANGED vars

MCSpec == MCInit /\ [][MCNext]_<<part, vars, promptTurnVars>>
=============================================================================

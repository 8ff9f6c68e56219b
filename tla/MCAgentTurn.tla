----------------------------- MODULE MCAgentTurn -----------------------------
(* AgentTurn for TLC, in two scopes: one run with many texts whose replies fill   *)
(* the context, so that it is compacted; and two runs of one agent, prompted and   *)
(* nothing else, with replies that do not.  Every message weighs one token.        *)
EXTENDS AgentTurn

CONSTANTS Scopes  \* a subset of {"texts", "runs"}

OneEach == [kind \in MessageKinds |-> 1]
TwoConfigs == {[steer |-> "all", follow |-> "one"], [steer |-> "one", follow |-> "all"]}

VARIABLE scope

Bounded ==
    /\ scope = "texts" => runs <= 1 /\ (ctx.reply = NoReply \/ ctx.reply.usage = 3)
    /\ scope = "runs" => steering = <<>> /\ follow = <<>> /\ ctx.reply.usage = 0

MCInit ==
    /\ Init /\ scope \in Scopes
    /\ scope = "runs" => config.steer = "all"
MCNext == UNCHANGED scope /\ Next /\ Bounded'
MCSpec == MCInit /\ [][MCNext]_<<scope, vars>> /\ WF_vars(RunStep)
==============================================================================

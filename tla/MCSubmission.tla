---------------------------- MODULE MCSubmission ----------------------------
(* Submission for TLC, in two scopes: two operations over two generations of   *)
(* the client's connection; and one operation whose client reads its state      *)
(* meanwhile and may acknowledge ahead of the newest event.                     *)
EXTENDS Submission

VARIABLE scope

Bounded ==
    /\ scope = "operations" =>
        /\ lease.st = "Prepared" => lease.kind \in {"prompt", "nested"}
        /\ owner.pc = "admitting" => owner.kind \in {"prompt", "nested"}
        /\ \A c \in Clients : view[c].st = "none" /\ acked[c] < next
    /\ scope = "reader" =>
        /\ lease.st = "Prepared" => lease.kind # "nested"
        /\ owner.pc = "admitting" => operations = 0 /\ owner.kind # "nested"
        /\ \A c \in Clients : generation[c] <= 1

MCInit == Init /\ scope \in {"operations", "reader"}
MCNext == UNCHANGED scope /\ Next /\ Bounded'
MCSpec == MCInit /\ [][MCNext]_<<scope, vars>> /\ Fairness
=============================================================================

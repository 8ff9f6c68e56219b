----------------------------- MODULE EventFeed -----------------------------
(***************************************************************************)
(* What the product event stream promises its clients, without numbering,    *)
(* windows, channels or replays: events are published one after the other,   *)
(* a client knows a prefix of them that only grows, it acknowledges what it   *)
(* knows, and a client that stays attached comes to know every event.         *)
(* EventStream is shown to implement this (EventStream!ImplementsFeed).       *)
(***************************************************************************)
EXTENDS Naturals

CONSTANTS
    Clients,   \* consumers of the stream
    MaxEvents  \* bound: how many events are published

VARIABLES
    published,  \* how many events there are
    attached,   \* per client: it is being served
    known,      \* per client: it knows the events up to this one
    confirmed   \* per client: it has acknowledged the events up to this one

feed == <<published, attached, known, confirmed>>

Init ==
    /\ published = 0
    /\ attached = [c \in Clients |-> FALSE]
    /\ known = [c \in Clients |-> 0]
    /\ confirmed = [c \in Clients |-> 0]

Publish ==
    /\ published < MaxEvents
    /\ published' = published + 1
    /\ UNCHANGED <<attached, known, confirmed>>

(* A client attaches or is served on: it learns of any number of events, and    *)
(* may acknowledge up to where it then is.                                      *)
Serve(c) ==
    \E n \in known[c]..published, a \in BOOLEAN :
        /\ known' = [known EXCEPT ![c] = n]
        /\ attached' = [attached EXCEPT ![c] = a]
        /\ \E m \in confirmed[c]..n : confirmed' = [confirmed EXCEPT ![c] = m]
        /\ UNCHANGED published

Next == Publish \/ \E c \in Clients : Serve(c)

\* What may happen to the feed, without what must happen.
Safety == Init /\ [][Next]_feed

(* Every event comes to the knowledge of a client that stays attached.          *)
Delivered ==
    \A c \in Clients, n \in 1..MaxEvents :
        (attached[c] /\ published >= n) ~> (known[c] >= n \/ ~attached[c])

Spec == Safety /\ Delivered
=============================================================================

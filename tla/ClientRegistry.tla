--------------------------- MODULE ClientRegistry ---------------------------
(***************************************************************************)
(* The client registry of SnapshotCoordinator: client identities, their      *)
(* connection generations, and the lifecycle of the runtime.  Every action   *)
(* is one critical section of the coordinator's state lock; modules that     *)
(* extend this one add what they keep per client.                            *)
(***************************************************************************)
EXTENDS Naturals, FiniteSets

CONSTANTS
    Clients,         \* client ids that may connect
    MaxClients,      \* MAX_CLIENTS, 64 in the product
    MaxGeneration    \* bound: how often an id connects

ASSUME RegistryAssumption ==
    /\ MaxClients \in Nat
    /\ MaxGeneration \in Nat \ {0}

VARIABLES
    lifecycle,   \* runtime_lifecycle
    generation,  \* per client: the record's generation, 0 when there is no record
    connection   \* per client: ConnectionLifecycle of the current generation

registry == <<lifecycle, generation, connection>>

Lifecycles == {"Running", "ShuttingDown", "ShutDown"}
Connections == {"Attached", "ShuttingDown", "Detached"}

RegistryInit ==
    /\ lifecycle = "Running"
    /\ generation = [c \in Clients |-> 0]
    /\ connection = [c \in Clients |-> "Detached"]

RegistryTypeOK ==
    /\ lifecycle \in Lifecycles
    /\ generation \in [Clients -> Nat]
    /\ connection \in [Clients -> Connections]

\* A ClientHandle is a client id and a generation; every one ever issued may
\* still be in some adapter's hands.
Handles(c) == {[id |-> c, gen |-> g] : g \in 1..generation[c]}
Issued == UNION {Handles(c) : c \in Clients}

\* record(), validate_client(): the handle may change or read client state.
Valid(h) ==
    /\ lifecycle = "Running"
    /\ generation[h.id] = h.gen
    /\ connection[h.id] = "Attached"

\* validate_receiver(): the receiver of this handle may still deliver.
Deliverable(h) ==
    /\ lifecycle # "ShutDown"
    /\ generation[h.id] = h.gen
    /\ connection[h.id] # "Detached"

\* connect_or_takeover.
ConnectOrTakeover(c) ==
    /\ lifecycle = "Running"
    /\ generation[c] < MaxGeneration
    /\ \/ generation[c] > 0
       \/ Cardinality({d \in Clients : generation[d] > 0}) < MaxClients
    /\ generation' = [generation EXCEPT ![c] = @ + 1]
    /\ connection' = [connection EXCEPT ![c] = "Attached"]
    /\ UNCHANGED lifecycle

\* detach; AlreadyDetached and StaleGeneration change nothing.
DetachClient(h) ==
    /\ Valid(h)
    /\ connection' = [connection EXCEPT ![h.id] = "Detached"]
    /\ UNCHANGED <<lifecycle, generation>>

\* request_shutdown, by the owner or through CodingAgentRuntimeShutdownHandle.
CloseRegistry ==
    /\ lifecycle = "Running"
    /\ lifecycle' = "ShuttingDown"
    /\ connection' = [c \in Clients |->
                        IF connection[c] = "Attached" THEN "ShuttingDown" ELSE connection[c]]
    /\ UNCHANGED generation

\* finish_shutdown.
SealRegistry ==
    /\ lifecycle = "ShuttingDown"
    /\ lifecycle' = "ShutDown"
    /\ connection' = [c \in Clients |->
                        IF connection[c] = "ShuttingDown" THEN "Detached" ELSE connection[c]]
    /\ UNCHANGED generation
=============================================================================

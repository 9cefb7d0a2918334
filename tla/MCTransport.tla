----------------------------- MODULE MCTransport -----------------------------
(* Small instances of Transport for TLC. *)
EXTENDS Transport, TLC

Client(style, reconnect, beating, worker, late) ==
    [style |-> style, reconnect |-> reconnect, beats |-> beating, worker |-> worker,
     lateHandshake |-> late]

(* The clients of a user, with and without reconnection and heartbeat, and those of
   the workers, which have no heartbeat. *)
AllClients ==
    {Client(style, reconnect, beating, FALSE, late) :
        style \in {"sync", "async"}, reconnect \in BOOLEAN, beating \in BOOLEAN,
        late \in BOOLEAN}
    \cup {Client(style, reconnect, FALSE, TRUE, FALSE) :
            style \in {"sync", "async"}, reconnect \in BOOLEAN}

AsyncWorkers == {Client("async", TRUE, FALSE, TRUE, FALSE)}
=============================================================================

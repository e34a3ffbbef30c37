------------------------------- MODULE Peers --------------------------------
(***************************************************************************)
(* The coordinator agent of cmd/aire-peers: on a request of the client it   *)
(* starts one goroutine per worker agent, which invokes it over the shared  *)
(* connection to the other node, and a goroutine that closes the channel    *)
(* when all of them are done; what comes out of the channel it sends on to  *)
(* the client.  The operations on the shared connection are those of        *)
(* Operation; the client's operation is reduced to the frames on it.        *)
(***************************************************************************)
EXTENDS Operation

CONSTANTS
    Targets,    \* the worker agents, in the order of the loop
    Capacity    \* of the channel

Worker == {Targets[i] : i \in DOMAIN Targets}

ASSUME PeersAssumption ==
    /\ Targets \in Seq(Task) /\ Targets # <<>>
    /\ \A i, j \in DOMAIN Targets : Targets[i] = Targets[j] => i = j
    /\ \A w \in Worker : Wants[w] = 1 /\ Replies[w] = 1
    /\ Capacity \in Nat

VARIABLES
    spawned,    \* number of workers started
    workerPc,   \* each worker: "none", "running", "exit" or "done"
    wg,         \* the counter of wg
    closer,     \* the goroutine that closes the channel: "none", "wait" or "done"
    out,        \* the channel's buffer, by worker
    panicked,   \* was there a send on the closed channel?
    coord,      \* the coordinator: "spawn", "range" or "returned"
    link,       \* the client's connection: "up" or "closed"
    toClient,   \* chunks the client has not received yet
    got,        \* chunks the client has received
    client      \* the client: "recv", "complete" or "failed"

coordVars == <<spawned, workerPc, wg, closer, out, panicked, coord, link, toClient, got, client>>
vars == <<opVars, coordVars>>

Init ==
    /\ OpInit
    /\ spawned = 0
    /\ workerPc = [w \in Worker |-> "none"]
    /\ wg = 0
    /\ closer = "none"
    /\ out = <<>>
    /\ panicked = FALSE
    /\ coord = "spawn"
    /\ link = "up"
    /\ toClient = <<>>
    /\ got = <<>>
    /\ client = "recv"

-----------------------------------------------------------------------------
(* The coordinator.                                                         *)

StartWorker == workerPc' = [workerPc EXCEPT ![Targets[spawned + 1]] = "running"]

Spawn_AddInWorker ==
    /\ coord = "spawn" /\ spawned < Len(Targets)
    /\ spawned' = spawned + 1
    /\ StartWorker
    /\ UNCHANGED <<opVars, wg, closer, out, panicked, coord, link, toClient, got, client>>

Spawn ==
    /\ coord = "spawn" /\ spawned < Len(Targets)
    /\ spawned' = spawned + 1
    /\ wg' = wg + 1
    /\ StartWorker
    /\ UNCHANGED <<opVars, closer, out, panicked, coord, link, toClient, got, client>>

SpawnCloser ==
    /\ coord = "spawn" /\ spawned = Len(Targets)
    /\ closer' = "wait"
    /\ coord' = "range"
    /\ UNCHANGED <<opVars, spawned, workerPc, wg, out, panicked, link, toClient, got, client>>

(* The client's end of inv.Op.Send.                                         *)
SendToClient(w) ==
    \/ link = "up" /\ toClient' = Append(toClient, w) /\ UNCHANGED coord
    \/ link = "closed" /\ coord' = "returned" /\ UNCHANGED toClient

Forward_AfterAll ==
    /\ coord = "range" /\ closer = "done"
    /\ \/ out # <<>> /\ out' = Tail(out) /\ SendToClient(Head(out))
       \/ out = <<>> /\ coord' = "returned" /\ UNCHANGED <<out, toClient>>
    /\ UNCHANGED <<opVars, spawned, workerPc, wg, closer, panicked, link, got, client>>

(* One round of the range over the channel.  After an error, and when the   *)
(* channel is closed, the agent returns and its operation is closed.        *)
Forward ==
    /\ coord = "range"
    /\ \/ out # <<>> /\ out' = Tail(out) /\ SendToClient(Head(out))
       \/ out = <<>> /\ closer = "done" /\ coord' = "returned" /\ UNCHANGED <<out, toClient>>
    /\ UNCHANGED <<opVars, spawned, workerPc, wg, closer, panicked, link, got, client>>

-----------------------------------------------------------------------------
(* The workers and the goroutine that closes the channel.                   *)

WorkerPut_Unbuffered(w) ==
    /\ workerPc[w] = "running" /\ callPc[w] = "ok"
    /\ out = <<>> /\ coord = "range"
    /\ out' = Append(out, w)
    /\ panicked' = (panicked \/ closer = "done")
    /\ workerPc' = [workerPc EXCEPT ![w] = "exit"]
    /\ UNCHANGED <<opVars, spawned, wg, closer, coord, link, toClient, got, client>>

WorkerPut(w) ==
    /\ workerPc[w] = "running" /\ callPc[w] = "ok"
    /\ Len(out) < Capacity
    /\ out' = Append(out, w)
    /\ panicked' = (panicked \/ closer = "done")
    /\ workerPc' = [workerPc EXCEPT ![w] = "exit"]
    /\ UNCHANGED <<opVars, spawned, wg, closer, coord, link, toClient, got, client>>

WorkerFails(w) ==
    /\ workerPc[w] = "running" /\ callPc[w] \in Outcomes \ {"ok"}
    /\ workerPc' = [workerPc EXCEPT ![w] = "exit"]
    /\ UNCHANGED <<opVars, spawned, wg, closer, out, panicked, coord, link, toClient, got, client>>

WorkerDone(w) ==
    /\ workerPc[w] = "exit"
    /\ wg' = wg - 1
    /\ workerPc' = [workerPc EXCEPT ![w] = "done"]
    /\ UNCHANGED <<opVars, spawned, closer, out, panicked, coord, link, toClient, got, client>>

CloseOut_FirstDone ==
    /\ closer = "wait" /\ \E w \in Worker : workerPc[w] = "done"
    /\ closer' = "done"
    /\ UNCHANGED <<opVars, spawned, workerPc, wg, out, panicked, coord, link, toClient, got, client>>

CloseOut ==
    /\ closer = "wait" /\ wg = 0
    /\ closer' = "done"
    /\ UNCHANGED <<opVars, spawned, workerPc, wg, out, panicked, coord, link, toClient, got, client>>

-----------------------------------------------------------------------------
(* The client receives one chunk per worker; any error ends it.             *)
ClientRecv ==
    /\ client = "recv"
    /\ \/ /\ toClient # <<>>
          /\ got' = Append(got, Head(toClient)) /\ toClient' = Tail(toClient)
          /\ client' = IF Len(got) + 1 = Len(Targets) THEN "complete" ELSE "recv"
       \/ /\ link = "closed" \/ (toClient = <<>> /\ coord = "returned")
          /\ client' = "failed"
          /\ UNCHANGED <<got, toClient>>
    /\ UNCHANGED <<opVars, spawned, workerPc, wg, closer, out, panicked, coord, link>>

LinkCloses ==
    /\ link = "up" /\ client = "recv"
    /\ link' = "closed"
    /\ UNCHANGED <<opVars, spawned, workerPc, wg, closer, out, panicked, coord, toClient, got, client>>

(* A worker's calls are made by its goroutine; other tasks come as they may.*)
Invoking(t) ==
    /\ IF t \in Worker THEN workerPc[t] = "running" ELSE t \in admitted
    /\ Caller(t)
    /\ UNCHANGED coordVars
Accepting(e) == AcceptOperation(e) /\ UNCHANGED coordVars
Serving(id) == Serve(id) /\ UNCHANGED coordVars
Losing == ConnCloses /\ UNCHANGED coordVars

Coordinator == Spawn \/ SpawnCloser \/ Forward
Finishing(w) == WorkerPut(w) \/ WorkerFails(w) \/ WorkerDone(w)

Next ==
    \/ \E t \in Task : Invoking(t)
    \/ \E e \in End : Accepting(e)
    \/ \E id \in DOMAIN served : Serving(id)
    \/ Losing \/ LinkCloses
    \/ Coordinator \/ CloseOut \/ ClientRecv
    \/ \E w \in Worker : Finishing(w)

Spec == Init /\ [][Next]_vars

(* The goroutines of the coordinator, the client and the other node run     *)
(* when they can, and agents other than the slow ones do their work.        *)
ServingOf(t) == \E id \in DOMAIN served : stream[t] = id /\ Serving(id)

Fairness ==
    /\ \A w \in Worker : WF_vars(Invoking(w) \/ Finishing(w))
    /\ \A w \in Worker : WF_vars(Accepting(Other(Opener[w])))
    /\ \A w \in Worker \ Slow : WF_vars(ServingOf(w))
    /\ WF_vars(Coordinator) /\ WF_vars(CloseOut) /\ WF_vars(ClientRecv)

FairSpec == Spec /\ Fairness

-----------------------------------------------------------------------------
(* The channel is closed (line 121) only when no worker will send on it any *)
(* more: a send on a closed channel would panic and take the node down.     *)
NoSendOnClosedChannel == ~panicked

(* The client that completes has the answer of every worker once; and it    *)
(* fails only when a connection was lost or a worker got no stream because  *)
(* its context had ended (main.go:83-89, 123-128).                          *)
AllChunksOrLoss ==
    /\ client = "complete" => {got[i] : i \in DOMAIN got} = Worker
    /\ client = "failed" => \/ conn = "closed" \/ link = "closed"
                            \/ \E w \in Worker : callPc[w] = "no stream"

(* main.go:15: "the faster worker's reply reaches the coordinator (and the  *)
(* client) without waiting on the slower one": unless a connection is lost, *)
(* the client gets the reply of every worker that is not slow, also when a  *)
(* slow one never answers.                                                  *)
FastReplyReachesClient ==
    \A w \in Worker \ Slow :
        workerPc[w] = "running" /\ callPc[w] = "send" ~>
            (\E i \in DOMAIN got : got[i] = w) \/ conn = "closed" \/ link = "closed"

(* Nothing is left behind when the shared connection goes away: the workers,*)
(* the goroutine that closes the channel and the coordinator all end,       *)
(* whatever became of the client in the meantime.                           *)
NothingLeftBehind ==
    conn = "closed" ~>
        /\ \A w \in Worker : workerPc[w] = "done"
        /\ closer = "done" /\ coord = "returned" /\ client # "recv"

=============================================================================

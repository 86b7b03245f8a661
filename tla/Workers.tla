------------------------------ MODULE Workers -------------------------------
(***************************************************************************)
(* Dedicated workers: ResearchWorkerHost, the isolated runtime of each     *)
(* worker, the Worker object a page sees, and the tasks that carry a       *)
(* worker's messages to the page's event loop                              *)
(* (crates/syljs/src/worker.rs).                                           *)
(*                                                                         *)
(* Everything happens on one thread: postMessage runs the worker's         *)
(* callbacks and its own event loop to the end before it returns, so each  *)
(* call of the page is one step.  What a script does in one run of its VM  *)
(* is a record of type WorkerRun.                                          *)
(***************************************************************************)
EXTENDS Naturals, Sequences, SequencesExt, Collections

CONSTANTS
  MaxWorkers,     \* bound: workers a page creates
  MaxListeners,   \* bound: message listeners a page adds to one worker
  MaxMessages,    \* bound: messages a page sends to one worker
  MaxReplies      \* bound: messages a worker posts in one run

ASSUME WorkersAssumption ==
  /\ MaxWorkers \in Nat /\ MaxListeners \in Nat
  /\ MaxMessages \in Nat /\ MaxReplies \in Nat

VARIABLES
  workers,      \* the workers created so far, by id
  listeners,    \* listeners[w]: for each listener of w, w's inbound count when it was added
  mainTasks,    \* message events waiting in the page's event loop
  heard         \* ghost: heard[w][l] is the messages listener l of w was called with

workersVars == <<workers, listeners, mainTasks, heard>>

(* What the script of a worker does in one run: how many messages it       *)
(* posts, whether it ends up with a message callback, asks to close,       *)
(* throws (itself or in a job), or hits a limit of its event loop.         *)
WorkerRun == [replies: 0 .. MaxReplies, listens: BOOLEAN, closes: BOOLEAN,
              throws: BOOLEAN, limited: BOOLEAN]

(* WorkerScopeState and the VM behind it.  A message a worker posts is its *)
(* number among those of that worker; posted is a ghost that numbers them. *)
WorkerScope == [outbox: Seq(Nat), posted: Nat, listens: BOOLEAN,
                closeRequested: BOOLEAN, jobsLeft: BOOLEAN]

NewScope == [outbox |-> <<>>, posted |-> 0, listens |-> FALSE,
             closeRequested |-> FALSE, jobsLeft |-> FALSE]

(* A dropped runtime leaves nothing behind. *)
NoRuntime == NewScope

Ended == {"terminated", "failed"}

WorkerStateData == [state: {"active"} \cup Ended, received: Nat, inbound: Nat,
                    scope: WorkerScope]

(* The state a run leaves: its messages are in the outbox, nobody else has *)
(* seen them.                                                              *)
ScopeAfter(scope, run) ==
  [outbox |-> scope.outbox \o [i \in 1 .. run.replies |-> scope.posted + i],
   posted |-> scope.posted + run.replies,
   listens |-> run.listens,
   closeRequested |-> scope.closeRequested \/ run.closes,
   jobsLeft |-> run.limited]

(* With no callback to call and no job left over nothing runs at all. *)
Idle(scope) == ~scope.listens /\ ~scope.jobsLeft

Does(scope, run) ==
  Idle(scope) => run = [replies |-> 0, listens |-> FALSE, closes |-> FALSE,
                        throws |-> FALSE, limited |-> FALSE]

-----------------------------------------------------------------------------
WorkersInit ==
  /\ workers = <<>>
  /\ listeners = <<>>
  /\ mainTasks = <<>>
  /\ heard = <<>>

(* new Worker(url): the script runs, then its event loop.  What it posts   *)
(* stays in its outbox, and a close() it asks for is only noted.           *)
CreateWorker(run) ==
  /\ Len(workers) < MaxWorkers
  /\ workers' = Append(workers,
       [state |-> IF run.throws THEN "failed" ELSE "active",
        received |-> 0, inbound |-> 0, scope |-> ScopeAfter(NewScope, run)])
  /\ listeners' = Append(listeners, <<>>)
  /\ heard' = Append(heard, <<>>)
  /\ UNCHANGED mainTasks

(* addEventListener("message", f), and assigning onmessage, which adds f   *)
(* to the same list.                                                       *)
AddMainEventListener(w) ==
  /\ Len(listeners[w]) < MaxListeners
  /\ listeners' = [listeners EXCEPT ![w] = Append(@, workers[w].inbound)]
  /\ heard' = [heard EXCEPT ![w] = Append(@, <<>>)]
  /\ UNCHANGED <<workers, mainTasks>>

(* worker.terminate() drops the runtime; what it sent stays queued. *)
Terminate(w) ==
  /\ workers[w].state # "terminated"
  /\ workers' = [workers EXCEPT ![w].state = "terminated", ![w].scope = NoRuntime]
  /\ UNCHANGED <<listeners, mainTasks, heard>>

(* Mutant of CanReceive: a failed worker still takes messages. *)
NotTerminated(worker) == worker.state # "terminated"

CanReceive(worker) == worker.state = "active"

(* What postMessage leaves when a callback or a job threw: the messages of *)
(* the run are drained and dropped.                                        *)
FailedWorker(worker, scope) ==
  [worker EXCEPT !.state = "failed", !.received = @ + 1,
                 !.scope = [scope EXCEPT !.outbox = <<>>]]

(* ... and when it did not: close() takes effect after the responses. *)
ServedWorker(worker, scope) ==
  [state |-> IF scope.closeRequested THEN "terminated" ELSE "active",
   received |-> worker.received + 1,
   inbound |-> worker.inbound + Len(scope.outbox),
   scope |-> IF scope.closeRequested THEN NoRuntime ELSE [scope EXCEPT !.outbox = <<>>]]

(* One task for each response and each listener there is now. *)
WorkerMessageTasks(w, responses) ==
  FlattenSeq([i \in 1 .. Len(responses) |->
    [l \in 1 .. Len(listeners[w]) |-> [worker |-> w, listener |-> l, message |-> responses[i]]]])

(* worker.postMessage(m) on a worker that is not active does nothing. *)
PostMessageToWorker(w, run) ==
  LET scope == ScopeAfter(workers[w].scope, run) IN
  /\ CanReceive(workers[w])
  /\ workers[w].received < MaxMessages
  /\ Does(workers[w].scope, run)
  /\ \/ /\ run.throws
        /\ workers' = [workers EXCEPT ![w] = FailedWorker(@, scope)]
        /\ UNCHANGED mainTasks
     \/ /\ ~run.throws
        /\ workers' = [workers EXCEPT ![w] = ServedWorker(@, scope)]
        /\ mainTasks' = mainTasks \o WorkerMessageTasks(w, scope.outbox)
  /\ UNCHANGED <<listeners, heard>>

(* The page's event loop calls a listener with the next message event. *)
RunMainTask ==
  /\ mainTasks # <<>>
  /\ LET task == Head(mainTasks) IN
       heard' = [heard EXCEPT ![task.worker][task.listener] = Append(@, task.message)]
  /\ mainTasks' = Tail(mainTasks)
  /\ UNCHANGED <<workers, listeners>>

WorkersNext ==
  \/ \E run \in WorkerRun : CreateWorker(run)
  \/ \E w \in DOMAIN workers :
       \/ AddMainEventListener(w)
       \/ Terminate(w)
       \/ \E run \in WorkerRun : PostMessageToWorker(w, run)
  \/ RunMainTask

WorkersSpec == WorkersInit /\ [][WorkersNext]_workersVars

-----------------------------------------------------------------------------
(* The messages of w still on their way to its listener l. *)
OnTheWay(w, l) ==
  LET mine == InOrder({i \in 1 .. Len(mainTasks) : mainTasks[i].worker = w
                                                     /\ mainTasks[i].listener = l})
  IN  [n \in 1 .. Len(mine) |-> mainTasks[mine[n]].message]

(* Each listener hears, in order and once each, every message its worker   *)
(* handed over since the listener was added, whatever the other workers    *)
(* and listeners do and even if the worker is terminated meanwhile         *)
(* (queue_worker_message over drain_outbox).                               *)
ListenersHearEveryMessage ==
  \A w \in DOMAIN workers : \A l \in DOMAIN listeners[w] :
    heard[w][l] \o OnTheWay(w, l) =
      [i \in 1 .. workers[w].inbound - listeners[w][l] |-> listeners[w][l] + i]

(* A worker that ended, by terminate(), close() or an error, stays ended:  *)
(* it takes no message and hands none over.  A worker that asked to close  *)
(* is still active only if it did so while booting and has had no message. *)
EndedWorkersStayEnded ==
  [][\A w \in DOMAIN workers :
       /\ workers[w].state \in Ended =>
            /\ workers'[w].state \in {workers[w].state, "terminated"}
            /\ workers'[w].received = workers[w].received
            /\ workers'[w].inbound = workers[w].inbound
       /\ workers'[w].state = "active" /\ workers'[w].scope.closeRequested =>
            workers'[w].received = 0]_workersVars

(* Type invariant. *)
WorkersTypeOK ==
  /\ workers \in Seq(WorkerStateData) /\ Len(workers) \in 0 .. MaxWorkers
  /\ \A i \in DOMAIN mainTasks : mainTasks[i].worker \in DOMAIN workers

(* Workers neither lose a message, nor hear one after their end: both hold *)
(* of every step (worker.rs: drain_outbox, terminate, close).             *)
WorkersKeepTheirMessages == EndedWorkersStayEnded /\ [][WorkersTypeOK' /\ ListenersHearEveryMessage']_workersVars

=============================================================================

------------------------------ MODULE EventLoop ------------------------------
(***************************************************************************)
(* The deterministic JavaScript event loop of SylJS and the driver that    *)
(* drains it: JsEventLoop and ScheduledVm::run_until_idle                  *)
(* (crates/syljs/src/event_loop.rs).                                       *)
(*                                                                         *)
(* Scheduling calls come from a script run by the host or from the         *)
(* callback of the job in hand; a callback is the set of calls it makes    *)
(* before it returns or throws.  Virtual time is kept relative: a timer    *)
(* holds the milliseconds left until it is due, so the states are finite   *)
(* however long the loop runs.                                             *)
(***************************************************************************)
EXTENDS Integers, Sequences, FiniteSetsExt, Collections

CONSTANTS
  MaxTimers,      \* bound on timer ids
  Delays,         \* the delays scripts ask for, after js_delay_ms and the cap
  MaxTasks,       \* bound on tasks a script leaves queued
  MaxMicrotasks,  \* bound on queued microtasks
  MaxFrames,      \* bound on requested animation frames
  MaxJobs,        \* EventLoopConfig::max_jobs_per_run
  MaxAdvances,    \* EventLoopConfig::max_timer_advances
  AutoAdvances,   \* the choices of EventLoopConfig::auto_advance_time
  MayThrow        \* whether callbacks may throw

TimerIds == 1 .. MaxTimers

ASSUME LoopAssumption ==
  /\ MaxTimers \in Nat
  /\ Delays \subseteq Nat
  /\ {MaxTasks, MaxMicrotasks, MaxFrames, MaxJobs, MaxAdvances} \subseteq Nat
  /\ AutoAdvances \subseteq BOOLEAN
  /\ MayThrow \in BOOLEAN

VARIABLES
  timers,      \* the timers waiting, by id: time left, delay, repeat
  nextTimer,   \* next_timer_id
  cancelled,   \* cancelled_timers
  tasks,       \* the macrotask queue
  microtasks,  \* the microtask queue
  frames,      \* number of requested animation frames
  phase,       \* "script": outside run_until_idle; "loop": at its head;
               \* "call": in the callback of job
  job,         \* the job popped last
  jobs,        \* jobs_executed of this run
  advances,    \* timer_advances of this run
  autoAdvance, \* EventLoopConfig::auto_advance_time, the same for ever
  owed         \* ghost: timers set whose callback the script still expects

vars == <<timers, nextTimer, cancelled, tasks, microtasks, frames,
          phase, job, jobs, advances, autoAdvance, owed>>

loopVars == <<phase, job, jobs, advances, autoAdvance>>

-----------------------------------------------------------------------------
(* Jobs                                                                    *)

Job(kind) == [kind |-> kind, timer |-> 0, delay |-> 0]

TimerJob(t) ==
  [kind |-> IF timers[t].repeat THEN "interval" ELSE "timeout",
   timer |-> t, delay |-> timers[t].delay]

NoJob == Job("none")

MicrotaskKinds == {"microtask", "reaction"}

\* promote_due_timers, `elapsed` milliseconds from now: the ids that are
\* due, in id order (a BTreeMap), as jobs; cancelled ones are dropped.
Due(elapsed) == {t \in DOMAIN timers : timers[t].left <= elapsed}

Promoted(elapsed) ==
  LET ids == InOrder(Due(elapsed) \ cancelled)
  IN  [i \in 1 .. Len(ids) |-> TimerJob(ids[i])]

\* Mutant of Waiting: due timers are taken out but the clock does not move.
ClockStandsStill(elapsed) == [t \in DOMAIN timers \ Due(elapsed) |-> timers[t]]

\* The timers that stay, after `elapsed` milliseconds.
Waiting(elapsed) ==
  [t \in DOMAIN timers \ Due(elapsed) |->
     [timers[t] EXCEPT !.left = @ - elapsed]]

-----------------------------------------------------------------------------
(* Calls a script or a callback makes                                      *)

MayCall == phase \in {"script", "call"}

\* Mutant of SetTimer: an id cleared before it was handed out stays cancelled.
SetTimerStaysCancelled(delay, repeat) ==
  /\ MayCall
  /\ nextTimer <= MaxTimers
  /\ nextTimer' = nextTimer + 1
  /\ timers' = Insert(timers, nextTimer,
                      [left |-> delay, delay |-> delay, repeat |-> repeat])
  /\ owed' = owed \cup {nextTimer}
  /\ UNCHANGED <<cancelled, tasks, microtasks, frames, loopVars>>

SetTimer(delay, repeat) ==
  /\ MayCall
  /\ nextTimer <= MaxTimers
  /\ nextTimer' = nextTimer + 1
  /\ cancelled' = cancelled \ {nextTimer}
  /\ timers' = Insert(timers, nextTimer,
                      [left |-> delay, delay |-> delay, repeat |-> repeat])
  /\ owed' = owed \cup {nextTimer}
  /\ UNCHANGED <<tasks, microtasks, frames, loopVars>>

\* clear_timer takes any number, the id of a timer or not.
ClearTimer(t) ==
  /\ MayCall
  /\ timers' = [u \in DOMAIN timers \ {t} |-> timers[u]]
  /\ cancelled' = cancelled \cup {t}
  /\ owed' = owed \ {t}
  /\ UNCHANGED <<nextTimer, tasks, microtasks, frames, loopVars>>

QueueMicrotask(kind) ==
  /\ MayCall
  /\ Len(microtasks) < MaxMicrotasks
  /\ microtasks' = Append(microtasks, Job(kind))
  /\ UNCHANGED <<timers, nextTimer, cancelled, tasks, frames, loopVars, owed>>

\* The DOM, media and worker hosts queue their events as tasks.
QueueTask ==
  /\ MayCall
  /\ Len(tasks) < MaxTasks
  /\ tasks' = Append(tasks, Job("task"))
  /\ UNCHANGED <<timers, nextTimer, cancelled, microtasks, frames, loopVars, owed>>

RequestAnimationFrame ==
  /\ MayCall
  /\ frames < MaxFrames
  /\ frames' = frames + 1
  /\ UNCHANGED <<timers, nextTimer, cancelled, tasks, microtasks, loopVars, owed>>

CancelAnimationFrame ==
  /\ MayCall
  /\ frames > 0
  /\ frames' = frames - 1
  /\ UNCHANGED <<timers, nextTimer, cancelled, tasks, microtasks, loopVars, owed>>

\* advance_time, called by an embedder between runs.
AdvanceTime(elapsed) ==
  /\ phase = "script"
  /\ tasks' = tasks \o Promoted(elapsed)
  /\ timers' = Waiting(elapsed)
  /\ UNCHANGED <<nextTimer, cancelled, microtasks, frames, loopVars, owed>>

-----------------------------------------------------------------------------
(* run_until_idle                                                          *)

RunUntilIdle ==
  /\ phase = "script"
  /\ phase' = "loop"
  /\ jobs' = 0
  /\ advances' = 0
  /\ UNCHANGED <<autoAdvance, timers, nextTimer, cancelled, tasks, microtasks, frames, job, owed>>

HasPendingWork ==
  \/ microtasks # <<>>
  \/ tasks # <<>>
  \/ DOMAIN timers # {}
  \/ frames > 0

\* The loop is left when nothing is pending or max_jobs_per_run is reached.
ReturnIdleOrLimited ==
  /\ phase = "loop"
  /\ ~HasPendingWork \/ jobs >= MaxJobs
  /\ phase' = "script"
  /\ UNCHANGED <<autoAdvance, timers, nextTimer, cancelled, tasks, microtasks, frames,
                 job, jobs, advances, owed>>

\* The job pop_ready_job hands out goes to the VM.
StartCall(next) ==
  /\ phase' = "call"
  /\ job' = next
  /\ UNCHANGED <<autoAdvance, nextTimer, cancelled, jobs, owed>>

CanPop == phase = "loop" /\ HasPendingWork /\ jobs < MaxJobs

\* Every pop first promotes the timers that are due.
Ready == tasks \o Promoted(0)

PopMicrotask ==
  /\ CanPop
  /\ microtasks # <<>>
  /\ StartCall(Head(microtasks))
  /\ microtasks' = Tail(microtasks)
  /\ tasks' = Ready
  /\ timers' = Waiting(0)
  /\ UNCHANGED <<autoAdvance, frames, advances>>

PopTask ==
  /\ CanPop
  /\ microtasks = <<>>
  /\ Ready # <<>>
  /\ StartCall(Head(Ready))
  /\ tasks' = Tail(Ready)
  /\ timers' = Waiting(0)
  /\ UNCHANGED <<autoAdvance, microtasks, frames, advances>>

\* Mutant of PopAnimationFrame: a frame takes a millisecond of virtual time.
FrameTakesTime ==
  /\ CanPop
  /\ microtasks = <<>>
  /\ Ready = <<>>
  /\ frames > 0
  /\ StartCall(Job("frame"))
  /\ tasks' = [i \in 1 .. frames - 1 |-> Job("frame")] \o Promoted(1)
  /\ frames' = 0
  /\ timers' = Waiting(1)
  /\ UNCHANGED <<autoAdvance, microtasks, advances>>

PopAnimationFrame ==
  /\ CanPop
  /\ microtasks = <<>>
  /\ Ready = <<>>
  /\ frames > 0
  /\ StartCall(Job("frame"))
  /\ tasks' = [i \in 1 .. frames - 1 |-> Job("frame")]
  /\ frames' = 0
  /\ timers' = Waiting(0)
  /\ UNCHANGED <<autoAdvance, microtasks, advances>>

\* Mutant of TimeToNextTimer: time moves to the last deadline.
TimeToLastTimer == Max({timers[t].left : t \in DOMAIN timers})

\* Nothing is ready: virtual time moves to the next deadline.
TimeToNextTimer == Min({timers[t].left : t \in DOMAIN timers})

QueuesAreEmpty == microtasks = <<>> /\ Ready = <<>> /\ frames = 0

PopAfterAdvance ==
  /\ CanPop
  /\ QueuesAreEmpty
  /\ autoAdvance
  /\ advances < MaxAdvances
  /\ advances' = advances + 1
  /\ LET next == Promoted(TimeToNextTimer)
     IN  /\ StartCall(Head(next))
         /\ tasks' = Tail(next)
  /\ timers' = Waiting(TimeToNextTimer)
  /\ UNCHANGED <<autoAdvance, microtasks, frames>>

\* The advance that exceeds max_timer_advances: the job has been popped when
\* the limit is seen, and run_until_idle returns without it.
AdvanceBeyondLimit ==
  /\ CanPop
  /\ QueuesAreEmpty
  /\ autoAdvance
  /\ advances >= MaxAdvances
  /\ advances' = advances + 1
  /\ LET next == Promoted(TimeToNextTimer)
     IN  /\ job' = Head(next)
         /\ tasks' = Tail(next)
  /\ timers' = Waiting(TimeToNextTimer)
  /\ phase' = "script"
  /\ UNCHANGED <<autoAdvance, nextTimer, cancelled, microtasks, frames, jobs, owed>>

\* Without auto_advance_time a timer that is not due ends the run.
NothingReady ==
  /\ CanPop
  /\ QueuesAreEmpty
  /\ ~autoAdvance
  /\ phase' = "script"
  /\ UNCHANGED <<autoAdvance, timers, nextTimer, cancelled, tasks, microtasks, frames,
                 job, jobs, advances, owed>>

\* The callback returns; complete_job puts an interval back.
CallReturns ==
  /\ phase = "call"
  /\ phase' = "loop"
  /\ jobs' = jobs + 1
  /\ \/ /\ job.kind = "interval"
        /\ job.timer \notin cancelled
        /\ timers' = Insert(timers, job.timer,
                            [left |-> job.delay, delay |-> job.delay, repeat |-> TRUE])
        /\ owed' = owed
     \/ /\ job.kind # "interval" \/ job.timer \in cancelled
        /\ timers' = timers
        /\ owed' = owed \ {job.timer}
  /\ UNCHANGED <<autoAdvance, nextTimer, cancelled, tasks, microtasks, frames, job, advances>>

\* The callback throws: the error leaves run_until_idle at once.
CallThrows ==
  /\ phase = "call"
  /\ MayThrow
  /\ phase' = "script"
  /\ UNCHANGED <<autoAdvance, timers, nextTimer, cancelled, tasks, microtasks, frames,
                 job, jobs, advances, owed>>

-----------------------------------------------------------------------------

Init ==
  /\ timers = [t \in {} |-> NoJob]
  /\ nextTimer = 1
  /\ cancelled = {}
  /\ tasks = <<>>
  /\ microtasks = <<>>
  /\ frames = 0
  /\ phase = "script"
  /\ job = NoJob
  /\ jobs = 0
  /\ advances = 0
  /\ autoAdvance \in AutoAdvances
  /\ owed = {}

ScriptCall ==
  \/ \E delay \in Delays, repeat \in BOOLEAN : SetTimer(delay, repeat)
  \/ \E t \in TimerIds : ClearTimer(t)
  \/ \E kind \in MicrotaskKinds : QueueMicrotask(kind)
  \/ QueueTask
  \/ RequestAnimationFrame
  \/ CancelAnimationFrame

LoopStep ==
  \/ ReturnIdleOrLimited
  \/ PopMicrotask
  \/ PopTask
  \/ PopAnimationFrame
  \/ PopAfterAdvance
  \/ AdvanceBeyondLimit
  \/ NothingReady

Next ==
  \/ ScriptCall
  \/ \E elapsed \in Delays : AdvanceTime(elapsed)
  \/ RunUntilIdle
  \/ LoopStep
  \/ CallReturns
  \/ CallThrows

\* A run goes on until it returns, a callback ends (the VM bounds its
\* steps), and the embedder drains the loop again while work is pending.
Fairness ==
  /\ WF_vars(LoopStep)
  /\ WF_vars(CallReturns)
  /\ WF_vars(RunUntilIdle)

Spec == Init /\ [][Next]_vars /\ Fairness

-----------------------------------------------------------------------------
(* Properties                                                              *)

JobKinds == {"none", "task", "timeout", "interval", "frame"} \cup MicrotaskKinds

QueuedJob == [kind : JobKinds, timer : TimerIds \cup {0}, delay : Delays \cup {0}]

\* Type invariant.
TypeOK ==
  /\ nextTimer \in 1 .. MaxTimers + 1
  /\ DOMAIN timers \subseteq 1 .. nextTimer - 1
  /\ \A t \in DOMAIN timers :
       timers[t] \in [left : Int, delay : Delays, repeat : BOOLEAN]
  /\ cancelled \subseteq TimerIds
  /\ tasks \in Seq(QueuedJob)
  /\ microtasks \in Seq(QueuedJob)
  /\ frames \in 0 .. MaxFrames
  /\ phase \in {"script", "loop", "call"}
  /\ job \in QueuedJob
  /\ jobs \in 0 .. MaxJobs
  /\ advances \in 0 .. MaxAdvances + 1
  /\ owed \subseteq 1 .. nextTimer - 1

\* The places a timer can be: waiting, promoted, or being called.
PlacesOf(t) ==
  {<<"timers", u>> : u \in DOMAIN timers \cap {t}}
    \cup {<<"tasks", i>> : i \in {k \in 1 .. Len(tasks) : tasks[k].timer = t}}
    \cup {<<"job", u>> : u \in IF phase = "call" THEN {job.timer} \cap {t} ELSE {}}

\* A timer is never in two places: an interval is not waiting while its
\* callback is queued or running, so it cannot pile up.
TimerIsInOnePlace ==
  \A t \in TimerIds : Cardinality(PlacesOf(t)) <= 1

\* A timer the script set and did not clear is still waiting, queued or
\* running until its callback has returned (checked where callbacks do not
\* throw and the advance limit is out of reach): clearing an id before it
\* is handed out, or clearing other timers, never loses it.
OwedTimersAreSomewhere ==
  \A t \in owed : PlacesOf(t) # {}

\* A cleared timer is not waiting any more, and an interval cleared by its
\* own callback is not put back.
ClearedTimersDoNotWait == DOMAIN timers \cap cancelled = {}

\* No timer is doubled, lost or kept after it was cleared, whatever scripts
\* and callbacks call in between.
TimersAreKept ==
  /\ TypeOK
  /\ TimerIsInOnePlace
  /\ OwedTimersAreSomewhere
  /\ ClearedTimersDoNotWait

\* Microtasks run before any task, timer or frame, and virtual time stands
\* still while a callback is ready to run: the timers that stay keep their
\* distance unless the loop had nothing else to do.
ReadyWorkComesFirst ==
  [][phase = "loop" =>
       /\ phase' = "call" /\ microtasks # <<>> => job'.kind \in MicrotaskKinds
       /\ microtasks # <<>> \/ tasks # <<>> \/ frames > 0 =>
            \A t \in DOMAIN timers \cap DOMAIN timers' : timers'[t].left = timers[t].left]_vars

\* The timers that virtual time jumps to all had the same deadline: none is
\* stepped over, and none is called before one that was due earlier.
TimeStopsAtEveryDeadline ==
  [][advances' > advances =>
       \A t, u \in DOMAIN timers \ DOMAIN timers' : timers[t].left = timers[u].left]_vars

\* As long as the loop keeps running out of ready work (scripts do not
\* queue frames, tasks or 0 ms intervals without end), every timer that
\* waits is taken out to be called, or cleared, however many shorter
\* intervals keep firing before it.
WaitingTimersFire ==
  []<>(CanPop /\ QueuesAreEmpty) =>
    \A t \in TimerIds : t \in DOMAIN timers ~> t \notin DOMAIN timers

\* "Clears a timeout/interval": the callback of a cleared timer is not
\* called any more.
ClearedTimersDoNotFire ==
  [][phase = "loop" /\ phase' = "call" => job'.timer \notin cancelled]_vars

=============================================================================

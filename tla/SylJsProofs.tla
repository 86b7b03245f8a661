----------------------------- MODULE SylJsProofs -----------------------------
(***************************************************************************)
(* Theorems about SylJS.  EventLoop: no timer is doubled, lost or kept     *)
(* after it was cleared, ready work comes first, and virtual time stops at *)
(* every deadline, for any number of timers, tasks, frames and jobs.       *)
(* JsLexer: the tokens of any source are the source, with only white space *)
(* and comments between them.  PageScripts: every script of a page, every  *)
(* task, microtask and event is accounted for, and the page is what its    *)
(* scripts make of it in turn, for any page and any texts.                 *)
(***************************************************************************)
EXTENDS EventLoop, JsLexer, PageScripts, CollectionsProofs, SequenceTheorems

-----------------------------------------------------------------------------
(* The inductive invariant                                                 *)

\* The jobs whose timer was handed out before id n.
JobsBelow(n) ==
  {j \in QueuedJob : j.timer < n /\ (j.kind = "interval" => j.timer # 0 /\ j.delay \in Delays)}

Microjobs == {j \in QueuedJob : j.kind \in MicrotaskKinds /\ j.timer = 0}

\* The timer whose callback is running.
Running == IF phase = "call" THEN {job.timer} \ {0} ELSE {}

\* With the timers `waiting`, the tasks `queue` and the timers `running`, no
\* timer is in two places.
OnlyOnce(waiting, queue, running) ==
  /\ \A i \in 1 .. Len(queue) : queue[i].timer # 0 => queue[i].timer \notin waiting \cup running
  /\ \A i, j \in 1 .. Len(queue) : queue[i].timer = queue[j].timer /\ queue[i].timer # 0 => i = j
  /\ waiting \cap running = {}

InSomePlace(t, waiting, queue, running) ==
  \/ t \in waiting \cup running
  \/ \E i \in 1 .. Len(queue) : queue[i].timer = t

TimersOK ==
  /\ nextTimer \in 1 .. MaxTimers + 1
  /\ DOMAIN timers \subseteq 1 .. nextTimer - 1
  /\ \A t \in DOMAIN timers : timers[t] \in [left : Int, delay : Delays, repeat : BOOLEAN]
  /\ cancelled \subseteq TimerIds
  /\ DOMAIN timers \cap cancelled = {}
  /\ owed \subseteq 1 .. nextTimer - 1

QueuesOK ==
  /\ tasks \in Seq(JobsBelow(nextTimer))
  /\ microtasks \in Seq(Microjobs)
  /\ frames \in 0 .. MaxFrames
  /\ job \in JobsBelow(nextTimer)

\* The limits of a run are looked at before a job is taken.
CountsOK ==
  /\ phase \in {"script", "loop", "call"}
  /\ jobs \in 0 .. MaxJobs
  /\ advances \in 0 .. MaxAdvances + 1
  /\ phase # "script" => advances <= MaxAdvances
  /\ phase = "call" => jobs < MaxJobs

LoopInv ==
  /\ TimersOK
  /\ QueuesOK
  /\ CountsOK
  /\ OnlyOnce(DOMAIN timers, tasks, Running)

-----------------------------------------------------------------------------
(* Jobs and queues                                                         *)

\* The jobs of a script belong to no timer; ids that are handed out later
\* take nothing away.
LEMMA JobTypes ==
  /\ \A kind \in JobKinds \ {"interval"}, n \in Nat \ {0} : Job(kind) \in JobsBelow(n)
  /\ \A kind \in MicrotaskKinds : Job(kind) \in Microjobs
  /\ \A n \in Nat \ {0} : Microjobs \subseteq JobsBelow(n)
  /\ \A n \in Nat : JobsBelow(n) \subseteq JobsBelow(n + 1)
  /\ \A n \in Nat : \A j \in JobsBelow(n) : j.timer \in Nat /\ j.timer < n
BY DEF JobKinds, MicrotaskKinds, Job, JobsBelow, Microjobs, QueuedJob, TimerIds

\* A job without a timer may be queued anywhere.
LEMMA OnceAppend ==
  ASSUME NEW S, NEW queue \in Seq(S), NEW j \in S, j.timer = 0,
         NEW waiting, NEW running, OnlyOnce(waiting, queue, running)
  PROVE  /\ OnlyOnce(waiting, Append(queue, j), running)
         /\ \A t : InSomePlace(t, waiting, queue, running)
                     => InSomePlace(t, waiting, Append(queue, j), running)
<1> DEFINE longer == Append(queue, j)
<1>1. /\ Len(longer) = Len(queue) + 1
      /\ \A i \in 1 .. Len(queue) : longer[i] = queue[i]
      /\ longer[Len(queue) + 1] = j
      /\ Len(queue) \in Nat
  BY AppendProperties, LenProperties
<1> HIDE DEF longer
<1>2. \A i \in 1 .. Len(longer) : i \in 1 .. Len(queue) \/ longer[i].timer = 0
  BY <1>1
<1>3. OnlyOnce(waiting, longer, running)
  BY <1>1, <1>2 DEF OnlyOnce
<1>4. \A i \in 1 .. Len(queue) : i \in 1 .. Len(longer) /\ longer[i] = queue[i]
  BY <1>1
<1>5. \A t : InSomePlace(t, waiting, queue, running)
               => InSomePlace(t, waiting, longer, running)
  BY <1>4 DEF InSomePlace
<1> QED
  BY <1>3, <1>5 DEF longer

\* Timers that leave the waiting ones for the end of the queue are still in
\* one place.
LEMMA OnceConcat ==
  ASSUME NEW S, NEW queue \in Seq(S), NEW due \in Seq(S), NEW waiting, NEW stay,
         OnlyOnce(waiting, queue, {}),
         stay \subseteq waiting,
         \A i \in 1 .. Len(due) : due[i].timer \in waiting \ stay,
         \A i, j \in 1 .. Len(due) : due[i].timer = due[j].timer => i = j,
         \A t \in waiting \ stay : \E i \in 1 .. Len(due) : due[i].timer = t
  PROVE  /\ OnlyOnce(stay, queue \o due, {})
         /\ \A t : InSomePlace(t, waiting, queue, {})
                     => InSomePlace(t, stay, queue \o due, {})
<1> DEFINE all == queue \o due
<1>1. /\ Len(all) = Len(queue) + Len(due)
      /\ \A i \in 1 .. Len(queue) + Len(due) :
           all[i] = IF i <= Len(queue) THEN queue[i] ELSE due[i - Len(queue)]
      /\ Len(queue) \in Nat /\ Len(due) \in Nat
  BY ConcatProperties, LenProperties
<1> HIDE DEF all
<1>2. \A i \in 1 .. Len(all) :
        \/ i \in 1 .. Len(queue) /\ all[i] = queue[i]
        \/ i - Len(queue) \in 1 .. Len(due) /\ all[i] = due[i - Len(queue)]
  BY <1>1
<1>3. \A i \in 1 .. Len(all) : all[i].timer # 0 => all[i].timer \notin stay
  BY <1>2 DEF OnlyOnce
<1>4. ASSUME NEW i \in 1 .. Len(all), NEW j \in 1 .. Len(all),
             all[i].timer = all[j].timer, all[i].timer # 0
      PROVE  i = j
  <2>1. CASE i \in 1 .. Len(queue) /\ j \in 1 .. Len(queue)
    BY <1>1, <1>4, <2>1 DEF OnlyOnce
  <2>2. CASE i \in 1 .. Len(queue) /\ j \notin 1 .. Len(queue)
    BY <1>1, <1>2, <1>4, <2>2 DEF OnlyOnce
  <2>3. CASE i \notin 1 .. Len(queue) /\ j \in 1 .. Len(queue)
    BY <1>1, <1>2, <1>4, <2>3 DEF OnlyOnce
  <2>4. CASE i \notin 1 .. Len(queue) /\ j \notin 1 .. Len(queue)
    BY <1>1, <1>2, <1>4, <2>4
  <2> QED
    BY <2>1, <2>2, <2>3, <2>4
<1>5. ASSUME NEW t, InSomePlace(t, waiting, queue, {})
      PROVE  InSomePlace(t, stay, all, {})
  <2>1. CASE t \in stay
    BY <2>1 DEF InSomePlace
  <2>2. CASE t \in waiting \ stay
    <3>1. PICK i \in 1 .. Len(due) : due[i].timer = t
      BY <2>2
    <3>2. /\ i + Len(queue) \in 1 .. Len(all)
          /\ ~(i + Len(queue) <= Len(queue))
          /\ i + Len(queue) - Len(queue) = i
      BY <1>1
    <3>3. all[i + Len(queue)] = due[i]
      BY <1>1, <3>2
    <3> QED
      BY <3>1, <3>2, <3>3 DEF InSomePlace
  <2>3. CASE \E i \in 1 .. Len(queue) : queue[i].timer = t
    <3>1. PICK i \in 1 .. Len(queue) : queue[i].timer = t
      BY <2>3
    <3>2. i \in 1 .. Len(all) /\ all[i] = queue[i]
      BY <1>1
    <3> QED
      BY <3>1, <3>2 DEF InSomePlace
  <2> QED
    BY <1>5, <2>1, <2>2, <2>3 DEF InSomePlace
<1> QED
  BY <1>3, <1>4, <1>5 DEF OnlyOnce, all

\* The job that is taken from the queue runs, and is nowhere else.
LEMMA OnceTail ==
  ASSUME NEW n \in Nat, NEW queue \in Seq(JobsBelow(n)), queue # <<>>, NEW waiting,
         OnlyOnce(waiting, queue, {})
  PROVE  /\ OnlyOnce(waiting, Tail(queue), {Head(queue).timer} \ {0})
         /\ OnlyOnce(waiting, Tail(queue), {})
         /\ \A t : t # 0 /\ InSomePlace(t, waiting, queue, {})
                     => InSomePlace(t, waiting, Tail(queue), {Head(queue).timer} \ {0})
         /\ Head(queue) \in JobsBelow(n) /\ Tail(queue) \in Seq(JobsBelow(n))
<1> DEFINE rest == Tail(queue)
<1>1. /\ Head(queue) \in JobsBelow(n) /\ rest \in Seq(JobsBelow(n))
      /\ Len(rest) = Len(queue) - 1
      /\ \A i \in 1 .. Len(rest) : rest[i] = queue[i + 1]
      /\ Len(queue) \in Nat \ {0}
      /\ Head(queue) = queue[1]
  BY HeadTailProperties, LenProperties, EmptySeq
<1> HIDE DEF rest
<1>2. \A i \in 1 .. Len(rest) : i + 1 \in 1 .. Len(queue) /\ 1 \in 1 .. Len(queue) /\ i + 1 # 1
  BY <1>1
<1>3. \A i \in 1 .. Len(rest) : rest[i].timer # 0 =>
        rest[i].timer \notin waiting /\ rest[i].timer # queue[1].timer
  <2> SUFFICES ASSUME NEW i \in 1 .. Len(rest), rest[i].timer # 0
               PROVE  rest[i].timer \notin waiting /\ rest[i].timer # queue[1].timer
    OBVIOUS
  <2> DEFINE k == i + 1
  <2>1. k \in 1 .. Len(queue) /\ 1 \in 1 .. Len(queue) /\ k # 1
    BY <1>2
  <2>2. rest[i] = queue[k]
    BY <1>1
  <2> HIDE DEF k
  <2> QED
    BY <2>1, <2>2 DEF OnlyOnce
<1>4. ASSUME NEW i \in 1 .. Len(rest), NEW j \in 1 .. Len(rest),
             rest[i].timer = rest[j].timer, rest[i].timer # 0
      PROVE  i = j
  <2> DEFINE a == i + 1
             b == j + 1
  <2>1. a = b
    <3>1. a \in 1 .. Len(queue) /\ b \in 1 .. Len(queue)
      BY <1>2
    <3>2. rest[i] = queue[a] /\ rest[j] = queue[b]
      BY <1>1
    <3> HIDE DEF a, b
    <3> QED
      BY <1>4, <3>1, <3>2 DEF OnlyOnce
  <2> QED
    BY <1>1, <2>1
<1>5. waiting \cap ({queue[1].timer} \ {0}) = {}
  BY <1>1 DEF OnlyOnce
<1>6. ASSUME NEW t, t # 0, InSomePlace(t, waiting, queue, {})
      PROVE  InSomePlace(t, waiting, rest, {queue[1].timer} \ {0})
  <2>1. CASE t \in waiting
    BY <2>1 DEF InSomePlace
  <2>2. CASE \E i \in 1 .. Len(queue) : queue[i].timer = t
    <3>1. PICK i \in 1 .. Len(queue) : queue[i].timer = t
      BY <2>2
    <3>2. CASE i = 1
      BY <1>6, <3>1, <3>2 DEF InSomePlace
    <3>3. CASE i # 1
      <4>1. i - 1 \in 1 .. Len(rest) /\ (i - 1) + 1 = i
        BY <1>1, <3>3
      <4>2. rest[i - 1] = queue[i]
        BY <1>1, <4>1
      <4> QED
        BY <3>1, <4>1, <4>2 DEF InSomePlace
    <3> QED
      BY <3>2, <3>3
  <2> QED
    BY <1>6, <2>1, <2>2 DEF InSomePlace
<1> QED
  BY <1>1, <1>3, <1>4, <1>5, <1>6 DEF OnlyOnce, rest

-----------------------------------------------------------------------------
(* Timers that become due                                                  *)

\* The job of a waiting timer names it.
LEMMA TimerJobType ==
  ASSUME TimersOK, NEW t \in DOMAIN timers
  PROVE  /\ TimerJob(t) \in JobsBelow(nextTimer)
         /\ TimerJob(t).timer = t
<1>1. /\ t \in TimerIds /\ t < nextTimer /\ t # 0
      /\ timers[t].delay \in Delays /\ timers[t].repeat \in BOOLEAN
  BY LoopAssumption DEF TimersOK, TimerIds
<1> QED
  BY <1>1 DEF TimerJob, JobsBelow, QueuedJob, JobKinds

\* There are finitely many timers.
LEMMA FiniteTimers ==
  ASSUME TimersOK
  PROVE  IsFiniteSet(DOMAIN timers)
<1> DEFINE ids == 1 .. nextTimer - 1
<1>1. DOMAIN timers \in SUBSET ids /\ nextTimer - 1 \in Int
  BY DEF TimersOK
<1>2. IsFiniteSet(ids)
  BY <1>1, FS_Interval
<1> HIDE DEF ids
<1> QED
  BY <1>1, <1>2, FS_Subset

\* promote_due_timers makes one job of each timer that is due.
LEMMA PromotedFacts ==
  ASSUME TimersOK, NEW elapsed \in Int
  PROVE  /\ Promoted(elapsed) \in Seq(JobsBelow(nextTimer))
         /\ \A i \in 1 .. Len(Promoted(elapsed)) : Promoted(elapsed)[i].timer \in Due(elapsed)
         /\ \A i, j \in 1 .. Len(Promoted(elapsed)) :
              Promoted(elapsed)[i].timer = Promoted(elapsed)[j].timer => i = j
         /\ \A t \in Due(elapsed) :
              \E i \in 1 .. Len(Promoted(elapsed)) : Promoted(elapsed)[i].timer = t
<1> DEFINE due == Due(elapsed)
           ids == InOrder(due)
<1>1. due \ cancelled = due /\ due \subseteq DOMAIN timers
  BY DEF TimersOK, Due
<1>2. due \in SUBSET Int /\ IsFiniteSet(due)
  <2>1. due \in SUBSET (DOMAIN timers) /\ DOMAIN timers \in SUBSET Int
    BY <1>1 DEF TimersOK
  <2> HIDE DEF due
  <2>2. IsFiniteSet(due)
    BY <2>1, FiniteTimers, FS_Subset
  <2> QED
    BY <2>1, <2>2
<1> HIDE DEF due
<1>3. /\ EnumeratesInOrder(ids, due)
      /\ Len(ids) = Cardinality(due)
      /\ Cardinality(due) \in Nat
  BY <1>2, InOrderEnumerates, FS_CardinalityType
<1> DEFINE n == Cardinality(due)
<1>4. Promoted(elapsed) = [i \in 1 .. n |-> TimerJob(ids[i])]
  BY <1>1, <1>3 DEF Promoted, due
<1> HIDE DEF ids
<1>5. /\ \A i \in 1 .. n : ids[i] \in due
      /\ \A t \in due : \E i \in 1 .. n : ids[i] = t
      /\ \A i, j \in 1 .. n : i < j => ids[i] < ids[j]
  BY <1>3 DEF EnumeratesInOrder
<1> HIDE DEF n
<1>6. \A i \in 1 .. n : /\ TimerJob(ids[i]) \in JobsBelow(nextTimer)
                        /\ TimerJob(ids[i]).timer = ids[i]
  BY <1>1, <1>5, TimerJobType
<1>7. n \in Nat
  BY <1>3 DEF n
<1>8. /\ Promoted(elapsed) \in Seq(JobsBelow(nextTimer))
      /\ Len(Promoted(elapsed)) = n
      /\ \A i \in 1 .. n : Promoted(elapsed)[i].timer = ids[i]
  BY <1>4, <1>6, <1>7
<1>9. \A i, j \in 1 .. n : ids[i] = ids[j] => i = j
  <2> SUFFICES ASSUME NEW i \in 1 .. n, NEW j \in 1 .. n, ids[i] = ids[j]
               PROVE  i = j
    OBVIOUS
  <2>1. ids[i] \in Int /\ ids[j] \in Int
    BY <1>2, <1>5
  <2>2. ~(i < j) /\ ~(j < i)
    BY <1>5, <2>1
  <2> QED
    BY <1>7, <2>2
<1> QED
  BY <1>5, <1>8, <1>9 DEF due

\* What is left waiting after promote_due_timers.
LEMMA WaitingFacts ==
  ASSUME TimersOK, NEW elapsed \in Int
  PROVE  /\ DOMAIN Waiting(elapsed) = DOMAIN timers \ Due(elapsed)
         /\ Due(elapsed) \subseteq DOMAIN timers
         /\ \A t \in DOMAIN Waiting(elapsed) :
              /\ Waiting(elapsed)[t] \in [left : Int, delay : Delays, repeat : BOOLEAN]
              /\ Waiting(elapsed)[t].left = timers[t].left - elapsed
BY DEF TimersOK, Waiting, Due

\* Promoting moves timers from the waiting ones to the queue, none twice and
\* none astray.
LEMMA PromotingOnce ==
  ASSUME TimersOK, tasks \in Seq(JobsBelow(nextTimer)), NEW elapsed \in Int,
         OnlyOnce(DOMAIN timers, tasks, {})
  PROVE  /\ tasks \o Promoted(elapsed) \in Seq(JobsBelow(nextTimer))
         /\ OnlyOnce(DOMAIN Waiting(elapsed), tasks \o Promoted(elapsed), {})
         /\ \A t : InSomePlace(t, DOMAIN timers, tasks, {})
                     => InSomePlace(t, DOMAIN Waiting(elapsed), tasks \o Promoted(elapsed), {})
<1> DEFINE due == Promoted(elapsed)
           stay == DOMAIN Waiting(elapsed)
           waiting == DOMAIN timers
           Jobs == JobsBelow(nextTimer)
<1>0. waiting \ stay = Due(elapsed) /\ stay \subseteq waiting
  BY WaitingFacts
<1>1. /\ due \in Seq(Jobs)
      /\ \A i \in 1 .. Len(due) : due[i].timer \in waiting \ stay
      /\ \A i, j \in 1 .. Len(due) : due[i].timer = due[j].timer => i = j
      /\ \A t \in waiting \ stay : \E i \in 1 .. Len(due) : due[i].timer = t
      /\ stay \subseteq waiting
  <2> HIDE DEF waiting, stay
  <2> QED
    BY <1>0, PromotedFacts
<1>2. tasks \in Seq(Jobs) /\ OnlyOnce(waiting, tasks, {})
  OBVIOUS
<1> HIDE DEF due, stay, waiting, Jobs
<1>3. /\ tasks \o due \in Seq(Jobs)
      /\ OnlyOnce(stay, tasks \o due, {})
      /\ \A t : InSomePlace(t, waiting, tasks, {}) => InSomePlace(t, stay, tasks \o due, {})
  BY <1>1, <1>2, OnceConcat, ConcatProperties
<1> QED
  BY <1>3 DEF due, stay, waiting, Jobs

\* While timers wait there is a next deadline, and no timer is due before it.
LEMMA NextDeadline ==
  ASSUME TimersOK, DOMAIN timers # {}
  PROVE  /\ TimeToNextTimer \in Int
         /\ \E t \in DOMAIN timers : timers[t].left = TimeToNextTimer
         /\ \A t \in DOMAIN timers : TimeToNextTimer <= timers[t].left
         /\ Promoted(TimeToNextTimer) # <<>>
<1> DEFINE lefts == {timers[t].left : t \in DOMAIN timers}
           map == [t \in DOMAIN timers |-> timers[t].left]
           first == InOrder(lefts)[1]
<1>1. IsFiniteSet(DOMAIN timers)
  BY FiniteTimers
<1>2. lefts \in SUBSET Int /\ lefts # {}
  BY DEF TimersOK
<1>3. map \in Surjection(DOMAIN timers, lefts)
  BY DEF Surjection
<1>4. IsFiniteSet(lefts)
  BY <1>1, <1>3, FS_Surjection
<1> HIDE DEF lefts
<1>5. /\ Cardinality(lefts) \in Nat \ {0}
      /\ EnumeratesInOrder(InOrder(lefts), lefts)
  BY <1>2, <1>4, FS_CardinalityType, FS_EmptySet, InOrderEnumerates
<1>6. first \in lefts /\ \A x \in lefts : first <= x
  <2>1. 1 \in 1 .. Cardinality(lefts)
    BY <1>5
  <2>2. first \in lefts
    BY <1>5, <2>1 DEF EnumeratesInOrder
  <2>3. ASSUME NEW x \in lefts
        PROVE  first <= x
    <3>1. PICK i \in 1 .. Cardinality(lefts) : InOrder(lefts)[i] = x
      BY <1>5 DEF EnumeratesInOrder
    <3>2. i = 1 \/ 1 < i
      BY <1>5
    <3>3. first \in Int /\ x \in Int
      BY <1>2, <2>2
    <3>4. 1 < i => first < x
      BY <1>5, <2>1, <3>1 DEF EnumeratesInOrder
    <3> QED
      BY <3>1, <3>2, <3>3, <3>4
  <2> QED
    BY <2>2, <2>3
<1> HIDE DEF first
<1>7. Min(lefts) \in lefts /\ \A x \in lefts : Min(lefts) <= x
  BY <1>6 DEF Min
<1>8. TimeToNextTimer = Min(lefts)
  BY DEF TimeToNextTimer, lefts
<1>9. /\ TimeToNextTimer \in Int
      /\ \E t \in DOMAIN timers : timers[t].left = TimeToNextTimer
      /\ \A t \in DOMAIN timers : TimeToNextTimer <= timers[t].left
  BY <1>2, <1>7, <1>8 DEF lefts
<1>10. Due(TimeToNextTimer) # {}
  BY <1>9 DEF Due
<1> DEFINE next == Promoted(TimeToNextTimer)
<1>11. \E i \in 1 .. Len(next) : TRUE
  BY <1>9, <1>10, PromotedFacts
<1>12. next # <<>>
  BY <1>9, <1>11, PromotedFacts, EmptySeq
<1> QED
  BY <1>9, <1>12

-----------------------------------------------------------------------------
(* Calls of a script or a callback                                         *)

\* OwedTimersAreSomewhere, as the invariant needs it.
OwedSomewhere ==
  \A t \in owed : InSomePlace(t, DOMAIN timers, tasks, Running)

\* The invariant, part by part, in the next state.
LEMMA NextParts ==
  /\ OnlyOnce(DOMAIN timers, tasks, Running)' <=> OnlyOnce(DOMAIN timers', tasks', Running')
  /\ OwedSomewhere' <=> \A t \in owed' : InSomePlace(t, DOMAIN timers', tasks', Running')
  /\ LoopInv' <=> /\ TimersOK' /\ QueuesOK' /\ CountsOK'
                  /\ OnlyOnce(DOMAIN timers', tasks', Running')
BY DEF LoopInv, OnlyOnce, OwedSomewhere, InSomePlace

\* A call changes neither the loop nor the job in hand.
LEMMA CallKeepsLoop ==
  ASSUME CountsOK, UNCHANGED loopVars
  PROVE  CountsOK' /\ Running' = Running /\ job' = job
BY DEF CountsOK, Running, loopVars

LEMMA RunningBelow ==
  ASSUME TimersOK, QueuesOK
  PROVE  /\ \A t \in Running : t \in Nat \ {0} /\ t < nextTimer
         /\ nextTimer \in Nat \ {0}
         /\ \A i \in 1 .. Len(tasks) : tasks[i].timer \in Nat /\ tasks[i].timer < nextTimer
<1>1. nextTimer \in Nat \ {0}
  BY LoopAssumption DEF TimersOK
<1>2. \A i \in 1 .. Len(tasks) : tasks[i] \in JobsBelow(nextTimer)
  BY ElementOfSeq DEF QueuesOK
<1> QED
  BY <1>1, <1>2, JobTypes DEF Running, QueuesOK

\* A new timer has an id nobody has had.
LEMMA SetTimerInv ==
  ASSUME LoopInv, NEW delay \in Delays, NEW repeat \in BOOLEAN, SetTimer(delay, repeat)
  PROVE  LoopInv' /\ (OwedSomewhere => OwedSomewhere')
<1> DEFINE record == [left |-> delay, delay |-> delay, repeat |-> repeat]
<1>1. /\ TimersOK /\ QueuesOK /\ CountsOK
      /\ OnlyOnce(DOMAIN timers, tasks, Running)
  BY DEF LoopInv
<1>2. /\ nextTimer <= MaxTimers
      /\ nextTimer' = nextTimer + 1
      /\ cancelled' = cancelled \ {nextTimer}
      /\ timers' = Insert(timers, nextTimer, record)
      /\ owed' = owed \cup {nextTimer}
      /\ UNCHANGED <<tasks, microtasks, frames, loopVars>>
  BY DEF SetTimer
<1>3. record \in [left : Int, delay : Delays, repeat : BOOLEAN]
  BY LoopAssumption
<1> HIDE DEF record
<1>4. /\ DOMAIN timers' = DOMAIN timers \cup {nextTimer}
      /\ \A t \in DOMAIN timers' : timers'[t] = IF t = nextTimer THEN record ELSE timers[t]
  BY <1>2 DEF Insert
<1>5. nextTimer \in Nat \ {0} /\ MaxTimers \in Nat
  BY <1>1, RunningBelow, LoopAssumption
<1>6. TimersOK'
  <2>1. nextTimer' \in 1 .. MaxTimers + 1
    BY <1>2, <1>5
  <2>2. DOMAIN timers' \subseteq 1 .. nextTimer' - 1 /\ owed' \subseteq 1 .. nextTimer' - 1
    BY <1>1, <1>2, <1>4, <1>5 DEF TimersOK
  <2>3. \A t \in DOMAIN timers' : timers'[t] \in [left : Int, delay : Delays, repeat : BOOLEAN]
    BY <1>1, <1>3, <1>4 DEF TimersOK
  <2>4. cancelled' \subseteq TimerIds /\ DOMAIN timers' \cap cancelled' = {}
    BY <1>1, <1>2, <1>4 DEF TimersOK
  <2> QED
    BY <2>1, <2>2, <2>3, <2>4 DEF TimersOK
<1>7. CountsOK' /\ Running' = Running /\ job' = job
  BY <1>1, <1>2, CallKeepsLoop
<1>8. QueuesOK'
  BY <1>1, <1>2, <1>5, <1>7, JobTypes, SeqMonotonic DEF QueuesOK
<1>9. OnlyOnce(DOMAIN timers', tasks', Running')
  BY <1>1, <1>2, <1>4, <1>7, RunningBelow DEF OnlyOnce
<1>10. OwedSomewhere => OwedSomewhere'
  BY <1>2, <1>4, <1>7, NextParts DEF OwedSomewhere, InSomePlace
<1> QED
  BY <1>6, <1>7, <1>8, <1>9, <1>10, NextParts

\* A cleared timer does not wait, and is owed no longer.
LEMMA ClearTimerInv ==
  ASSUME LoopInv, NEW t \in TimerIds, ClearTimer(t)
  PROVE  LoopInv' /\ (OwedSomewhere => OwedSomewhere')
<1>1. /\ TimersOK /\ QueuesOK /\ CountsOK
      /\ OnlyOnce(DOMAIN timers, tasks, Running)
  BY DEF LoopInv
<1>2. /\ timers' = [u \in DOMAIN timers \ {t} |-> timers[u]]
      /\ cancelled' = cancelled \cup {t}
      /\ owed' = owed \ {t}
      /\ UNCHANGED <<nextTimer, tasks, microtasks, frames, loopVars>>
  BY DEF ClearTimer
<1>3. DOMAIN timers' = DOMAIN timers \ {t} /\ \A u \in DOMAIN timers' : timers'[u] = timers[u]
  BY <1>2
<1>4. TimersOK'
  BY <1>1, <1>2, <1>3 DEF TimersOK
<1>5. CountsOK' /\ Running' = Running /\ job' = job
  BY <1>1, <1>2, CallKeepsLoop
<1>6. QueuesOK'
  BY <1>1, <1>2, <1>5 DEF QueuesOK
<1>7. OnlyOnce(DOMAIN timers', tasks', Running')
  BY <1>1, <1>2, <1>3, <1>5 DEF OnlyOnce
<1>8. OwedSomewhere => OwedSomewhere'
  BY <1>2, <1>3, <1>5, NextParts DEF OwedSomewhere, InSomePlace
<1> QED
  BY <1>4, <1>5, <1>6, <1>7, <1>8, NextParts

\* Queueing a microtask, a task or a frame touches no timer.
LEMMA QueueInv ==
  ASSUME LoopInv,
         \/ \E kind \in MicrotaskKinds : QueueMicrotask(kind)
         \/ QueueTask
         \/ RequestAnimationFrame
         \/ CancelAnimationFrame
  PROVE  LoopInv' /\ (OwedSomewhere => OwedSomewhere')
<1>1. /\ TimersOK /\ QueuesOK /\ CountsOK
      /\ OnlyOnce(DOMAIN timers, tasks, Running)
      /\ tasks \in Seq(JobsBelow(nextTimer)) /\ microtasks \in Seq(Microjobs)
      /\ frames \in 0 .. MaxFrames
  BY DEF LoopInv, QueuesOK
<1>2. UNCHANGED <<timers, nextTimer, cancelled, owed, loopVars>>
  BY DEF QueueMicrotask, QueueTask, RequestAnimationFrame, CancelAnimationFrame
<1>3. TimersOK' /\ CountsOK' /\ Running' = Running /\ job' = job
  BY <1>1, <1>2, CallKeepsLoop DEF TimersOK
<1>4. ASSUME UNCHANGED tasks, microtasks' \in Seq(Microjobs), frames' \in 0 .. MaxFrames
      PROVE  LoopInv' /\ (OwedSomewhere => OwedSomewhere')
  BY <1>1, <1>2, <1>3, <1>4, NextParts DEF QueuesOK, OwedSomewhere
<1>5. ASSUME NEW kind \in MicrotaskKinds, QueueMicrotask(kind)
      PROVE  LoopInv' /\ (OwedSomewhere => OwedSomewhere')
  BY <1>1, <1>4, <1>5, JobTypes, AppendProperties DEF QueueMicrotask
<1>6. CASE QueueTask
  <2>1. Job("task") \in JobsBelow(nextTimer) /\ Job("task").timer = 0
    BY <1>1, JobTypes, RunningBelow DEF JobKinds, Job
  <2>2. /\ tasks' = Append(tasks, Job("task"))
        /\ UNCHANGED <<microtasks, frames>>
    BY <1>6 DEF QueueTask
  <2>3. tasks' \in Seq(JobsBelow(nextTimer))
    BY <1>1, <2>1, <2>2, AppendProperties
  <2>4. /\ OnlyOnce(DOMAIN timers, tasks', Running)
        /\ \A t : InSomePlace(t, DOMAIN timers, tasks, Running)
                    => InSomePlace(t, DOMAIN timers, tasks', Running)
    BY <1>1, <2>1, <2>2, OnceAppend
  <2>5. QueuesOK'
    BY <1>1, <1>2, <1>3, <2>2, <2>3 DEF QueuesOK
  <2> QED
    BY <1>2, <1>3, <2>4, <2>5, NextParts DEF OwedSomewhere
<1>7. CASE RequestAnimationFrame \/ CancelAnimationFrame
  BY <1>1, <1>4, <1>7, LoopAssumption DEF RequestAnimationFrame, CancelAnimationFrame
<1> QED
  BY <1>5, <1>6, <1>7

-----------------------------------------------------------------------------
(* Steps of the loop                                                       *)

\* Nothing is running outside a call.
LEMMA NotRunning ==
  ASSUME phase # "call"
  PROVE  Running = {}
BY DEF Running

\* promote_due_timers alone: advance_time, and the pop of a microtask.
LEMMA PromoteInv ==
  ASSUME TimersOK, QueuesOK, OnlyOnce(DOMAIN timers, tasks, {}), NEW elapsed \in Int,
         tasks' = tasks \o Promoted(elapsed), timers' = Waiting(elapsed),
         UNCHANGED <<nextTimer, cancelled, owed>>,
         microtasks' \in Seq(Microjobs), frames' \in 0 .. MaxFrames,
         job' \in JobsBelow(nextTimer), Running' = {}
  PROVE  /\ TimersOK' /\ QueuesOK'
         /\ OnlyOnce(DOMAIN timers', tasks', Running')
         /\ \A t : InSomePlace(t, DOMAIN timers, tasks, {})
                     => InSomePlace(t, DOMAIN timers', tasks', Running')
<1>1. tasks \in Seq(JobsBelow(nextTimer))
  BY DEF QueuesOK
<1>2. /\ tasks' \in Seq(JobsBelow(nextTimer))
      /\ OnlyOnce(DOMAIN timers', tasks', {})
      /\ \A t : InSomePlace(t, DOMAIN timers, tasks, {})
                  => InSomePlace(t, DOMAIN timers', tasks', {})
  BY <1>1, PromotingOnce
<1>3. QueuesOK'
  BY <1>2 DEF QueuesOK
<1>4. TimersOK'
  BY WaitingFacts DEF TimersOK
<1> QED
  BY <1>2, <1>3, <1>4

\* promote_due_timers, and the first of the queue is taken out.
LEMMA TakeInv ==
  ASSUME TimersOK, QueuesOK, OnlyOnce(DOMAIN timers, tasks, {}), NEW elapsed \in Int,
         tasks \o Promoted(elapsed) # <<>>,
         job' = Head(tasks \o Promoted(elapsed)), tasks' = Tail(tasks \o Promoted(elapsed)),
         timers' = Waiting(elapsed),
         UNCHANGED <<nextTimer, cancelled, owed>>,
         microtasks' \in Seq(Microjobs), frames' \in 0 .. MaxFrames
  PROVE  /\ TimersOK' /\ QueuesOK'
         /\ OnlyOnce(DOMAIN timers', tasks', Running')
         /\ phase' = "call" =>
              \A t \in owed : InSomePlace(t, DOMAIN timers, tasks, {})
                                => InSomePlace(t, DOMAIN timers', tasks', Running')
<1> DEFINE queue == tasks \o Promoted(elapsed)
<1>1. tasks \in Seq(JobsBelow(nextTimer)) /\ nextTimer \in Nat \ {0}
  BY RunningBelow DEF QueuesOK
<1>2. /\ queue \in Seq(JobsBelow(nextTimer))
      /\ OnlyOnce(DOMAIN timers', queue, {})
      /\ \A t : InSomePlace(t, DOMAIN timers, tasks, {})
                  => InSomePlace(t, DOMAIN timers', queue, {})
      /\ queue # <<>> /\ job' = Head(queue) /\ tasks' = Tail(queue)
  BY <1>1, PromotingOnce
<1> DEFINE stay == DOMAIN timers'
<1>a. nextTimer \in Nat /\ queue \in Seq(JobsBelow(nextTimer)) /\ OnlyOnce(stay, queue, {})
  BY <1>1, <1>2
<1> HIDE DEF queue, stay
<1>b. /\ OnlyOnce(stay, Tail(queue), {Head(queue).timer} \ {0})
      /\ OnlyOnce(stay, Tail(queue), {})
      /\ \A t : t # 0 /\ InSomePlace(t, stay, queue, {})
                  => InSomePlace(t, stay, Tail(queue), {Head(queue).timer} \ {0})
      /\ Head(queue) \in JobsBelow(nextTimer) /\ Tail(queue) \in Seq(JobsBelow(nextTimer))
  BY <1>2, <1>a, OnceTail
<1>3. /\ OnlyOnce(DOMAIN timers', tasks', {job'.timer} \ {0})
      /\ OnlyOnce(DOMAIN timers', tasks', {})
      /\ \A t : t # 0 /\ InSomePlace(t, DOMAIN timers', queue, {})
                  => InSomePlace(t, DOMAIN timers', tasks', {job'.timer} \ {0})
      /\ job' \in JobsBelow(nextTimer) /\ tasks' \in Seq(JobsBelow(nextTimer))
  BY <1>2, <1>b DEF stay
<1>4. QueuesOK'
  BY <1>3 DEF QueuesOK
<1>5. TimersOK'
  BY WaitingFacts DEF TimersOK
<1>6. Running' = (IF phase' = "call" THEN {job'.timer} \ {0} ELSE {})
  BY DEF Running
<1>7. OnlyOnce(DOMAIN timers', tasks', Running')
  BY <1>3, <1>6
<1>8. \A t \in owed : t # 0
  BY DEF TimersOK
<1> QED
  BY <1>2, <1>3, <1>4, <1>5, <1>6, <1>7, <1>8

\* Time passes between two runs.
LEMMA AdvanceTimeInv ==
  ASSUME LoopInv, NEW elapsed \in Delays, AdvanceTime(elapsed)
  PROVE  LoopInv' /\ (OwedSomewhere => OwedSomewhere')
<1>1. /\ TimersOK /\ QueuesOK /\ CountsOK
      /\ OnlyOnce(DOMAIN timers, tasks, Running)
  BY DEF LoopInv
<1>2. /\ phase = "script" /\ elapsed \in Int
      /\ tasks' = tasks \o Promoted(elapsed) /\ timers' = Waiting(elapsed)
      /\ UNCHANGED <<nextTimer, cancelled, microtasks, frames, loopVars, owed>>
  BY LoopAssumption DEF AdvanceTime
<1>3. Running = {} /\ Running' = {} /\ CountsOK' /\ job' = job
  BY <1>1, <1>2, NotRunning, CallKeepsLoop
<1>4. microtasks' \in Seq(Microjobs) /\ frames' \in 0 .. MaxFrames /\ job' \in JobsBelow(nextTimer)
  BY <1>1, <1>2, <1>3 DEF QueuesOK
<1>5. /\ TimersOK' /\ QueuesOK'
      /\ OnlyOnce(DOMAIN timers', tasks', Running')
      /\ \A t : InSomePlace(t, DOMAIN timers, tasks, {})
                  => InSomePlace(t, DOMAIN timers', tasks', Running')
  BY <1>1, <1>2, <1>3, <1>4, PromoteInv
<1> QED
  BY <1>2, <1>3, <1>5, NextParts DEF OwedSomewhere

\* run_until_idle starts, returns, or finds nothing ready.
LEMMA LoopEndsInv ==
  ASSUME LoopInv, RunUntilIdle \/ ReturnIdleOrLimited \/ NothingReady
  PROVE  LoopInv' /\ (OwedSomewhere => OwedSomewhere')
<1>1. /\ TimersOK /\ QueuesOK /\ CountsOK
      /\ OnlyOnce(DOMAIN timers, tasks, Running)
  BY DEF LoopInv
<1>2. /\ UNCHANGED <<timers, nextTimer, cancelled, tasks, microtasks, frames, job, owed>>
      /\ phase # "call" /\ phase' # "call"
  BY DEF RunUntilIdle, ReturnIdleOrLimited, NothingReady, CanPop
<1>3. Running = {} /\ Running' = {}
  BY <1>2, NotRunning DEF Running
<1>4. CountsOK'
  BY <1>1, LoopAssumption DEF CountsOK, RunUntilIdle, ReturnIdleOrLimited, NothingReady, CanPop
<1>5. TimersOK' /\ QueuesOK'
  BY <1>1, <1>2 DEF TimersOK, QueuesOK
<1> QED
  BY <1>1, <1>2, <1>3, <1>4, <1>5, NextParts DEF OwedSomewhere

\* A microtask is taken.
LEMMA PopMicrotaskInv ==
  ASSUME LoopInv, PopMicrotask
  PROVE  /\ LoopInv' /\ (OwedSomewhere => OwedSomewhere')
         /\ job'.kind \in MicrotaskKinds
<1>1. /\ TimersOK /\ QueuesOK /\ CountsOK
      /\ OnlyOnce(DOMAIN timers, tasks, Running)
      /\ microtasks \in Seq(Microjobs) /\ frames \in 0 .. MaxFrames
  BY DEF LoopInv, QueuesOK
<1>2. /\ phase = "loop" /\ jobs < MaxJobs
      /\ microtasks # <<>>
      /\ phase' = "call" /\ job' = Head(microtasks) /\ microtasks' = Tail(microtasks)
      /\ tasks' = tasks \o Promoted(0) /\ timers' = Waiting(0)
      /\ UNCHANGED <<autoAdvance, nextTimer, cancelled, jobs, owed, frames, advances>>
  BY DEF PopMicrotask, CanPop, StartCall, Ready
<1>3. job' \in Microjobs /\ microtasks' \in Seq(Microjobs)
  BY <1>1, <1>2, HeadTailProperties
<1>4. job' \in JobsBelow(nextTimer) /\ job'.timer = 0 /\ job'.kind \in MicrotaskKinds
  BY <1>1, <1>3, JobTypes, RunningBelow DEF Microjobs
<1>5. Running = {} /\ Running' = {}
  BY <1>2, <1>4, NotRunning DEF Running
<1>6. CountsOK'
  BY <1>1, <1>2 DEF CountsOK
<1>7. /\ TimersOK' /\ QueuesOK'
      /\ OnlyOnce(DOMAIN timers', tasks', Running')
      /\ \A t : InSomePlace(t, DOMAIN timers, tasks, {})
                  => InSomePlace(t, DOMAIN timers', tasks', Running')
  BY <1>1, <1>2, <1>3, <1>4, <1>5, PromoteInv
<1> QED
  BY <1>2, <1>4, <1>5, <1>6, <1>7, NextParts DEF OwedSomewhere

\* A task or a timer that is due is taken.
LEMMA PopTaskInv ==
  ASSUME LoopInv, PopTask
  PROVE  LoopInv' /\ (OwedSomewhere => OwedSomewhere')
<1>1. /\ TimersOK /\ QueuesOK /\ CountsOK
      /\ OnlyOnce(DOMAIN timers, tasks, Running)
      /\ microtasks \in Seq(Microjobs) /\ frames \in 0 .. MaxFrames
  BY DEF LoopInv, QueuesOK
<1>2. /\ phase = "loop" /\ jobs < MaxJobs
      /\ tasks \o Promoted(0) # <<>>
      /\ phase' = "call" /\ job' = Head(tasks \o Promoted(0))
      /\ tasks' = Tail(tasks \o Promoted(0)) /\ timers' = Waiting(0)
      /\ UNCHANGED <<nextTimer, cancelled, jobs, owed, microtasks, frames, advances>>
  BY DEF PopTask, CanPop, StartCall, Ready
<1>3. Running = {}
  BY <1>2, NotRunning
<1>4. CountsOK'
  BY <1>1, <1>2 DEF CountsOK
<1>5. /\ TimersOK' /\ QueuesOK'
      /\ OnlyOnce(DOMAIN timers', tasks', Running')
      /\ \A t \in owed : InSomePlace(t, DOMAIN timers, tasks, {})
                           => InSomePlace(t, DOMAIN timers', tasks', Running')
  <2> DEFINE elapsed == 0
  <2>1. elapsed \in Int /\ OnlyOnce(DOMAIN timers, tasks, {})
    BY <1>1, <1>3
  <2>2. /\ tasks \o Promoted(elapsed) # <<>> /\ timers' = Waiting(elapsed)
        /\ job' = Head(tasks \o Promoted(elapsed)) /\ tasks' = Tail(tasks \o Promoted(elapsed))
        /\ microtasks' \in Seq(Microjobs) /\ frames' \in 0 .. MaxFrames
    BY <1>1, <1>2
  <2> HIDE DEF elapsed
  <2>3. /\ TimersOK' /\ QueuesOK'
        /\ OnlyOnce(DOMAIN timers', tasks', Running')
        /\ phase' = "call" =>
             \A t \in owed : InSomePlace(t, DOMAIN timers, tasks, {})
                               => InSomePlace(t, DOMAIN timers', tasks', Running')
    BY <1>1, <1>2, <2>1, <2>2, TakeInv
  <2> QED
    BY <1>2, <2>3
<1> QED
  BY <1>2, <1>3, <1>4, <1>5, NextParts DEF OwedSomewhere

\* With nothing ready there is neither a task nor a timer that is due.
LEMMA NothingIsReady ==
  ASSUME TimersOK, QueuesOK, Ready = <<>>
  PROVE  tasks = <<>> /\ Promoted(0) = <<>> /\ Due(0) = {}
<1> DEFINE Jobs == JobsBelow(nextTimer)
           due == Promoted(0)
<1>1. tasks \in Seq(Jobs) /\ due \in Seq(Jobs)
  BY PromotedFacts DEF QueuesOK
<1>2. tasks \o due = <<>>
  BY DEF Ready
<1>3. \A t \in Due(0) : \E i \in 1 .. Len(due) : due[i].timer = t
  BY PromotedFacts
<1> HIDE DEF Jobs, due
<1>4. tasks = <<>> /\ due = <<>>
  BY <1>1, <1>2, ConcatEqualIffEmpty
<1>5. Due(0) = {}
  BY <1>3, <1>4
<1> QED
  BY <1>4, <1>5 DEF due

\* The frames that were requested become tasks, and the first of them runs.
LEMMA PopAnimationFrameInv ==
  ASSUME LoopInv, PopAnimationFrame
  PROVE  LoopInv' /\ (OwedSomewhere => OwedSomewhere')
<1> DEFINE frame == Job("frame")
<1>1. /\ TimersOK /\ QueuesOK /\ CountsOK
      /\ OnlyOnce(DOMAIN timers, tasks, Running)
      /\ microtasks \in Seq(Microjobs) /\ frames \in 0 .. MaxFrames
      /\ MaxFrames \in Nat
  BY LoopAssumption DEF LoopInv, QueuesOK
<1>2. /\ phase = "loop" /\ jobs < MaxJobs /\ frames > 0
      /\ Ready = <<>>
      /\ phase' = "call" /\ job' = frame
      /\ tasks' = [i \in 1 .. frames - 1 |-> frame] /\ frames' = 0 /\ timers' = Waiting(0)
      /\ UNCHANGED <<nextTimer, cancelled, jobs, owed, microtasks, advances>>
  BY DEF PopAnimationFrame, CanPop, StartCall
<1>3. frame \in JobsBelow(nextTimer) /\ frame.timer = 0
  BY <1>1, JobTypes, RunningBelow DEF JobKinds, Job
<1> HIDE DEF frame
<1>4. Running = {} /\ Running' = {}
  BY <1>2, <1>3, NotRunning DEF Running
<1>5. CountsOK'
  BY <1>1, <1>2 DEF CountsOK
<1>6. frames - 1 \in Nat
  BY <1>1, <1>2
<1>7. /\ tasks' \in Seq(JobsBelow(nextTimer))
      /\ \A i \in 1 .. Len(tasks') : tasks'[i].timer = 0
  BY <1>2, <1>3, <1>6
<1>8. QueuesOK'
  BY <1>1, <1>2, <1>3, <1>7 DEF QueuesOK
<1>9. tasks = <<>> /\ DOMAIN timers' = DOMAIN timers
  BY <1>1, <1>2, NothingIsReady, WaitingFacts
<1>10. TimersOK'
  <2>1. \A t \in DOMAIN Waiting(0) : Waiting(0)[t] \in [left : Int, delay : Delays, repeat : BOOLEAN]
    <3>1. 0 \in Int
      OBVIOUS
    <3> QED
      BY <1>1, <3>1, WaitingFacts
  <2> QED
    BY <1>1, <1>2, <1>9, <2>1 DEF TimersOK
<1>11. OnlyOnce(DOMAIN timers', tasks', Running')
  BY <1>4, <1>7 DEF OnlyOnce
<1>12. OwedSomewhere => OwedSomewhere'
  BY <1>2, <1>4, <1>9, NextParts DEF OwedSomewhere, InSomePlace
<1> QED
  BY <1>5, <1>8, <1>10, <1>11, <1>12, NextParts

\* Time moves to the next deadline: what becomes due then is not empty.
LEMMA AdvanceFacts ==
  ASSUME LoopInv, CanPop, QueuesAreEmpty
  PROVE  /\ DOMAIN timers # {} /\ TimeToNextTimer \in Int
         /\ tasks \o Promoted(TimeToNextTimer) = Promoted(TimeToNextTimer)
         /\ Promoted(TimeToNextTimer) # <<>>
         /\ Running = {} /\ microtasks = <<>> /\ tasks = <<>> /\ frames = 0
<1>1. TimersOK /\ QueuesOK
  BY DEF LoopInv
<1>2. tasks = <<>> /\ microtasks = <<>> /\ frames = 0
  BY <1>1, NothingIsReady DEF QueuesAreEmpty
<1>3. DOMAIN timers # {}
  BY <1>2 DEF CanPop, HasPendingWork
<1>4. TimeToNextTimer \in Int /\ Promoted(TimeToNextTimer) # <<>>
  BY <1>1, <1>3, NextDeadline
<1>5. Promoted(TimeToNextTimer) \in Seq(JobsBelow(nextTimer))
  BY <1>1, <1>4, PromotedFacts
<1>6. tasks \o Promoted(TimeToNextTimer) = Promoted(TimeToNextTimer)
  BY <1>2, <1>5, ConcatEmptySeq
<1>7. Running = {}
  BY NotRunning DEF CanPop
<1> QED
  BY <1>2, <1>3, <1>4, <1>6, <1>7

\* The first timer of the next deadline is taken.
LEMMA PopAfterAdvanceInv ==
  ASSUME LoopInv, PopAfterAdvance \/ AdvanceBeyondLimit
  PROVE  LoopInv' /\ (PopAfterAdvance /\ OwedSomewhere => OwedSomewhere')
<1>1. /\ TimersOK /\ QueuesOK /\ CountsOK
      /\ OnlyOnce(DOMAIN timers, tasks, Running)
      /\ microtasks \in Seq(Microjobs) /\ frames \in 0 .. MaxFrames
  BY DEF LoopInv, QueuesOK
<1> DEFINE next == Promoted(TimeToNextTimer)
<1>2. /\ CanPop /\ QueuesAreEmpty
      /\ advances' = advances + 1
      /\ job' = Head(next) /\ tasks' = Tail(next) /\ timers' = Waiting(TimeToNextTimer)
      /\ UNCHANGED <<nextTimer, cancelled, jobs, owed, microtasks, frames>>
      /\ phase' \in {"call", "script"}
      /\ PopAfterAdvance => phase' = "call"
      /\ phase' = "call" => advances < MaxAdvances
  BY DEF PopAfterAdvance, AdvanceBeyondLimit, StartCall
<1>3. /\ TimeToNextTimer \in Int
      /\ tasks \o next = next /\ next # <<>>
      /\ Running = {}
  BY <1>2, AdvanceFacts
<1>4. CountsOK'
  BY <1>1, <1>2, LoopAssumption DEF CountsOK, CanPop
<1>5. /\ TimersOK' /\ QueuesOK'
      /\ OnlyOnce(DOMAIN timers', tasks', Running')
      /\ phase' = "call" =>
           \A t \in owed : InSomePlace(t, DOMAIN timers, tasks, {})
                             => InSomePlace(t, DOMAIN timers', tasks', Running')
  BY <1>1, <1>2, <1>3, TakeInv
<1>6. PopAfterAdvance /\ OwedSomewhere => OwedSomewhere'
  BY <1>2, <1>3, <1>5, NextParts DEF OwedSomewhere
<1> QED
  BY <1>4, <1>5, <1>6, NextParts

-----------------------------------------------------------------------------
(* The end of a callback                                                   *)

\* While nothing runs, a timer may go back to the waiting ones.
LEMMA CallReturnsInv ==
  ASSUME LoopInv, CallReturns
  PROVE  LoopInv' /\ (OwedSomewhere => OwedSomewhere')
<1>1. /\ TimersOK /\ QueuesOK /\ CountsOK
      /\ OnlyOnce(DOMAIN timers, tasks, Running)
      /\ job \in JobsBelow(nextTimer)
  BY DEF LoopInv, QueuesOK
<1>2. /\ phase = "call" /\ phase' = "loop" /\ jobs' = jobs + 1
      /\ UNCHANGED <<autoAdvance, nextTimer, cancelled, tasks, microtasks, frames, job, advances>>
  BY DEF CallReturns
<1>3. CountsOK'
  BY <1>1, <1>2, LoopAssumption DEF CountsOK
<1>4. QueuesOK'
  BY <1>1, <1>2 DEF QueuesOK
<1>5. Running = {job.timer} \ {0} /\ Running' = {}
  BY <1>2 DEF Running
<1>6. ASSUME job.kind = "interval", job.timer \notin cancelled,
             timers' = Insert(timers, job.timer,
                              [left |-> job.delay, delay |-> job.delay, repeat |-> TRUE]),
             owed' = owed
      PROVE  LoopInv' /\ (OwedSomewhere => OwedSomewhere')
  <2> DEFINE record == [left |-> job.delay, delay |-> job.delay, repeat |-> TRUE]
             id == job.timer
  <2>1. /\ id # 0 /\ job.delay \in Delays /\ id \in TimerIds \cup {0} /\ id < nextTimer
    BY <1>1, <1>6 DEF JobsBelow, QueuedJob
  <2>2. record \in [left : Int, delay : Delays, repeat : BOOLEAN]
    <3>1. \A d \in Delays : d \in Int
      BY LoopAssumption
    <3>2. job.delay \in Int /\ job.delay \in Delays
      BY <2>1, <3>1
    <3> QED
      BY <3>2
  <2>3. id \in 1 .. nextTimer - 1
    BY <1>1, <2>1, LoopAssumption DEF TimerIds, TimersOK
  <2>4. id \notin cancelled /\ timers' = Insert(timers, id, record) /\ Running = {id}
    BY <1>5, <1>6, <2>1
  <2> HIDE DEF record, id
  <2>5. /\ DOMAIN timers' = DOMAIN timers \cup {id}
        /\ \A t \in DOMAIN timers' : timers'[t] = IF t = id THEN record ELSE timers[t]
    BY <2>4 DEF Insert
  <2>6. TimersOK'
    BY <1>1, <1>2, <1>6, <2>2, <2>3, <2>4, <2>5 DEF TimersOK
  <2>7. OnlyOnce(DOMAIN timers', tasks', Running')
    BY <1>1, <1>2, <1>5, <2>4, <2>5 DEF OnlyOnce
  <2>8. OwedSomewhere => OwedSomewhere'
    BY <1>2, <1>5, <1>6, <2>4, <2>5, NextParts DEF OwedSomewhere, InSomePlace
  <2> QED
    BY <1>3, <1>4, <2>6, <2>7, <2>8, NextParts
<1>7. ASSUME timers' = timers, owed' = owed \ {job.timer}
      PROVE  LoopInv' /\ (OwedSomewhere => OwedSomewhere')
  BY <1>1, <1>2, <1>3, <1>4, <1>5, <1>7, NextParts DEF TimersOK, OnlyOnce, OwedSomewhere, InSomePlace
<1> QED
  BY <1>6, <1>7 DEF CallReturns

\* A callback that throws loses its timer, and nothing else.
LEMMA CallThrowsInv ==
  ASSUME LoopInv, CallThrows
  PROVE  LoopInv'
<1>1. /\ TimersOK /\ QueuesOK /\ CountsOK
      /\ OnlyOnce(DOMAIN timers, tasks, Running)
  BY DEF LoopInv
<1>2. /\ phase' = "script"
      /\ UNCHANGED <<autoAdvance, timers, nextTimer, cancelled, tasks, microtasks, frames,
                     job, jobs, advances, owed>>
  BY DEF CallThrows
<1>3. TimersOK' /\ QueuesOK' /\ CountsOK'
  BY <1>1, <1>2 DEF TimersOK, QueuesOK, CountsOK
<1>4. Running' = {}
  BY <1>2 DEF Running
<1>5. OnlyOnce(DOMAIN timers', tasks', Running')
  BY <1>1, <1>2, <1>4 DEF OnlyOnce
<1> QED
  BY <1>3, <1>5, NextParts

-----------------------------------------------------------------------------
(* The theorems                                                            *)

LEMMA InitLoop ==
  ASSUME Init
  PROVE  LoopInv /\ OwedSomewhere
<1>1. /\ timers = [t \in {} |-> NoJob] /\ nextTimer = 1 /\ cancelled = {}
      /\ tasks = <<>> /\ microtasks = <<>> /\ frames = 0
      /\ phase = "script" /\ job = NoJob /\ jobs = 0 /\ advances = 0 /\ owed = {}
  BY DEF Init
<1>2. DOMAIN timers = {}
  BY <1>1
<1>3. TimersOK
  BY <1>1, <1>2, LoopAssumption DEF TimersOK
<1>4. CountsOK
  BY <1>1, LoopAssumption DEF CountsOK
<1>5. job \in JobsBelow(nextTimer)
  BY <1>1, JobTypes DEF NoJob, JobKinds
<1>6. tasks \in Seq(JobsBelow(nextTimer)) /\ microtasks \in Seq(Microjobs)
  BY <1>1, EmptySeq
<1>7. QueuesOK
  BY <1>1, <1>5, <1>6, LoopAssumption DEF QueuesOK
<1>8. OnlyOnce(DOMAIN timers, tasks, Running)
  BY <1>1, <1>2 DEF OnlyOnce, Running
<1> QED
  BY <1>1, <1>3, <1>4, <1>7, <1>8 DEF LoopInv, OwedSomewhere

\* Every step keeps the invariant, and only a callback that throws and the
\* advance beyond the limit lose a timer that is owed.
LEMMA NextLoop ==
  ASSUME LoopInv, [Next]_vars
  PROVE  /\ LoopInv'
         /\ OwedSomewhere => OwedSomewhere' \/ CallThrows \/ AdvanceBeyondLimit
<1>1. CASE ScriptCall
  BY <1>1, SetTimerInv, ClearTimerInv, QueueInv DEF ScriptCall
<1>2. CASE \E elapsed \in Delays : AdvanceTime(elapsed)
  BY <1>2, AdvanceTimeInv
<1>3. CASE RunUntilIdle
  BY <1>3, LoopEndsInv
<1>4. CASE LoopStep
  BY <1>4, LoopEndsInv, PopMicrotaskInv, PopTaskInv, PopAnimationFrameInv, PopAfterAdvanceInv
    DEF LoopStep
<1>5. CASE CallReturns
  BY <1>5, CallReturnsInv
<1>6. CASE CallThrows
  BY <1>6, CallThrowsInv
<1>7. CASE UNCHANGED vars
  BY <1>7, NextParts DEF vars, LoopInv, TimersOK, QueuesOK, CountsOK, Running, OnlyOnce, OwedSomewhere, InSomePlace
<1> QED
  BY <1>1, <1>2, <1>3, <1>4, <1>5, <1>6, <1>7 DEF Next

LEMMA TypesFollow ==
  ASSUME LoopInv
  PROVE  TypeOK
<1>1. /\ TimersOK /\ QueuesOK /\ CountsOK
  BY DEF LoopInv
<1>2. JobsBelow(nextTimer) \subseteq QueuedJob /\ Microjobs \subseteq QueuedJob
  BY DEF JobsBelow, Microjobs
<1>3. tasks \in Seq(QueuedJob) /\ microtasks \in Seq(QueuedJob) /\ job \in QueuedJob
  BY <1>1, <1>2, SeqMonotonic DEF QueuesOK
<1> QED
  BY <1>1, <1>3 DEF TimersOK, QueuesOK, CountsOK, TypeOK

\* The places of a timer are at most one.
LEMMA OnePlaceFollows ==
  ASSUME LoopInv
  PROVE  TimerIsInOnePlace
<1> SUFFICES ASSUME NEW t \in TimerIds
             PROVE  Cardinality(PlacesOf(t)) <= 1
  BY DEF TimerIsInOnePlace
<1> DEFINE Queued == {i \in 1 .. Len(tasks) : tasks[i].timer = t}
<1>1. OnlyOnce(DOMAIN timers, tasks, Running) /\ t # 0
  BY DEF LoopInv, TimerIds
<1>2. Running \cap {t} = IF phase = "call" THEN {job.timer} \cap {t} ELSE {}
  BY <1>1 DEF Running
<1>3. PlacesOf(t) = {<<"timers", u>> : u \in DOMAIN timers \cap {t}}
                      \cup {<<"tasks", i>> : i \in Queued}
                      \cup {<<"job", u>> : u \in Running \cap {t}}
  BY <1>2 DEF PlacesOf
<1>4. \A i, j \in Queued : i = j
  BY <1>1 DEF OnlyOnce
<1>5. Queued # {} => t \notin DOMAIN timers /\ t \notin Running
  BY <1>1 DEF OnlyOnce
<1>6. t \in DOMAIN timers => t \notin Running
  BY <1>1 DEF OnlyOnce
<1> HIDE DEF Queued
<1>7. \/ PlacesOf(t) = {}
      \/ \E place : PlacesOf(t) = {place}
  <2>1. CASE Queued # {}
    <3>1. PICK i : i \in Queued
      BY <2>1
    <3>2. Queued = {i} /\ DOMAIN timers \cap {t} = {} /\ Running \cap {t} = {}
      BY <1>4, <1>5, <2>1, <3>1
    <3>3. PlacesOf(t) = {<<"tasks", i>>}
      BY <1>3, <3>2
    <3> QED
      BY <3>3
  <2>2. CASE Queued = {} /\ t \in DOMAIN timers
    BY <1>3, <1>6, <2>2
  <2>3. CASE Queued = {} /\ t \notin DOMAIN timers /\ t \in Running
    BY <1>3, <2>3
  <2>4. CASE Queued = {} /\ t \notin DOMAIN timers /\ t \notin Running
    BY <1>3, <2>4
  <2> QED
    BY <2>1, <2>2, <2>3, <2>4
<1>8. PlacesOf(t) = {} => Cardinality(PlacesOf(t)) = 0
  BY FS_EmptySet
<1>9. ASSUME NEW place, PlacesOf(t) = {place}
      PROVE  Cardinality(PlacesOf(t)) = 1
  BY <1>9, FS_Singleton
<1> QED
  BY <1>7, <1>8, <1>9

LEMMA PlacesFollow ==
  ASSUME LoopInv, OwedSomewhere
  PROVE  OwedTimersAreSomewhere
<1> SUFFICES ASSUME NEW t \in owed
             PROVE  PlacesOf(t) # {}
  BY DEF OwedTimersAreSomewhere
<1>1. CASE t \in DOMAIN timers
  BY <1>1 DEF PlacesOf
<1>2. CASE t \in Running
  BY <1>2 DEF Running, PlacesOf
<1>3. CASE \E i \in 1 .. Len(tasks) : tasks[i].timer = t
  <2>1. PICK i \in 1 .. Len(tasks) : tasks[i].timer = t
    BY <1>3
  <2>2. <<"tasks", i>> \in PlacesOf(t)
    BY <2>1 DEF PlacesOf
  <2> QED
    BY <2>2
<1> QED
  BY <1>1, <1>2, <1>3 DEF OwedSomewhere, InSomePlace

\* Time advances at most once for each job of a run: one that is finished, or
\* the one that runs.
Paced ==
  /\ phase = "loop" => advances <= jobs
  /\ phase = "call" => advances <= jobs + 1

LEMMA PacedInv ==
  ASSUME LoopInv, Paced, [Next]_vars
  PROVE  Paced'
<1>1. jobs \in Int /\ advances \in Int
  BY LoopAssumption DEF LoopInv, CountsOK
<1>2. ASSUME UNCHANGED <<phase, jobs, advances>>
      PROVE  Paced'
  BY <1>2 DEF Paced
<1>3. CASE ScriptCall \/ (\E elapsed \in Delays : AdvanceTime(elapsed)) \/ UNCHANGED vars
  BY <1>2, <1>3 DEF ScriptCall, SetTimer, ClearTimer, QueueMicrotask, QueueTask, RequestAnimationFrame,
     CancelAnimationFrame, AdvanceTime, vars, loopVars
<1>4. CASE RunUntilIdle \/ ReturnIdleOrLimited \/ NothingReady \/ AdvanceBeyondLimit
           \/ CallThrows
  BY <1>1, <1>4 DEF Paced, RunUntilIdle, ReturnIdleOrLimited, NothingReady,
                    AdvanceBeyondLimit, CallThrows
<1>5. CASE PopMicrotask \/ PopTask \/ PopAnimationFrame
  BY <1>1, <1>5 DEF PopMicrotask, PopTask, PopAnimationFrame, CanPop, StartCall, Paced
<1>6. CASE PopAfterAdvance
  BY <1>1, <1>6 DEF PopAfterAdvance, CanPop, StartCall, Paced
<1>7. CASE CallReturns
  BY <1>1, <1>7 DEF Paced, CallReturns
<1> QED
  BY <1>3, <1>4, <1>5, <1>6, <1>7 DEF Next, LoopStep

\* Whatever scripts and callbacks call, throw and clear: the loop's state is
\* well typed, no timer is doubled, and a cleared one does not wait.
THEOREM LoopInvariance ==
  Spec => []LoopInv
<1>1. Init => LoopInv
  BY InitLoop
<1>2. LoopInv /\ [Next]_vars => LoopInv'
  BY NextLoop
<1> QED
  BY <1>1, <1>2, PTL DEF Spec

\* No timer is in two places.
THEOREM TimersAreNotDoubled ==
  Spec => [](TypeOK /\ TimerIsInOnePlace /\ ClearedTimersDoNotWait)
<1>1. LoopInv => TypeOK /\ TimerIsInOnePlace /\ ClearedTimersDoNotWait
  BY TypesFollow, OnePlaceFollows DEF LoopInv, TimersOK, ClearedTimersDoNotWait
<1> QED
  BY <1>1, LoopInvariance, PTL

\* Where callbacks do not throw and the loop may advance time as often as it
\* may run jobs, the defaults of EventLoopConfig and of every embedder, no
\* timer a script still waits for is ever lost.
THEOREM NoTimerIsLost ==
  ASSUME ~MayThrow, MaxJobs <= MaxAdvances
  PROVE  Spec => []TimersAreKept
<1> DEFINE Kept == LoopInv /\ OwedSomewhere /\ Paced
<1>1. Init => Kept
  BY InitLoop DEF Init, Paced
<1>2. Kept /\ [Next]_vars => Kept'
  <2> SUFFICES ASSUME Kept, [Next]_vars
               PROVE  Kept'
    OBVIOUS
  <2>1. ~CallThrows
    BY DEF CallThrows
  <2>2. ~AdvanceBeyondLimit
    BY LoopAssumption DEF LoopInv, CountsOK, AdvanceBeyondLimit, CanPop, Paced
  <2> QED
    BY <2>1, <2>2, NextLoop, PacedInv
<1>3. Kept => TimersAreKept
  BY TypesFollow, OnePlaceFollows, PlacesFollow
    DEF LoopInv, TimersOK, ClearedTimersDoNotWait, TimersAreKept
<1> QED
  BY <1>1, <1>2, <1>3, PTL DEF Spec

\* Time that does not move leaves every timer its distance.
LEMMA StandingStill ==
  ASSUME LoopInv, timers' = Waiting(0)
  PROVE  \A t \in DOMAIN timers \cap DOMAIN timers' : timers'[t].left = timers[t].left
<1>1. TimersOK /\ 0 \in Int
  BY DEF LoopInv
<1>2. \A t \in DOMAIN timers' : timers'[t].left = timers[t].left - 0
  BY <1>1, WaitingFacts
<1>3. \A t \in DOMAIN timers : timers[t].left \in Int
  BY <1>1 DEF TimersOK
<1> QED
  BY <1>2, <1>3

\* A microtask that waits is called before anything else, and time moves only
\* when no callback is ready.
THEOREM WorkComesFirst ==
  Spec => ReadyWorkComesFirst
<1> DEFINE Still == \A t \in DOMAIN timers \cap DOMAIN timers' : timers'[t].left = timers[t].left
           Step == phase = "loop" =>
                     /\ phase' = "call" /\ microtasks # <<>> => job'.kind \in MicrotaskKinds
                     /\ microtasks # <<>> \/ tasks # <<>> \/ frames > 0 => Still
<1>1. LoopInv /\ [Next]_vars => [Step]_vars
  <2> SUFFICES ASSUME LoopInv, Next, phase = "loop"
               PROVE  Step
    OBVIOUS
  <2>1. LoopStep
    BY DEF Next, ScriptCall, SetTimer, ClearTimer, QueueMicrotask, QueueTask,
           RequestAnimationFrame, CancelAnimationFrame, MayCall, AdvanceTime,
           RunUntilIdle, CallReturns, CallThrows
  <2>2. CASE ReturnIdleOrLimited \/ NothingReady
    BY <2>2 DEF ReturnIdleOrLimited, NothingReady
  <2>3. CASE PopMicrotask
    BY <2>3, StandingStill, PopMicrotaskInv DEF PopMicrotask
  <2>4. CASE PopTask \/ PopAnimationFrame
    BY <2>4, StandingStill DEF PopTask, PopAnimationFrame
  <2>5. CASE PopAfterAdvance \/ AdvanceBeyondLimit
    BY <2>5, AdvanceFacts DEF PopAfterAdvance, AdvanceBeyondLimit
  <2> QED
    BY <2>1, <2>2, <2>3, <2>4, <2>5 DEF LoopStep
<1>2. ReadyWorkComesFirst <=> [][Step]_vars
  BY DEF ReadyWorkComesFirst
<1> HIDE DEF Step
<1> QED
  BY <1>1, <1>2, LoopInvariance, PTL DEF Spec

\* Virtual time jumps to the nearest deadline and to no later one.
THEOREM TimeStops ==
  Spec => TimeStopsAtEveryDeadline
<1> DEFINE Step == advances' > advances =>
                     \A t, u \in DOMAIN timers \ DOMAIN timers' : timers[t].left = timers[u].left
<1>1. LoopInv /\ [Next]_vars => [Step]_vars
  <2> SUFFICES ASSUME LoopInv, Next, advances' > advances
               PROVE  \A t, u \in DOMAIN timers \ DOMAIN timers' : timers[t].left = timers[u].left
    OBVIOUS
  <2>1. PopAfterAdvance \/ AdvanceBeyondLimit
    <3>1. advances \in Nat /\ advances' # advances /\ advances' # 0
      BY LoopAssumption DEF LoopInv, CountsOK
    <3> QED
      BY <3>1 DEF Next, ScriptCall, SetTimer, ClearTimer, QueueMicrotask, QueueTask,
             RequestAnimationFrame, CancelAnimationFrame, AdvanceTime, loopVars, RunUntilIdle,
             LoopStep, ReturnIdleOrLimited, PopMicrotask, PopTask, PopAnimationFrame,
             NothingReady, CallReturns, CallThrows
  <2>2. TimersOK /\ CanPop /\ QueuesAreEmpty /\ timers' = Waiting(TimeToNextTimer)
    BY <2>1 DEF LoopInv, PopAfterAdvance, AdvanceBeyondLimit
  <2>3. /\ DOMAIN timers # {} /\ TimeToNextTimer \in Int
    BY <2>2, AdvanceFacts
  <2>4. \A t \in DOMAIN timers : TimeToNextTimer <= timers[t].left /\ timers[t].left \in Int
    BY <2>2, <2>3, NextDeadline DEF TimersOK
  <2>5. DOMAIN timers \ DOMAIN timers' = Due(TimeToNextTimer)
    BY <2>2, <2>3, WaitingFacts
  <2>6. \A t \in Due(TimeToNextTimer) : timers[t].left = TimeToNextTimer
    BY <2>3, <2>4 DEF Due
  <2> QED
    BY <2>5, <2>6
<1>2. TimeStopsAtEveryDeadline <=> [][Step]_vars
  BY DEF TimeStopsAtEveryDeadline
<1> HIDE DEF Step
<1> QED
  BY <1>1, <1>2, LoopInvariance, PTL DEF Spec

-----------------------------------------------------------------------------
(* The lexer: definitions by counting down and spans of a class            *)

\* What holds of all that come after, and so of the place itself, holds everywhere.
LEMMA CountingDown ==
  ASSUME NEW m \in Nat, NEW n \in Nat, NEW S,
         \A k \in m .. n : (\A j \in k + 1 .. n : j \in S) => k \in S
  PROVE  m .. n \subseteq S
<1> DEFINE missing == (m .. n) \ S
           above == {d \in 0 .. n : n - d \in missing}
<1> SUFFICES ASSUME missing # {} PROVE FALSE
  OBVIOUS
<1>1. above \in SUBSET Nat /\ above # {}
  <2>1. PICK k : k \in missing
    OBVIOUS
  <2>2. n - k \in 0 .. n /\ n - (n - k) = k
    BY <2>1
  <2>3. n - k \in above
    BY <2>1, <2>2
  <2> QED
    BY <2>3
<1>2. PICK d \in above : \A e \in above : d <= e
  BY <1>1, LeastNatural
<1>3. d \in 0 .. n /\ n - d \in m .. n /\ n - d \notin S
  BY <1>2
<1>4. ASSUME NEW j \in (n - d) + 1 .. n, j \notin S
      PROVE  FALSE
  BY <1>2, <1>3, <1>4
<1> QED
  BY <1>3, <1>4

\* A function that says of each place what it is, or at which later place to look.
Looks(f, m, n, next, found) == f = [k \in m .. n |-> IF next[k] = 0 THEN found[k] ELSE f[next[k]]]

\* A definition that looks ahead, and in the end no further, defines something.
LEMMA LooksExist ==
  ASSUME NEW m \in Nat, NEW n \in Nat, NEW next, NEW found, m <= n + 1,
         \A k \in m .. n : next[k] = 0 \/ next[k] \in k + 1 .. n
  PROVE  \E f : Looks(f, m, n, next, found)
<1> DEFINE S == {k \in m .. n + 1 : \E f : Looks(f, k, n, next, found)}
<1>1. ASSUME NEW k \in m .. n + 1, \A j \in k + 1 .. n + 1 : j \in S
      PROVE  k \in S
  <2>1. CASE k = n + 1
    <3> DEFINE f == [j \in k .. n |-> 0]
    <3>1. f = [j \in k .. n |-> IF next[j] = 0 THEN found[j] ELSE f[next[j]]]
      BY <2>1
    <3>2. Looks(f, k, n, next, found)
      BY <3>1 DEF Looks
    <3> QED
      BY <3>2
  <2>2. CASE k # n + 1
    <3>1. k + 1 \in k + 1 .. n + 1 /\ k \in m .. n
      BY <2>2
    <3>2. PICK f : Looks(f, k + 1, n, next, found)
      BY <1>1, <3>1
    <3> DEFINE here == IF next[k] = 0 THEN found[k] ELSE f[next[k]]
               g == [j \in k .. n |-> IF j = k THEN here ELSE f[j]]
    <3>3. f = [j \in k + 1 .. n |-> IF next[j] = 0 THEN found[j] ELSE f[next[j]]]
      BY <3>2 DEF Looks
    <3>4. ASSUME NEW j \in k .. n
          PROVE  g[j] = IF next[j] = 0 THEN found[j] ELSE g[next[j]]
      <4>1. next[j] = 0 \/ (next[j] \in k .. n /\ next[j] # k)
        BY <3>1
      <4>2. next[j] # 0 => g[next[j]] = f[next[j]]
        BY <4>1
      <4>3. CASE j = k
        BY <4>2, <4>3
      <4>4. CASE j # k
        BY <3>1, <3>3, <4>2, <4>4
      <4> QED
        BY <4>3, <4>4
    <3> HIDE DEF here
    <3>5. g = [j \in k .. n |-> g[j]]
      OBVIOUS
    <3> HIDE DEF g
    <3>6. [j \in k .. n |-> g[j]] = [j \in k .. n |-> IF next[j] = 0 THEN found[j] ELSE g[next[j]]]
      BY <3>4
    <3>7. Looks(g, k, n, next, found)
      BY <3>5, <3>6 DEF Looks
    <3> QED
      BY <3>7
  <2> QED
    BY <2>1, <2>2
<1>2. n + 1 \in Nat
  OBVIOUS
<1> HIDE DEF S
<1>3. m .. n + 1 \subseteq S
  BY <1>1, <1>2, CountingDown
<1>4. m \in S
  BY <1>3
<1> QED
  BY <1>4 DEF S

\* The least of a range.
LEMMA LeastOf ==
  ASSUME NEW m \in Nat, NEW n \in Int, NEW S \in SUBSET (m .. n), S # {}
  PROVE  LET k == CHOOSE x \in S : \A y \in S : x <= y IN k \in S /\ \A y \in S : k <= y
<1>1. S \in SUBSET Nat
  OBVIOUS
<1> QED
  BY <1>1, LeastNatural

\* A span ends at the first character that is not of the class.
LEMMA SpanIs ==
  ASSUME NEW s, IsList(s), NEW i \in 1 .. Len(s) + 1, NEW class
  PROVE  /\ SpanOf(s, i, class) \in i .. Len(s) + 1
         /\ \A k \in i .. SpanOf(s, i, class) - 1 : s[k] \in class
         /\ SpanOf(s, i, class) <= Len(s) => s[SpanOf(s, i, class)] \notin class
<1> DEFINE stops == {k \in i .. Len(s) : s[k] \notin class}
           first == CHOOSE k \in stops : \A j \in stops : k <= j
<1>1. Len(s) \in Nat /\ i \in Nat
  BY ListFacts
<1>2. SpanOf(s, i, class) = IF stops = {} THEN Len(s) + 1 ELSE first
  BY DEF SpanOf
<1>3. CASE stops = {}
  BY <1>1, <1>2, <1>3
<1>4. CASE stops # {}
  <2>1. first \in stops /\ \A y \in stops : first <= y
    <3>1. stops \in SUBSET (i .. Len(s)) /\ Len(s) \in Int
      BY <1>1
    <3> HIDE DEF stops
    <3> QED
      BY <1>1, <1>4, <3>1, LeastOf
  <2> HIDE DEF first
  <2>2. \A k \in i .. first - 1 : s[k] \in class
    BY <1>1, <2>1
  <2> QED
    BY <1>1, <1>2, <1>4, <2>1, <2>2
<1> QED
  BY <1>3, <1>4

-----------------------------------------------------------------------------
(* The lexer: strings                                                      *)

\* What follows an open quote, up to the quote that closes it.
Escapes(s, i, last, quote) ==
  \E escaped \in SUBSET (i .. last - 1) : \A k \in i .. last - 1 :
    /\ k \in escaped <=> k > i /\ s[k - 1] = "\\" /\ k - 1 \notin escaped
    /\ k \notin escaped => s[k] # quote
    /\ s[k] = "\\" /\ k \notin escaped => k + 1 \in escaped

Closes(s, k, quote, found) ==
  /\ found.kind = "string" /\ found.to \in k .. Len(s) + 1 /\ found.faulty \in BOOLEAN
  /\ ~found.faulty => found.to > k /\ s[found.to - 1] = quote /\ Escapes(s, k, found.to - 1, quote)

\* The character after a backslash, and one that is neither.
LEMMA EscapesLonger ==
  ASSUME NEW s, NEW i \in Nat, NEW last \in Nat, NEW quote \in Quotes
  PROVE  /\ s[i] # quote /\ s[i] # "\\" /\ i + 1 <= last /\ Escapes(s, i + 1, last, quote) => Escapes(s, i, last, quote)
         /\ s[i] = "\\" /\ i + 2 <= last /\ Escapes(s, i + 2, last, quote) => Escapes(s, i, last, quote)
<1>1. ASSUME s[i] # quote, s[i] # "\\", i + 1 <= last, Escapes(s, i + 1, last, quote)
      PROVE  Escapes(s, i, last, quote)
  <2>1. PICK e \in SUBSET (i + 1 .. last - 1) : \A k \in i + 1 .. last - 1 :
           /\ k \in e <=> k > i + 1 /\ s[k - 1] = "\\" /\ k - 1 \notin e
           /\ k \notin e => s[k] # quote
           /\ s[k] = "\\" /\ k \notin e => k + 1 \in e
    BY <1>1 DEF Escapes
  <2>2. e \in SUBSET (i .. last - 1) /\ i \notin e
    OBVIOUS
  <2>3. ASSUME NEW k \in i .. last - 1
        PROVE  /\ k \in e <=> k > i /\ s[k - 1] = "\\" /\ k - 1 \notin e
               /\ k \notin e => s[k] # quote
               /\ s[k] = "\\" /\ k \notin e => k + 1 \in e
    <3>1. CASE k = i
      BY <1>1, <2>2, <3>1
    <3>2. CASE k = i + 1
      BY <1>1, <2>1, <3>2
    <3>3. CASE k > i + 1
      BY <2>1, <3>3
    <3> QED
      BY <3>1, <3>2, <3>3
  <2> QED
    BY <2>2, <2>3 DEF Escapes
<1>2. ASSUME s[i] = "\\", i + 2 <= last, Escapes(s, i + 2, last, quote)
      PROVE  Escapes(s, i, last, quote)
  <2>1. PICK e \in SUBSET (i + 2 .. last - 1) : \A k \in i + 2 .. last - 1 :
           /\ k \in e <=> k > i + 2 /\ s[k - 1] = "\\" /\ k - 1 \notin e
           /\ k \notin e => s[k] # quote
           /\ s[k] = "\\" /\ k \notin e => k + 1 \in e
    BY <1>2 DEF Escapes
  <2> DEFINE g == e \cup {i + 1}
  <2>2. g \in SUBSET (i .. last - 1) /\ i \notin g /\ i + 1 \in g /\ i + 2 \notin e /\ i + 2 \notin g
    <3>1. i + 1 \in i .. last - 1
      BY <1>2
    <3>2. i + 2 \in e => FALSE
      BY <2>1
    <3> QED
      BY <3>1, <3>2
  <2>3. \A k \in i + 2 .. last : k \in g <=> k \in e
    BY <1>2
  <2> HIDE DEF g
  <2>4. quote # "\\"
    BY DEF Quotes
  <2>5. ASSUME NEW k \in i .. last - 1
        PROVE  /\ k \in g <=> k > i /\ s[k - 1] = "\\" /\ k - 1 \notin g
               /\ k \notin g => s[k] # quote
               /\ s[k] = "\\" /\ k \notin g => k + 1 \in g
    <3>1. CASE k = i
      BY <1>2, <2>2, <2>4, <3>1
    <3>2. CASE k = i + 1
      BY <1>2, <2>2, <3>2
    <3>3. CASE k = i + 2
      BY <2>1, <2>2, <2>3, <3>3
    <3>4. CASE k > i + 2
      BY <2>1, <2>3, <3>4
    <3> QED
      BY <3>1, <3>2, <3>3, <3>4
  <2> QED
    BY <2>2, <2>5 DEF Escapes
<1> QED
  BY <1>1, <1>2

\* A string that is read without a diagnostic ends at the quote that closes it.
LEMMA StringCloses ==
  ASSUME NEW s, IsList(s), NEW i \in 1 .. Len(s) + 1, NEW quote \in Quotes
  PROVE  Closes(s, i, quote, LexString(s, i, quote))
<1> DEFINE n == Len(s) + 1
           Turn(g, k) ==
             CASE At(s, k) = "eof" -> Lexed("string", Len(s) + 1, TRUE)
               [] At(s, k) = quote -> Lexed("string", k + 1, FALSE)
               [] At(s, k) = "\\" -> IF k < Len(s) THEN g[k + 2] ELSE Lexed("string", Len(s) + 1, TRUE)
               [] OTHER -> g[k + 1]
           f == CHOOSE g : g = [k \in i .. Len(s) + 1 |-> Turn(g, k)]
           next == [k \in i .. n |-> IF At(s, k) \in {"eof", quote} THEN 0
                                     ELSE IF At(s, k) # "\\" THEN k + 1 ELSE IF k < Len(s) THEN k + 2 ELSE 0]
           found == [k \in i .. n |-> IF At(s, k) = quote THEN Lexed("string", k + 1, FALSE) ELSE Lexed("string", Len(s) + 1, TRUE)]
<1>1. LexString(s, i, quote) = f[i]
  BY DEF LexString
<1>2. Len(s) \in Nat /\ n \in Nat /\ i \in Nat /\ i <= n + 1 /\ i \in i .. n
  BY ListFacts
<1>3. quote # "eof" /\ quote # "\\"
  BY DEF Quotes
<1>4. \A k \in i .. n : At(s, k) # "eof" => k <= Len(s) /\ At(s, k) = s[k]
  BY <1>2 DEF At
<1>5. \A k \in i .. n : next[k] = 0 \/ next[k] \in k + 1 .. n
  BY <1>2, <1>4
<1>6. \A g : \A k \in i .. n : Turn(g, k) = IF next[k] = 0 THEN found[k] ELSE g[next[k]]
  <2> SUFFICES ASSUME NEW g, NEW k \in i .. n PROVE Turn(g, k) = IF next[k] = 0 THEN found[k] ELSE g[next[k]]
    OBVIOUS
  <2>1. k + 1 # 0 /\ k + 2 # 0
    BY <1>2
  <2>2. next[k] = (IF At(s, k) \in {"eof", quote} THEN 0 ELSE IF At(s, k) # "\\" THEN k + 1 ELSE IF k < Len(s) THEN k + 2 ELSE 0)
    OBVIOUS
  <2>3. found[k] = IF At(s, k) = quote THEN Lexed("string", k + 1, FALSE) ELSE Lexed("string", Len(s) + 1, TRUE)
    OBVIOUS
  <2> HIDE DEF next, found
  <2> QED
    BY <1>3, <2>1, <2>2, <2>3
<1>7. PICK g : Looks(g, i, n, next, found)
  <2> HIDE DEF next, found, n
  <2> QED
    BY <1>2, <1>5, LooksExist
<1> HIDE DEF Turn
<1>8. g = [k \in i .. Len(s) + 1 |-> Turn(g, k)]
  <2>1. [k \in i .. n |-> Turn(g, k)] = [k \in i .. n |-> IF next[k] = 0 THEN found[k] ELSE g[next[k]]]
    <3> HIDE DEF next, found
    <3> QED
      BY <1>6
  <2> QED
    BY <1>7, <2>1 DEF Looks
<1>9. f = [k \in i .. Len(s) + 1 |-> Turn(f, k)]
  BY <1>8
<1> HIDE DEF f
<1> DEFINE S == {k \in i .. n : Closes(s, k, quote, f[k])}
<1>10. ASSUME NEW k \in i .. n, \A j \in k + 1 .. n : j \in S
       PROVE  k \in S
  <2>1. f[k] = Turn(f, k)
    BY <1>9
  <2>2. CASE At(s, k) = "eof"
    <3>1. f[k] = Lexed("string", Len(s) + 1, TRUE)
      BY <1>3, <2>1, <2>2 DEF Turn
    <3>2. f[k].kind = "string" /\ f[k].to = Len(s) + 1 /\ f[k].faulty
      BY <3>1 DEF Lexed
    <3>3. f[k].faulty \in BOOLEAN
      BY <3>1 DEF Lexed
    <3>4. f[k].to \in k .. Len(s) + 1
      BY <1>2, <3>2
    <3> QED
      BY <3>2, <3>3, <3>4 DEF Closes
  <2>3. CASE At(s, k) = quote
    <3>1. f[k] = Lexed("string", k + 1, FALSE)
      BY <1>3, <2>1, <2>3 DEF Turn
    <3>2. k <= Len(s) /\ s[k] = quote
      BY <1>3, <1>4, <2>3
    <3>3. (k + 1) - 1 = k /\ k + 1 \in k .. Len(s) + 1 /\ k + 1 > k /\ k .. k - 1 = {}
      BY <1>2, <3>2
    <3>4. Escapes(s, k, k, quote)
      BY <3>3 DEF Escapes
    <3>5. f[k].kind = "string" /\ f[k].to = k + 1 /\ ~f[k].faulty
      BY <3>1 DEF Lexed
    <3>6. f[k].faulty \in BOOLEAN
      BY <3>1 DEF Lexed
    <3> QED
      BY <3>2, <3>3, <3>4, <3>5, <3>6 DEF Closes
  <2>4. CASE At(s, k) = "\\"
    <3>1. f[k] = IF k < Len(s) THEN f[k + 2] ELSE Lexed("string", Len(s) + 1, TRUE)
      BY <1>3, <2>1, <2>4 DEF Turn
    <3>2. CASE k < Len(s)
      <4>1. k + 2 \in k + 1 .. n /\ k \in Nat
        BY <1>2, <3>2
      <4>2. Closes(s, k + 2, quote, f[k])
        BY <1>10, <3>1, <3>2, <4>1
      <4>3. s[k] = "\\"
        BY <1>4, <2>4
      <4>4. f[k].to \in k + 2 .. Len(s) + 1
        BY <4>2 DEF Closes
      <4>5. ~f[k].faulty => Escapes(s, k, f[k].to - 1, quote)
        BY <4>1, <4>2, <4>3, <4>4, EscapesLonger DEF Closes
      <4> QED
        BY <4>1, <4>2, <4>4, <4>5 DEF Closes
    <3>3. CASE ~(k < Len(s))
      <4>1. f[k] = Lexed("string", Len(s) + 1, TRUE)
        BY <3>1, <3>3
      <4>2. f[k].kind = "string" /\ f[k].to = Len(s) + 1 /\ f[k].faulty
        BY <4>1 DEF Lexed
      <4>3. f[k].faulty \in BOOLEAN
        BY <4>1 DEF Lexed
      <4>4. f[k].to \in k .. Len(s) + 1
        BY <1>2, <4>2
      <4> QED
        BY <4>2, <4>3, <4>4 DEF Closes
    <3> QED
      BY <3>2, <3>3
  <2>5. CASE At(s, k) \notin {"eof", quote, "\\"}
    <3>1. f[k] = f[k + 1]
      BY <2>1, <2>5 DEF Turn
    <3>2. k + 1 \in k + 1 .. n /\ k \in Nat /\ s[k] # quote /\ s[k] # "\\"
      BY <1>2, <1>4, <2>5
    <3>3. Closes(s, k + 1, quote, f[k])
      BY <1>10, <3>1, <3>2
    <3>4. f[k].to \in k + 1 .. Len(s) + 1
      BY <3>3 DEF Closes
    <3>5. ~f[k].faulty => Escapes(s, k, f[k].to - 1, quote)
      BY <3>2, <3>3, <3>4, EscapesLonger DEF Closes
    <3> QED
      BY <3>2, <3>3, <3>4, <3>5 DEF Closes
  <2> QED
    BY <2>2, <2>3, <2>4, <2>5
<1> HIDE DEF S, n
<1>11. i .. n \subseteq S
  BY <1>2, <1>10, CountingDown
<1>12. i \in S
  BY <1>2, <1>11
<1> QED
  BY <1>1, <1>12 DEF S

\* So the token is a string, quotes and all.
LEMMA StringIsRead ==
  ASSUME NEW s, IsList(s), NEW i \in 1 .. Len(s), s[i] \in Quotes
  PROVE  LET found == LexString(s, i + 1, s[i]) IN
         /\ found.kind = "string" /\ found.to \in i + 1 .. Len(s) + 1 /\ found.faulty \in BOOLEAN
         /\ ~found.faulty => IsString(s, i, found.to)
<1> DEFINE found == LexString(s, i + 1, s[i])
<1>1. Len(s) \in Nat /\ i + 1 \in 1 .. Len(s) + 1
  BY ListFacts
<1>2. Closes(s, i + 1, s[i], found)
  BY <1>1, StringCloses
<1> HIDE DEF found
<1>3. found.kind = "string" /\ found.to \in i + 1 .. Len(s) + 1 /\ found.faulty \in BOOLEAN
  BY <1>2 DEF Closes
<1>4. ASSUME ~found.faulty
      PROVE  IsString(s, i, found.to)
  BY <1>2, <1>3, <1>4 DEF Closes, IsString, Escapes
<1> QED
  BY <1>3, <1>4 DEF found

-----------------------------------------------------------------------------
(* The lexer: names, numbers, templates and operators                      *)

\* What is read from a place of a source: it ends behind the place and, without a
\* diagnostic, is a token that could not have been longer.
IsRead(s, i, found) ==
  /\ found.to \in i + 1 .. Len(s) + 1 /\ found.faulty \in BOOLEAN
  /\ ~found.faulty =>
       /\ IsToken(found.kind, s, i, found.to)
       /\ found.to <= Len(s) /\ found.kind \in {"identifier", "number", "operator"} => ~IsToken(found.kind, s, i, found.to + 1)

\* What is lexed has the fields it was given.
LEMMA ReadIs ==
  ASSUME NEW s, NEW i, NEW kind, NEW to \in i + 1 .. Len(s) + 1, NEW faulty \in BOOLEAN,
         ~faulty => IsToken(kind, s, i, to),
         ~faulty /\ to <= Len(s) /\ kind \in {"identifier", "number", "operator"} => ~IsToken(kind, s, i, to + 1)
  PROVE  IsRead(s, i, Lexed(kind, to, faulty))
<1> DEFINE found == Lexed(kind, to, faulty)
<1>1. found.kind = kind /\ found.to = to /\ found.faulty = faulty
  BY DEF Lexed
<1> HIDE DEF found
<1>2. IsRead(s, i, found)
  BY <1>1 DEF IsRead
<1> QED
  BY <1>2 DEF found

\* Each kind of token by itself.
LEMMA KindsAre ==
  ASSUME NEW s, NEW from, NEW to
  PROVE  /\ IsToken("identifier", s, from, to) <=> IsName(s, from, to)
         /\ IsToken("number", s, from, to) <=> IsNumber(s, from, to)
         /\ IsToken("string", s, from, to) <=> IsString(s, from, to)
         /\ IsToken("template", s, from, to) <=> IsTemplate(s, from, to)
         /\ IsToken("operator", s, from, to) <=> IsOperator(s, from, to)
BY DEF IsToken

\* An identifier goes on as far as it can.
LEMMA NameIsRead ==
  ASSUME NEW s, IsList(s), NEW i \in 1 .. Len(s), s[i] \in Letters
  PROVE  IsRead(s, i, LexIdentifier(s, i))
<1> DEFINE class == Letters \cup Digits
           to == SpanOf(s, i, class)
<1>1. Len(s) \in Nat /\ i \in 1 .. Len(s) + 1 /\ s[i] \in class
  BY ListFacts
<1> HIDE DEF class
<1>2. /\ to \in i .. Len(s) + 1 /\ \A k \in i .. to - 1 : s[k] \in class
      /\ to <= Len(s) => s[to] \notin class
  BY <1>1, SpanIs
<1>3. LexIdentifier(s, i) = Lexed("identifier", to, FALSE)
  BY DEF LexIdentifier, class
<1> HIDE DEF to
<1>4. to \in i + 1 .. Len(s) + 1
  BY <1>1, <1>2
<1>5. IsName(s, i, to)
  BY <1>2 DEF IsName, class
<1>6. to <= Len(s) => ~IsName(s, i, to + 1)
  BY <1>2 DEF IsName, class
<1> QED
  BY <1>3, <1>4, <1>5, <1>6, KindsAre, ReadIs

\* The digits before an exponent, with a dot among them or none.
LEMMA NumberEnds ==
  ASSUME NEW s, IsList(s), NEW i \in 1 .. Len(s), s[i] \in Digits
  PROVE  LET end == NumberEnd(s, i) IN
         /\ end \in i + 1 .. Len(s) + 1
         /\ \E dot \in {0} \cup i + 1 .. end - 1 :
              /\ dot > 0 => s[dot] = "."
              /\ \A k \in i .. end - 1 : k # dot => s[k] \in Digits
              /\ end <= Len(s) => s[end] \notin Digits /\ (dot = 0 => s[end] # ".")
<1> DEFINE whole == SpanOf(s, i, Digits)
           part == SpanOf(s, whole + 1, Digits)
           end == NumberEnd(s, i)
<1>1. Len(s) \in Nat /\ i \in Nat /\ i \in 1 .. Len(s) + 1
  BY ListFacts
<1>2. /\ whole \in i .. Len(s) + 1 /\ \A k \in i .. whole - 1 : s[k] \in Digits
      /\ whole <= Len(s) => s[whole] \notin Digits
  BY <1>1, SpanIs
<1>3. end = IF At(s, whole) = "." THEN part ELSE whole
  BY DEF NumberEnd
<1> HIDE DEF whole
<1>4. whole \in i + 1 .. Len(s) + 1
  BY <1>1, <1>2
<1>5. CASE At(s, whole) = "."
  <2>1. whole <= Len(s) /\ s[whole] = "."
    BY <1>5 DEF At
  <2>2. whole + 1 \in 1 .. Len(s) + 1
    BY <1>1, <1>4, <2>1
  <2>3. /\ part \in whole + 1 .. Len(s) + 1 /\ \A k \in whole + 1 .. part - 1 : s[k] \in Digits
        /\ part <= Len(s) => s[part] \notin Digits
    BY <2>2, SpanIs
  <2> HIDE DEF part, end
  <2>4. end = part /\ end \in i + 1 .. Len(s) + 1 /\ whole \in i + 1 .. end - 1 /\ whole # 0
    BY <1>1, <1>3, <1>4, <1>5, <2>3
  <2>5. \A k \in i .. end - 1 : k # whole => s[k] \in Digits
    BY <1>1, <1>2, <1>4, <2>3, <2>4
  <2>6. end <= Len(s) => s[end] \notin Digits
    BY <2>3, <2>4
  <2> QED
    BY <2>1, <2>4, <2>5, <2>6 DEF end
<1>6. CASE At(s, whole) # "."
  <2> HIDE DEF end
  <2>1. end = whole
    BY <1>3, <1>6
  <2>2. end <= Len(s) => s[end] # "."
    BY <1>6, <2>1 DEF At
  <2>3. \A k \in i .. end - 1 : k # 0 => s[k] \in Digits
    BY <1>2, <2>1
  <2>4. end <= Len(s) => s[end] \notin Digits
    BY <1>2, <2>1
  <2>5. 0 \in {0} \cup i + 1 .. end - 1 /\ ~(0 > 0)
    OBVIOUS
  <2> QED
    BY <1>4, <2>1, <2>2, <2>3, <2>4, <2>5 DEF end
<1> QED
  BY <1>5, <1>6

\* Exponent and all, a number does too.
LEMMA NumberIsRead ==
  ASSUME NEW s, IsList(s), NEW i \in 1 .. Len(s), s[i] \in Digits
  PROVE  IsRead(s, i, LexNumber(s, i))
<1> DEFINE end == NumberEnd(s, i)
           sign == IF At(s, end + 1) = "+" THEN end + 2 ELSE end + 1
           exponent == SpanOf(s, sign, Digits)
           found == LexNumber(s, i)
<1>1. Len(s) \in Nat /\ i \in Nat /\ 0 < i
  BY ListFacts
<1>2. end \in i + 1 .. Len(s) + 1
  BY NumberEnds
<1>3. PICK dot \in {0} \cup i + 1 .. end - 1 :
        /\ dot > 0 => s[dot] = "."
        /\ \A k \in i .. end - 1 : k # dot => s[k] \in Digits
        /\ end <= Len(s) => s[end] \notin Digits /\ (dot = 0 => s[end] # ".")
  BY NumberEnds
<1>4. found = IF At(s, end) # "e" THEN Lexed("number", end, FALSE) ELSE Lexed("number", exponent, exponent = sign)
  BY DEF LexNumber
<1>5. "." \notin Digits /\ "e" \notin Digits /\ "+" \notin Digits
  BY DEF Digits
<1> HIDE DEF end, sign
<1>6. CASE At(s, end) # "e"
  <2>1. found = Lexed("number", end, FALSE)
    BY <1>4, <1>6
  <2> HIDE DEF found
  <2>2. IsNumber(s, i, end)
    BY <1>1, <1>2, <1>3 DEF IsNumber
  <2>3. ASSUME end <= Len(s), IsNumber(s, i, end + 1)
        PROVE  FALSE
    <3>1. PICK d \in {0} \cup i + 1 .. (end + 1) - 1, exp \in i .. end + 1 :
            /\ d > 0 => s[d] = "." /\ d < exp
            /\ exp < end + 1 => s[exp] = "e" /\ s[(end + 1) - 1] \in Digits
            /\ \A k \in i .. (end + 1) - 1 : s[k] \in Digits \/ k \in {d, exp} \/ (k = exp + 1 /\ s[k] = "+")
      BY <2>3 DEF IsNumber
    <3>2. (end + 1) - 1 = end /\ end \in i .. end /\ end > 0
      BY <1>1, <1>2
    <3>3. exp = end + 1
      BY <1>1, <1>2, <1>3, <2>3, <3>1, <3>2
    <3>4. end = d /\ s[end] = "."
      BY <1>3, <2>3, <3>1, <3>2, <3>3
    <3>5. dot \in i + 1 .. end - 1
      BY <1>3, <2>3, <3>4
    <3>6. s[dot] = "." /\ dot \in i .. (end + 1) - 1 /\ dot # d /\ dot # exp /\ dot # exp + 1
      BY <1>1, <1>2, <1>3, <3>3, <3>4, <3>5
    <3> QED
      BY <1>5, <3>1, <3>6
  <2> QED
    BY <1>2, <2>1, <2>2, <2>3, KindsAre, ReadIs DEF found
<1>7. CASE At(s, end) = "e"
  <2>1. end <= Len(s) /\ s[end] = "e"
    BY <1>7 DEF At
  <2>2. sign \in end + 1 .. end + 2 /\ sign <= Len(s) + 1 /\ (sign = end + 2 => s[end + 1] = "+")
    BY <1>1, <1>2, <2>1 DEF At, sign
  <2>3. sign \in 1 .. Len(s) + 1
    BY <1>1, <1>2, <2>2
  <2>4. /\ exponent \in sign .. Len(s) + 1 /\ \A k \in sign .. exponent - 1 : s[k] \in Digits
        /\ exponent <= Len(s) => s[exponent] \notin Digits
    BY <2>3, SpanIs
  <2> DEFINE none == exponent = sign
  <2>5. found = Lexed("number", exponent, none) /\ none \in BOOLEAN
    BY <1>4, <1>7
  <2> HIDE DEF found, exponent
  <2>6. exponent \in i + 1 .. Len(s) + 1
    BY <1>1, <1>2, <2>2, <2>4
  <2>7. ASSUME exponent # sign
        PROVE  IsNumber(s, i, exponent)
    <3>1. exponent - 1 \in sign .. exponent - 1 /\ end < exponent /\ end \in i .. exponent
      BY <1>1, <1>2, <2>2, <2>4, <2>7
    <3>2. dot \in {0} \cup i + 1 .. exponent - 1 /\ (dot > 0 => dot < end)
      <4>1. CASE dot = 0
        BY <4>1
      <4>2. CASE dot \in i + 1 .. end - 1
        BY <1>1, <1>2, <2>4, <2>6, <3>1, <4>2
      <4> QED
        BY <4>1, <4>2
    <3>3. ASSUME NEW k \in i .. exponent - 1
          PROVE  s[k] \in Digits \/ k \in {dot, end} \/ (k = end + 1 /\ s[k] = "+")
      BY <1>1, <1>2, <1>3, <2>2, <2>4
    <3> QED
      BY <1>3, <2>1, <2>4, <3>1, <3>2, <3>3 DEF IsNumber
  <2>8. ASSUME exponent <= Len(s), IsNumber(s, i, exponent + 1)
        PROVE  FALSE
    <3>1. PICK d \in {0} \cup i + 1 .. (exponent + 1) - 1, exp \in i .. exponent + 1 :
            /\ d > 0 => s[d] = "." /\ d < exp
            /\ exp < exponent + 1 => s[exp] = "e" /\ s[(exponent + 1) - 1] \in Digits
            /\ \A k \in i .. (exponent + 1) - 1 : s[k] \in Digits \/ k \in {d, exp} \/ (k = exp + 1 /\ s[k] = "+")
      BY <2>8 DEF IsNumber
    <3>2. (exponent + 1) - 1 = exponent /\ end \in i .. exponent /\ end < exponent /\ end > 0
      BY <1>1, <1>2, <2>2, <2>4
    <3>3. exp = exponent + 1
      BY <1>1, <1>2, <2>4, <2>6, <2>8, <3>1, <3>2
    <3>4. s[end] \notin Digits /\ end \in i .. (exponent + 1) - 1 /\ end # exp /\ end # exp + 1
      BY <1>5, <2>1, <2>6, <3>2, <3>3
    <3>5. end = d
      BY <3>1, <3>4
    <3> QED
      BY <2>1, <3>1, <3>2, <3>5
  <2> QED
    <3>1. ~none => IsNumber(s, i, exponent)
      BY <2>7
    <3>2. exponent <= Len(s) => ~IsNumber(s, i, exponent + 1)
      BY <2>8
    <3> HIDE DEF none
    <3> QED
      BY <2>5, <2>6, <3>1, <3>2, KindsAre, ReadIs DEF found
<1> QED
  BY <1>6, <1>7

\* A template without interpolation ends at the next backquote.
LEMMA TemplateIsRead ==
  ASSUME NEW s, IsList(s), NEW i \in 1 .. Len(s), s[i] = "backquote"
  PROVE  IsRead(s, i, LexTemplate(s, i + 1))
<1> DEFINE class == {At(s, k) : k \in i + 1 .. Len(s)} \ {"backquote"}
           end == SpanOf(s, i + 1, class)
           interpolates == \E k \in i + 1 .. end - 1 : s[k] = "$" /\ k < Len(s) /\ s[k + 1] = "{"
           found == LexTemplate(s, i + 1)
<1>1. Len(s) \in Nat /\ i \in Nat /\ i + 1 \in 1 .. Len(s) + 1
  BY ListFacts
<1>2. found = IF end > Len(s) THEN Lexed("template", end, TRUE) ELSE Lexed("template", end + 1, interpolates)
  BY DEF LexTemplate
<1> HIDE DEF class
<1>3. /\ end \in i + 1 .. Len(s) + 1 /\ \A k \in i + 1 .. end - 1 : s[k] \in class
      /\ end <= Len(s) => s[end] \notin class
  BY <1>1, SpanIs
<1> HIDE DEF end
<1>4. CASE end > Len(s)
  <2>1. found = Lexed("template", end, TRUE)
    BY <1>2, <1>4
  <2> HIDE DEF found
  <2> QED
    BY <1>3, <2>1, ReadIs DEF found
<1>5. CASE ~(end > Len(s))
  <2>1. found = Lexed("template", end + 1, interpolates) /\ interpolates \in BOOLEAN
    BY <1>2, <1>5
  <2> HIDE DEF found
  <2>2. s[end] = "backquote"
    BY <1>1, <1>3, <1>5 DEF At, class
  <2>3. end + 1 \in i + 1 .. Len(s) + 1 /\ (end + 1) - 1 = end /\ (end + 1) - 2 = end - 1 /\ i + 1 < end + 1
    BY <1>1, <1>3, <1>5
  <2>4. ASSUME ~interpolates, NEW k \in i + 1 .. end - 1
        PROVE  s[k] # "backquote" /\ ~(s[k] = "$" /\ s[k + 1] = "{")
    <3>1. s[k] \in class /\ k < Len(s)
      BY <1>1, <1>3, <1>5
    <3> QED
      BY <2>4, <3>1 DEF class
  <2>5. ~interpolates => IsTemplate(s, i, end + 1)
    <3> HIDE DEF interpolates
    <3> QED
      BY <2>2, <2>3, <2>4 DEF IsTemplate
  <2> HIDE DEF interpolates
  <2> QED
    BY <2>1, <2>3, <2>5, KindsAre, ReadIs DEF found
<1> QED
  BY <1>4, <1>5

\* The lengths of operators.
LEMMA OperatorsAre ==
  /\ \A c \in Continuations : Len(c) \in {2, 3}
  /\ \A c \in Singles : Len(<<c>>) = 1
BY DEF Continuations

\* The longest operator that begins here is read.
LEMMA OperatorIsRead ==
  ASSUME NEW s, IsList(s), NEW i \in 1 .. Len(s), s[i] \in Singles
  PROVE  IsRead(s, i, LexOperator(s, i))
<1> DEFINE Is(n) == \E c \in Continuations : Len(c) = n /\ i + n - 1 <= Len(s) /\ c = SubSeq(s, i, i + n - 1)
           length == IF ~Is(2) THEN 1 ELSE IF ~Is(3) THEN 2 ELSE 3
           found == LexOperator(s, i)
           single == s[i] = "&" /\ length = 1
<1>1. Len(s) \in Nat /\ i \in Nat
  BY ListFacts
<1>2. found = Lexed("operator", i + length, single)
  BY DEF LexOperator
<1>3. length \in {1, 2, 3} /\ (length = 1 <=> ~Is(2)) /\ (length = 3 <=> Is(2) /\ Is(3))
  OBVIOUS
<1>4. \A n \in {1, 2, 3, 4} : i + n <= Len(s) + 1 =>
        Len(SubSeq(s, i, (i + n) - 1)) = n /\ (n \in {2, 3} => (Is(n) <=> SubSeq(s, i, (i + n) - 1) \in Continuations))
  <2> SUFFICES ASSUME NEW n \in {1, 2, 3, 4}, i + n <= Len(s) + 1
               PROVE  Len(SubSeq(s, i, (i + n) - 1)) = n /\ (n \in {2, 3} => (Is(n) <=> SubSeq(s, i, (i + n) - 1) \in Continuations))
    OBVIOUS
  <2>1. (i + n) - 1 \in i - 1 .. Len(s) /\ i \in 1 .. Len(s) + 1 /\ (i + n) - 1 - i + 1 = n /\ (i + n) - 1 = i + n - 1
    BY <1>1
  <2>2. Len(SubSeq(s, i, (i + n) - 1)) = n
    BY <2>1, SubList
  <2>3. SubSeq(s, i, (i + n) - 1) \in Continuations => Is(n)
    <3> DEFINE text == SubSeq(s, i, (i + n) - 1)
    <3>1. i + n - 1 <= Len(s)
      BY <1>1
    <3>2. text = SubSeq(s, i, i + n - 1) /\ Len(text) = n
      BY <2>2
    <3> HIDE DEF text
    <3>3. text \in Continuations => \E c \in Continuations : Len(c) = n /\ i + n - 1 <= Len(s) /\ c = SubSeq(s, i, i + n - 1)
      BY <3>1, <3>2
    <3> QED
      BY <3>3 DEF text
  <2>4. n \in {2, 3} /\ Is(n) => SubSeq(s, i, (i + n) - 1) \in Continuations
    BY <1>1, <2>1
  <2> QED
    BY <2>2, <2>3, <2>4
<1>5. (Is(2) => i + 2 <= Len(s) + 1) /\ (Is(3) => i + 3 <= Len(s) + 1)
  BY <1>1
<1>6. SubSeq(s, i, i) = <<s[i]>>
  <2>1. i \in 1 .. Len(s) + 1 /\ i \in i - 1 .. Len(s) /\ i - i + 1 = 1
    BY <1>1
  <2>2. IsList(SubSeq(s, i, i)) /\ Len(SubSeq(s, i, i)) = 1 /\ \A k \in 1 .. 1 : SubSeq(s, i, i)[k] = s[i + k - 1]
    BY <2>1, SubList
  <2>3. SubSeq(s, i, i)[1] = s[i]
    BY <1>1, <2>2
  <2> QED
    <3>1. PICK T : SubSeq(s, i, i) \in Seq(T)
      BY <2>2 DEF IsList
    <3>2. SubSeq(s, i, i) = [k \in 1 .. 1 |-> SubSeq(s, i, i)[k]]
      BY <2>2, <3>1
    <3>3. [k \in 1 .. 1 |-> SubSeq(s, i, i)[k]] = <<s[i]>>
      BY <2>3
    <3> QED
      BY <3>2, <3>3
<1> HIDE DEF Is, length
<1>7. single \in BOOLEAN
  OBVIOUS
<1> HIDE DEF found
<1>8. i + length \in i + 1 .. Len(s) + 1
  BY <1>1, <1>3, <1>5
<1>9. ~single => IsOperator(s, i, i + length)
  <2>1. CASE length = 1
    BY <1>1, <1>6, <2>1 DEF IsOperator
  <2>2. CASE length # 1
    BY <1>3, <1>4, <1>5, <2>2 DEF IsOperator
  <2> QED
    BY <2>1, <2>2
<1>10. ASSUME i + length <= Len(s), IsOperator(s, i, i + length + 1)
       PROVE  FALSE
  <2> DEFINE n == length + 1
             text == SubSeq(s, i, (i + n) - 1)
  <2>1. n \in {2, 3, 4} /\ i + n <= Len(s) + 1 /\ (i + n) - 1 = i + length + 1 - 1
    BY <1>1, <1>3, <1>10
  <2>2. Len(text) = n
    BY <1>4, <2>1
  <2>3. text \in Continuations \cup {<<c>> : c \in Singles \ {"&"}}
    BY <1>1, <1>3, <1>10 DEF IsOperator
  <2> HIDE DEF text
  <2>4. text \in Continuations
    BY <2>1, <2>2, <2>3, OperatorsAre
  <2>5. n \in {2, 3}
    BY <2>2, <2>4, OperatorsAre
  <2>6. Is(n)
    BY <1>4, <2>1, <2>4, <2>5 DEF text
  <2> QED
    BY <1>3, <2>5, <2>6
<1> QED
  <2>1. i + length <= Len(s) => ~IsOperator(s, i, (i + length) + 1)
    BY <1>10
  <2> HIDE DEF single
  <2> QED
    BY <1>2, <1>7, <1>8, <1>9, <2>1, KindsAre, ReadIs DEF found

-----------------------------------------------------------------------------
(* The lexer: white space and comments                                     *)

\* Nothing is trivia.
LEMMA NothingIsTrivia ==
  ASSUME NEW s, NEW i \in Nat
  PROVE  IsTrivia(s, i, i)
<1>1. {} \in SUBSET (i .. i - 1) /\ ~(i < i)
  OBVIOUS
<1> QED
  BY <1>1 DEF IsTrivia

\* A gap alone is trivia.
LEMMA GapIsTrivia ==
  ASSUME NEW s, NEW i \in Nat, NEW last \in Nat, i <= last, IsGap(s, i, last)
  PROVE  IsTrivia(s, i, last + 1)
<1>1. {i} \in SUBSET (i .. (last + 1) - 1) /\ last \in i .. (last + 1) - 1
  OBVIOUS
<1>2. \A k \in {i} : \E l \in k .. (last + 1) - 1 : IsGap(s, k, l) /\ l + 1 \in {i} \cup {last + 1}
  BY <1>1
<1> QED
  BY <1>1, <1>2 DEF IsTrivia

\* What is trivia followed by trivia is trivia.
LEMMA TriviaJoined ==
  ASSUME NEW s, NEW a \in Nat, NEW b \in Nat, NEW c \in Nat, a <= b, b <= c, IsTrivia(s, a, b), IsTrivia(s, b, c)
  PROVE  IsTrivia(s, a, c)
<1>1. PICK p \in SUBSET (a .. b - 1) :
        /\ a < b => a \in p
        /\ \A i \in p : \E last \in i .. b - 1 : IsGap(s, i, last) /\ last + 1 \in p \cup {b}
  BY DEF IsTrivia
<1>2. PICK q \in SUBSET (b .. c - 1) :
        /\ b < c => b \in q
        /\ \A i \in q : \E last \in i .. c - 1 : IsGap(s, i, last) /\ last + 1 \in q \cup {c}
  BY DEF IsTrivia
<1> DEFINE both == p \cup q
<1>3. both \in SUBSET (a .. c - 1) /\ (a < c => a \in both)
  BY <1>1, <1>2
<1>4. ASSUME NEW i \in p
      PROVE  \E last \in i .. c - 1 : IsGap(s, i, last) /\ last + 1 \in both \cup {c}
  <2>1. PICK last \in i .. b - 1 : IsGap(s, i, last) /\ last + 1 \in p \cup {b}
    BY <1>1, <1>4
  <2>2. i \in a .. b - 1 /\ last \in i .. c - 1
    BY <1>4, <2>1
  <2>3. b \in q \/ b = c
    BY <1>2
  <2> QED
    BY <2>1, <2>2, <2>3
<1>5. ASSUME NEW i \in q
      PROVE  \E last \in i .. c - 1 : IsGap(s, i, last) /\ last + 1 \in both \cup {c}
  BY <1>2, <1>5
<1>6. \A i \in both : \E last \in i .. c - 1 : IsGap(s, i, last) /\ last + 1 \in both \cup {c}
  BY <1>4, <1>5
<1> HIDE DEF both
<1> QED
  BY <1>3, <1>6 DEF IsTrivia

\* So is any run of white space,
LEMMA WhitespaceIsTrivia ==
  ASSUME NEW s, NEW i \in Nat, NEW to \in Nat, i <= to, \A k \in i .. to - 1 : s[k] \in Whitespace
  PROVE  IsTrivia(s, i, to)
<1> DEFINE p == i .. to - 1
<1>1. p \in SUBSET (i .. to - 1) /\ (i < to => i \in p)
  OBVIOUS
<1>2. ASSUME NEW k \in p
      PROVE  \E last \in k .. to - 1 : IsGap(s, k, last) /\ last + 1 \in p \cup {to}
  BY <1>2 DEF IsGap
<1> HIDE DEF p
<1> QED
  BY <1>1, <1>2 DEF IsTrivia

\* a comment up to the end of its line,
LEMMA LineCommentIs ==
  ASSUME NEW s, IsList(s), NEW i \in 1 .. Len(s), At(s, i) = "/", At(s, i + 1) = "/"
  PROVE  LET to == LineCommentEnd(s, i) IN to \in i + 1 .. Len(s) + 1 /\ IsTrivia(s, i, to)
<1> DEFINE class == {At(s, k) : k \in i .. Len(s)} \ {LineEnd}
           to == SpanOf(s, i, class)
<1>1. Len(s) \in Nat /\ i \in Nat /\ i \in 1 .. Len(s) + 1
  BY ListFacts
<1>2. s[i] = "/" /\ s[i + 1] = "/" /\ i + 1 <= Len(s)
  BY <1>1 DEF At
<1>3. s[i] \in class /\ s[i + 1] \in class
  BY <1>1, <1>2 DEF At, LineEnd
<1>4. \A k \in i .. Len(s) : s[k] \in class <=> s[k] # LineEnd
  BY <1>1 DEF At
<1>5. LineCommentEnd(s, i) = to
  BY DEF LineCommentEnd
<1> HIDE DEF class
<1>6. /\ to \in i .. Len(s) + 1 /\ \A k \in i .. to - 1 : s[k] \in class
      /\ to <= Len(s) => s[to] \notin class
  BY <1>1, SpanIs
<1> HIDE DEF to
<1>7. to \in i + 2 .. Len(s) + 1
  BY <1>1, <1>2, <1>3, <1>6
<1>8. to - 1 \in Nat /\ i <= to - 1 /\ i < to - 1 /\ (to - 1) + 1 = to
  BY <1>1, <1>7
<1>9. \A k \in i .. to - 1 : s[k] # LineEnd
  BY <1>1, <1>4, <1>6, <1>7
<1>10. to - 1 < Len(s) => s[(to - 1) + 1] = LineEnd
  BY <1>1, <1>4, <1>6, <1>7, <1>8
<1>11. IsGap(s, i, to - 1)
  BY <1>2, <1>8, <1>9, <1>10 DEF IsGap
<1>12. IsTrivia(s, i, to)
  BY <1>1, <1>8, <1>11, GapIsTrivia
<1> QED
  BY <1>1, <1>5, <1>7, <1>12

\* and one that is closed at the first place it can be.
LEMMA BlockCommentIs ==
  ASSUME NEW s, IsList(s), NEW i \in 1 .. Len(s), At(s, i) = "/", At(s, i + 1) = "*"
  PROVE  LET comment == BlockCommentEnd(s, i) IN
         /\ comment.to \in i + 1 .. Len(s) + 1 /\ comment.faulty \in BOOLEAN
         /\ ~comment.faulty => IsTrivia(s, i, comment.to)
<1> DEFINE ends == {k \in i + 2 .. Len(s) - 1 : s[k] = "*" /\ s[k + 1] = "/"}
           first == CHOOSE k \in ends : \A j \in ends : k <= j
           comment == BlockCommentEnd(s, i)
<1>1. Len(s) \in Nat /\ i \in Nat
  BY ListFacts
<1>2. s[i] = "/" /\ s[i + 1] = "*"
  BY <1>1 DEF At
<1>3. comment = IF ends = {} THEN [to |-> Len(s) + 1, faulty |-> TRUE] ELSE [to |-> 2 + first, faulty |-> FALSE]
  BY DEF BlockCommentEnd
<1>4. CASE ends = {}
  <2>1. comment = [to |-> Len(s) + 1, faulty |-> TRUE]
    BY <1>3, <1>4
  <2> HIDE DEF comment
  <2>2. comment.to = Len(s) + 1
    BY <2>1
  <2>3. comment.faulty = TRUE
    BY <2>1
  <2>4. comment.to \in i + 1 .. Len(s) + 1
    BY <1>1, <2>2
  <2>5. comment.faulty \in BOOLEAN /\ (~comment.faulty => IsTrivia(s, i, comment.to))
    BY ONLY <2>3, Zenon
  <2> QED
    BY <2>4, <2>5 DEF comment
<1>5. CASE ends # {}
  <2>1. first \in ends /\ \A j \in ends : first <= j
    <3>1. ends \in SUBSET (i + 2 .. Len(s) - 1) /\ i + 2 \in Nat /\ Len(s) - 1 \in Int
      BY <1>1
    <3> HIDE DEF ends
    <3> QED
      BY <1>5, <3>1, LeastOf
  <2>2. comment = [to |-> 2 + first, faulty |-> FALSE]
    BY <1>3, <1>5
  <2> HIDE DEF comment, first
  <2>3. comment.to = 2 + first
    BY <2>2
  <2>4. comment.faulty = FALSE
    BY <2>2
  <2>5. first \in i + 2 .. Len(s) - 1 /\ s[first] = "*" /\ s[first + 1] = "/"
    BY <2>1
  <2>6. ASSUME NEW k \in i + 3 .. (first + 1) - 1
        PROVE  ~(s[k - 1] = "*" /\ s[k] = "/")
    BY <1>1, <2>1, <2>5, <2>6
  <2>7. (first + 1) - 1 = first /\ i + 2 < first + 1 /\ first + 1 \in Nat /\ i <= first + 1 /\ (first + 1) + 1 = 2 + first
    BY <1>1, <2>5
  <2>8. IsGap(s, i, first + 1)
    BY <1>2, <2>5, <2>6, <2>7 DEF IsGap
  <2>9. IsTrivia(s, i, 2 + first)
    BY <1>1, <2>7, <2>8, GapIsTrivia
  <2>10. 2 + first \in i + 1 .. Len(s) + 1
    BY <1>1, <2>5
  <2>11. comment.to \in i + 1 .. Len(s) + 1 /\ IsTrivia(s, i, comment.to)
    BY <2>9, <2>10, <2>3
  <2>12. comment.faulty \in BOOLEAN
    BY <2>4
  <2> QED
    BY <2>11, <2>12 DEF comment
<1> QED
  BY <1>4, <1>5

\* What is skipped from a place on.
Skips(s, k, found) ==
  /\ found.to \in k .. Len(s) + 1 /\ found.faulty \in BOOLEAN
  /\ ~found.faulty => IsTrivia(s, k, found.to)

\* What is trivia may come before what is skipped.
LEMMA SkipsLonger ==
  ASSUME NEW s, IsList(s), NEW k \in Nat, NEW i \in Nat, NEW j \in Nat, k <= i, i <= j,
         IsTrivia(s, k, i), IsTrivia(s, i, j), NEW found, Skips(s, j, found)
  PROVE  Skips(s, k, found)
<1>1. found.to \in j .. Len(s) + 1 /\ found.faulty \in BOOLEAN /\ (~found.faulty => IsTrivia(s, j, found.to))
  BY DEF Skips
<1>2. Len(s) \in Nat
  BY ListFacts
<1>3. found.to \in Nat /\ j <= found.to /\ found.to \in k .. Len(s) + 1 /\ k <= j
  BY <1>1, <1>2
<1>4. IsTrivia(s, k, j)
  BY TriviaJoined
<1>5. ~found.faulty => IsTrivia(s, k, found.to)
  BY <1>1, <1>3, <1>4, TriviaJoined
<1> QED
  BY <1>1, <1>3, <1>5 DEF Skips

\* skip_trivia skips trivia, or finds a comment that is never closed.
LEMMA TriviaIsSkipped ==
  ASSUME NEW s, IsList(s), NEW from \in 1 .. Len(s) + 1
  PROVE  Skips(s, from, SkipTrivia(s, from))
<1> DEFINE n == Len(s) + 1
           at(k) == SpanOf(s, k, Whitespace)
           IsLine(k) == At(s, at(k)) = "/" /\ At(s, at(k) + 1) = "/"
           IsBlock(k) == At(s, at(k)) = "/" /\ At(s, at(k) + 1) = "*"
           end(k) == BlockCommentEnd(s, at(k))
           Turn(g, k) ==
             CASE IsLine(k) -> g[LineCommentEnd(s, at(k))]
               [] IsBlock(k) -> IF end(k).faulty THEN end(k) ELSE g[end(k).to]
               [] OTHER -> [to |-> at(k), faulty |-> FALSE]
           f == CHOOSE g : g = [k \in from .. Len(s) + 1 |-> Turn(g, k)]
           next == [k \in from .. n |-> IF IsLine(k) THEN LineCommentEnd(s, at(k))
                                        ELSE IF IsBlock(k) /\ ~end(k).faulty THEN end(k).to ELSE 0]
           found == [k \in from .. n |-> IF IsBlock(k) THEN end(k) ELSE [to |-> at(k), faulty |-> FALSE]]
<1>1. SkipTrivia(s, from) = f[from]
  BY DEF SkipTrivia
<1>2. Len(s) \in Nat /\ n \in Nat /\ from \in Nat /\ from <= n + 1 /\ from \in from .. n
  BY ListFacts
<1>3. ASSUME NEW k \in from .. n
      PROVE  /\ at(k) \in k .. Len(s) + 1 /\ IsTrivia(s, k, at(k)) /\ at(k) \in Nat /\ k \in Nat
             /\ IsLine(k) \/ IsBlock(k) => at(k) \in 1 .. Len(s)
  <2>1. k \in 1 .. Len(s) + 1 /\ k \in Nat
    BY <1>2
  <2>2. at(k) \in k .. Len(s) + 1 /\ \A j \in k .. at(k) - 1 : s[j] \in Whitespace
    BY <2>1, SpanIs
  <2> HIDE DEF at
  <2>3. at(k) \in Nat /\ k <= at(k)
    BY <1>2, <2>1, <2>2
  <2>4. IsTrivia(s, k, at(k))
    BY <2>1, <2>2, <2>3, WhitespaceIsTrivia
  <2>5. At(s, at(k)) = "/" => at(k) <= Len(s)
    BY DEF At
  <2> QED
    BY <1>2, <2>1, <2>2, <2>3, <2>4, <2>5
<1> HIDE DEF at
<1>4. ASSUME NEW k \in from .. n, IsLine(k)
      PROVE  LineCommentEnd(s, at(k)) \in k + 1 .. n /\ at(k) <= LineCommentEnd(s, at(k)) /\ IsTrivia(s, at(k), LineCommentEnd(s, at(k)))
  BY <1>2, <1>3, <1>4, LineCommentIs
<1>5. ASSUME NEW k \in from .. n, IsBlock(k)
      PROVE  /\ end(k).to \in k + 1 .. n /\ at(k) <= end(k).to /\ end(k).faulty \in BOOLEAN
             /\ ~end(k).faulty => IsTrivia(s, at(k), end(k).to)
  <2>1. /\ end(k).to \in at(k) + 1 .. Len(s) + 1 /\ end(k).faulty \in BOOLEAN
        /\ ~end(k).faulty => IsTrivia(s, at(k), end(k).to)
    BY <1>3, <1>5, BlockCommentIs
  <2>2. at(k) \in k .. Len(s) + 1 /\ k \in Nat
    BY <1>3
  <2> HIDE DEF end
  <2>3. end(k).to \in k + 1 .. n /\ at(k) <= end(k).to
    BY <1>2, <2>1, <2>2
  <2> QED
    BY <2>1, <2>3
<1>6. \A k : ~(IsLine(k) /\ IsBlock(k))
  OBVIOUS
<1> HIDE DEF end, IsLine, IsBlock
<1>7. ASSUME NEW k \in from .. n PROVE next[k] = 0 \/ next[k] \in k + 1 .. n
  <2>1. next[k] = IF IsLine(k) THEN LineCommentEnd(s, at(k)) ELSE IF IsBlock(k) /\ ~end(k).faulty THEN end(k).to ELSE 0
    OBVIOUS
  <2> HIDE DEF next
  <2> QED
    BY <1>4, <1>5, <2>1
<1>8. ASSUME NEW g, NEW k \in from .. n
      PROVE  Turn(g, k) = IF next[k] = 0 THEN found[k] ELSE g[next[k]]
  <2>1. next[k] = IF IsLine(k) THEN LineCommentEnd(s, at(k)) ELSE IF IsBlock(k) /\ ~end(k).faulty THEN end(k).to ELSE 0
    OBVIOUS
  <2>2. found[k] = IF IsBlock(k) THEN end(k) ELSE [to |-> at(k), faulty |-> FALSE]
    OBVIOUS
  <2>3. IsLine(k) => LineCommentEnd(s, at(k)) # 0
    BY <1>2, <1>4
  <2>4. IsBlock(k) => end(k).to # 0
    BY <1>2, <1>5
  <2> HIDE DEF next, found
  <2> QED
    BY <1>6, <2>1, <2>2, <2>3, <2>4
<1> HIDE DEF next, found, n
<1>9. PICK g : Looks(g, from, n, next, found)
  BY <1>2, <1>7, LooksExist
<1> HIDE DEF Turn
<1>10. g = [k \in from .. Len(s) + 1 |-> Turn(g, k)]
  BY <1>8, <1>9 DEF Looks, n
<1>11. f = [k \in from .. Len(s) + 1 |-> Turn(f, k)]
  BY <1>10
<1> HIDE DEF f
<1> DEFINE S == {k \in from .. n : Skips(s, k, f[k])}
<1>12. ASSUME NEW k \in from .. n, \A j \in k + 1 .. n : j \in S
       PROVE  k \in S
  <2>1. f[k] = Turn(f, k)
    BY <1>11 DEF n
  <2>2. at(k) \in k .. Len(s) + 1 /\ IsTrivia(s, k, at(k)) /\ at(k) \in Nat /\ k \in Nat /\ k <= at(k)
    BY <1>3
  <2>3. CASE IsLine(k)
    <3> DEFINE j == LineCommentEnd(s, at(k))
    <3>1. f[k] = f[j]
      BY <1>6, <2>1, <2>3 DEF Turn
    <3>2. j \in k + 1 .. n /\ at(k) <= j /\ IsTrivia(s, at(k), j)
      BY <1>4, <2>3
    <3> HIDE DEF j
    <3>3. j \in Nat
      BY <2>2, <3>2
    <3>4. Skips(s, j, f[k])
      BY <1>12, <3>1, <3>2
    <3> QED
      BY <2>2, <3>2, <3>3, <3>4, SkipsLonger
  <2>4. CASE IsBlock(k)
    <3>1. f[k] = IF end(k).faulty THEN end(k) ELSE f[end(k).to]
      BY <1>6, <2>1, <2>4 DEF Turn
    <3>2. CASE end(k).faulty
      BY <1>5, <2>2, <2>4, <3>1, <3>2 DEF n, Skips
    <3>3. CASE ~end(k).faulty
      <4> DEFINE j == end(k).to
      <4>1. f[k] = f[j]
        BY <3>1, <3>3
      <4>2. j \in k + 1 .. n /\ at(k) <= j /\ IsTrivia(s, at(k), j)
        BY <1>5, <2>4, <3>3
      <4> HIDE DEF j
      <4>3. j \in Nat
        BY <2>2, <4>2
      <4>4. Skips(s, j, f[k])
        BY <1>12, <4>1, <4>2
      <4> QED
        BY <2>2, <4>2, <4>3, <4>4, SkipsLonger
    <3> QED
      BY <3>2, <3>3
  <2>5. CASE ~IsLine(k) /\ ~IsBlock(k)
    <3>1. f[k] = [to |-> at(k), faulty |-> FALSE]
      BY <2>1, <2>5 DEF Turn
    <3>2. f[k].to = at(k) /\ f[k].faulty = FALSE
      BY <3>1
    <3> QED
      BY <2>2, <3>2 DEF Skips
  <2> QED
    BY <2>3, <2>4, <2>5
<1> HIDE DEF S
<1>13. from .. n \subseteq S
  BY <1>2, <1>12, CountingDown
<1>14. from \in S
  BY <1>2, <1>13
<1> QED
  BY <1>1, <1>14 DEF S

-----------------------------------------------------------------------------
(* The lexer: tokens and the loop of tokenize                              *)

\* Whatever token the character at a place begins, it is read as the reference has it.
LEMMA TokenIsRead ==
  ASSUME NEW s, IsList(s), NEW i \in 1 .. Len(s)
  PROVE  IsRead(s, i, LexToken(s, i))
<1> DEFINE found == LexToken(s, i)
<1>1. Len(s) \in Nat /\ i \in Nat
  BY ListFacts
<1>2. CASE s[i] \in Letters
  BY <1>2, NameIsRead DEF LexToken, Letters, Digits, Quotes, Singles
<1>3. CASE s[i] \in Digits
  BY <1>3, NumberIsRead DEF LexToken, Letters, Digits, Quotes, Singles
<1>4. CASE s[i] \in Quotes
  <2>1. found = LexString(s, i + 1, s[i])
    BY <1>4 DEF LexToken, Letters, Digits, Quotes, Singles
  <2> HIDE DEF found
  <2>2. /\ found.kind = "string" /\ found.to \in i + 1 .. Len(s) + 1 /\ found.faulty \in BOOLEAN
        /\ ~found.faulty => IsString(s, i, found.to)
    BY <1>4, <2>1, StringIsRead
  <2>3. ~found.faulty => IsToken(found.kind, s, i, found.to)
    BY <2>2, KindsAre
  <2> QED
    BY <2>2, <2>3 DEF IsRead, found
<1>5. CASE s[i] = "backquote"
  BY <1>5, TemplateIsRead DEF LexToken, Letters, Digits, Quotes, Singles
<1>6. CASE s[i] \in Singles
  BY <1>6, OperatorIsRead DEF LexToken, Letters, Digits, Quotes, Singles
<1>7. CASE s[i] \notin Letters \cup Digits \cup Quotes \cup Singles \cup {"backquote"}
  <2>1. found = Lexed("unexpected", i + 1, TRUE)
    BY <1>7 DEF LexToken
  <2>2. i + 1 \in i + 1 .. Len(s) + 1
    BY <1>1
  <2> QED
    BY <2>1, <2>2, ReadIs
<1> QED
  BY <1>2, <1>3, <1>4, <1>5, <1>6, <1>7

-----------------------------------------------------------------------------
\* Where the text between the tokens begins, and what each token is.
After(tokens, k) == IF k = 1 THEN 1 ELSE tokens[k - 1].to
Fits(s, tokens, k) ==
  LET t == tokens[k] IN
  /\ t.from < t.to /\ IsTrivia(s, After(tokens, k), t.from) /\ IsToken(t.kind, s, t.from, t.to)
  /\ t.to <= Len(s) /\ t.kind \in {"identifier", "number", "operator"} => ~IsToken(t.kind, s, t.from, t.to + 1)

\* The inductive invariant: until something is wrong the lexer stands behind
\* its last token, or at the end of a source that ends with trivia.
LexInv ==
  /\ lexer = [source |-> lexer.source, at |-> lexer.at, tokens |-> lexer.tokens, diagnostics |-> lexer.diagnostics]
  /\ lexer.source \in SourceTexts /\ IsList(lexer.tokens)
  /\ lexer.at \in 1 .. Len(lexer.source) + 1 /\ lexer.diagnostics \in Nat
  /\ lexer.diagnostics = 0 =>
       /\ \A k \in 1 .. Len(lexer.tokens) : Fits(lexer.source, lexer.tokens, k)
       /\ IF lexer.at <= Len(lexer.source) THEN lexer.at = After(lexer.tokens, Len(lexer.tokens) + 1)
          ELSE IsTrivia(lexer.source, After(lexer.tokens, Len(lexer.tokens) + 1), Len(lexer.source) + 1)

\* Adding a token leaves what was there, and the text goes on behind it.
LEMMA TokenAdded ==
  ASSUME NEW s, NEW tokens, IsList(tokens), NEW t
  PROVE  LET longer == Append(tokens, t)  n == Len(tokens) IN
         /\ IsList(longer) /\ Len(longer) = n + 1 /\ longer[n + 1] = t
         /\ After(longer, n + 1) = After(tokens, n + 1) /\ After(longer, n + 2) = t.to
         /\ \A k \in 1 .. n : Fits(s, longer, k) <=> Fits(s, tokens, k)
<1> DEFINE longer == Append(tokens, t)
           n == Len(tokens)
<1>1. n \in Nat
  BY ListFacts
<1>2. IsList(longer) /\ Len(longer) = n + 1 /\ longer[n + 1] = t /\ \A i \in 1 .. n : longer[i] = tokens[i]
  BY AppendList
<1> HIDE DEF longer, n
<1>3. \A k \in 1 .. n + 1 : After(longer, k) = After(tokens, k)
  BY <1>1, <1>2 DEF After
<1>4. After(longer, n + 2) = t.to
  BY <1>1, <1>2 DEF After
<1>5. \A k \in 1 .. n : Fits(s, longer, k) <=> Fits(s, tokens, k)
  <2> TAKE k \in 1 .. n
  <2>1. longer[k] = tokens[k] /\ After(longer, k) = After(tokens, k)
    BY <1>1, <1>2, <1>3
  <2> QED
    BY ONLY <2>1 DEF Fits
<1>6. After(longer, n + 1) = After(tokens, n + 1)
  BY <1>1, <1>3
<1> QED
  BY <1>2, <1>4, <1>5, <1>6 DEF longer, n

\* Nothing is read yet.
LEMMA LexInitially == LexerInit => LexInv
<1> SUFFICES ASSUME LexerInit PROVE LexInv
  OBVIOUS
<1>1. PICK source \in SourceTexts : lexer = [source |-> source, at |-> 1, tokens |-> <<>>, diagnostics |-> 0]
  BY DEF LexerInit
<1>2. lexer.source = source /\ lexer.at = 1 /\ lexer.tokens = <<>> /\ lexer.diagnostics = 0
  BY <1>1
<1>3. IsList(source)
  BY SourceAssumption DEF IsList
<1>4. Len(source) \in Nat /\ 1 \in 1 .. Len(source) + 1
  BY <1>3, ListFacts
<1>5. IsList(<<>>) /\ Len(<<>>) = 0
  BY EmptyList
<1>6. After(<<>>, 1) = 1
  BY DEF After
<1>7. ~(1 <= Len(source)) => IsTrivia(source, 1, Len(source) + 1)
  BY <1>4, NothingIsTrivia
<1>8. lexer = [source |-> lexer.source, at |-> lexer.at, tokens |-> lexer.tokens, diagnostics |-> lexer.diagnostics]
  BY <1>1
<1>9. \A k \in 1 .. 0 : Fits(source, <<>>, k)
  OBVIOUS
<1> QED
  BY <1>2, <1>4, <1>5, <1>6, <1>7, <1>8, <1>9 DEF LexInv

\* A count of diagnostics that stays zero had none to count.
LEMMA FaultsCount ==
  ASSUME NEW found, found.faulty \in BOOLEAN
  PROVE  Faults(found) \in Nat /\ (Faults(found) = 0 => ~found.faulty)
BY DEF Faults

\* A token read, or trivia to the end of the source.
LEMMA LexKept == LexInv /\ [LexerNext]_lexer => LexInv'
<1> SUFFICES ASSUME LexInv, [LexerNext]_lexer PROVE LexInv'
  OBVIOUS
<1>1. CASE UNCHANGED lexer
  BY <1>1 DEF LexInv, Fits, After
<1>2. CASE LexerNext
  <2> DEFINE s == lexer.source
             tokens == lexer.tokens
             n == Len(tokens)
             trivia == SkipTrivia(s, lexer.at)
             token == LexToken(s, trivia.to)
  <2>1. /\ lexer = [source |-> s, at |-> lexer.at, tokens |-> tokens, diagnostics |-> lexer.diagnostics]
        /\ s \in SourceTexts /\ IsList(tokens) /\ lexer.at \in 1 .. Len(s) + 1 /\ lexer.diagnostics \in Nat
    BY DEF LexInv
  <2>2. IsList(s)
    BY <2>1, SourceAssumption DEF IsList
  <2>3. Len(s) \in Nat /\ n \in Nat /\ lexer.at \in Nat /\ lexer.at <= Len(s)
    BY <1>2, <2>1, <2>2, ListFacts DEF LexerNext
  <2>4. lexer.diagnostics = 0 => lexer.at = After(tokens, n + 1) /\ \A k \in 1 .. n : Fits(s, tokens, k)
    BY <2>3 DEF LexInv
  <2>5. trivia.to \in lexer.at .. Len(s) + 1 /\ trivia.faulty \in BOOLEAN /\ (~trivia.faulty => IsTrivia(s, lexer.at, trivia.to))
    BY <2>1, <2>2, TriviaIsSkipped DEF Skips
  <2>6. NextToken(trivia) \/ EndOfSource(trivia)
    BY <1>2 DEF LexerNext
  <2> HIDE DEF trivia
  <2>7. trivia.to \in Nat /\ 1 <= trivia.to /\ Faults(trivia) \in Nat /\ (Faults(trivia) = 0 => ~trivia.faulty)
    BY <2>1, <2>3, <2>5, FaultsCount
  <2>8. CASE NextToken(trivia)
    <3> DEFINE t == [kind |-> token.kind, from |-> trivia.to, to |-> token.to]
               count == lexer.diagnostics + Faults(trivia) + Faults(token)
    <3>1. trivia.to <= Len(s) /\ lexer' = [lexer EXCEPT !.at = token.to, !.tokens = Append(@, t), !.diagnostics = @ + Faults(trivia) + Faults(token)]
      BY <2>8 DEF NextToken
    <3>2. IsRead(s, trivia.to, token)
      BY <2>2, <2>3, <2>7, <3>1, TokenIsRead
    <3> HIDE DEF token
    <3>3. /\ token.to \in trivia.to + 1 .. Len(s) + 1 /\ token.faulty \in BOOLEAN
          /\ ~token.faulty =>
               /\ IsToken(token.kind, s, trivia.to, token.to)
               /\ token.to <= Len(s) /\ token.kind \in {"identifier", "number", "operator"} => ~IsToken(token.kind, s, trivia.to, token.to + 1)
      BY <3>2 DEF IsRead
    <3>4. Faults(token) \in Nat /\ (Faults(token) = 0 => ~token.faulty)
      BY <3>3, FaultsCount
    <3>5. lexer' = [source |-> s, at |-> token.to, tokens |-> Append(tokens, t), diagnostics |-> count]
      BY <2>1, <3>1
    <3> HIDE DEF s, tokens
    <3>6. (lexer').source = s /\ (lexer').at = token.to /\ (lexer').tokens = Append(tokens, t) /\ (lexer').diagnostics = count
      BY <3>5
    <3>7. t.kind = token.kind /\ t.from = trivia.to /\ t.to = token.to
      OBVIOUS
    <3> HIDE DEF t
    <3>8. /\ IsList(Append(tokens, t)) /\ Len(Append(tokens, t)) = n + 1 /\ Append(tokens, t)[n + 1] = t
          /\ After(Append(tokens, t), n + 1) = After(tokens, n + 1) /\ After(Append(tokens, t), n + 2) = t.to
          /\ \A k \in 1 .. n : Fits(s, Append(tokens, t), k) <=> Fits(s, tokens, k)
      BY <2>1, TokenAdded
    <3> DEFINE longer == Append(tokens, t)
    <3> HIDE DEF longer, n
    <3>9. count \in Nat /\ (count = 0 => lexer.diagnostics = 0 /\ ~trivia.faulty /\ ~token.faulty)
      BY <2>1, <2>7, <3>4
    <3>10. token.to \in 1 .. Len(s) + 1 /\ token.to \in Nat /\ trivia.to < token.to /\ (token.to <= Len(s) \/ token.to = Len(s) + 1)
      BY <2>3, <2>7, <3>3
    <3>11. ASSUME count = 0 PROVE \A k \in 1 .. n + 1 : Fits(s, longer, k)
      BY <2>3, <2>4, <2>5, <3>3, <3>7, <3>8, <3>9, <3>10, <3>11 DEF longer, Fits
    <3>12. IF token.to <= Len(s) THEN token.to = After(longer, n + 2) ELSE IsTrivia(s, After(longer, n + 2), Len(s) + 1)
      BY <3>7, <3>8, <3>10, NothingIsTrivia DEF longer
    <3>13. IsList(longer) /\ Len(longer) = n + 1 /\ (n + 1) + 1 = n + 2
      BY <2>3, <3>8 DEF longer
    <3>14. (lexer').tokens = longer
      BY <3>6 DEF longer
    <3>15. lexer' = [source |-> (lexer').source, at |-> (lexer').at, tokens |-> (lexer').tokens, diagnostics |-> (lexer').diagnostics]
      BY <3>5
    <3> HIDE DEF count
    <3> QED
      BY <2>1, <3>6, <3>9, <3>10, <3>11, <3>12, <3>13, <3>14, <3>15 DEF LexInv
  <2>9. CASE EndOfSource(trivia)
    <3> DEFINE count == lexer.diagnostics + Faults(trivia)
    <3>1. trivia.to > Len(s) /\ lexer' = [lexer EXCEPT !.at = trivia.to, !.diagnostics = @ + Faults(trivia)]
      BY <2>9 DEF EndOfSource
    <3>2. lexer' = [source |-> s, at |-> trivia.to, tokens |-> tokens, diagnostics |-> count]
      BY <2>1, <3>1
    <3> HIDE DEF s, tokens
    <3>3. (lexer').source = s /\ (lexer').at = trivia.to /\ (lexer').tokens = tokens /\ (lexer').diagnostics = count
      BY <3>2
    <3>4. trivia.to = Len(s) + 1
      BY <2>3, <2>5, <3>1
    <3>5. count \in Nat /\ (count = 0 => lexer.diagnostics = 0 /\ ~trivia.faulty)
      BY <2>1, <2>7
    <3>6. count = 0 => /\ \A k \in 1 .. n : Fits(s, tokens, k)
                       /\ IsTrivia(s, After(tokens, n + 1), Len(s) + 1)
      BY <2>4, <2>5, <3>4, <3>5
    <3>7. trivia.to \in 1 .. Len(s) + 1 /\ ~(trivia.to <= Len(s))
      BY <2>3, <3>4
    <3>8. lexer' = [source |-> (lexer').source, at |-> (lexer').at, tokens |-> (lexer').tokens, diagnostics |-> (lexer').diagnostics]
      BY <3>2
    <3> HIDE DEF count
    <3> QED
      BY <2>1, <3>3, <3>5, <3>6, <3>7, <3>8 DEF LexInv
  <2> QED
    BY <2>6, <2>8, <2>9
<1> QED
  BY <1>1, <1>2

\* The invariant is enough.
LEMMA LexInvHolds == LexInv => TokensAreTheSource
<1> SUFFICES ASSUME LexInv, lexer.diagnostics = 0 PROVE TokensAreTheSource
  BY DEF TokensAreTheSource
<1> DEFINE s == lexer.source
           tokens == lexer.tokens
<1>1. IsList(tokens) /\ IsList(s) /\ \A k \in 1 .. Len(tokens) : Fits(s, tokens, k)
  BY SourceAssumption DEF LexInv, IsList
<1>2. lexer.at \in Int /\ Len(s) \in Nat
  BY <1>1, ListFacts DEF LexInv
<1>3. lexer.at > Len(s) => IsTrivia(s, After(tokens, Len(tokens) + 1), Len(s) + 1)
  BY <1>2 DEF LexInv
<1>4. DOMAIN tokens = 1 .. Len(tokens)
  BY <1>1, ListFacts
<1> QED
  BY <1>1, <1>3, <1>4 DEF TokensAreTheSource, Fits, After

\* As long as nothing was wrong the lexer stands behind its last token, and
\* every token so far is one, behind trivia (tokenize, lexer.rs).
THEOREM LexerInvariance == LexerSpec => []LexInv
<1>1. LexerInit => LexInv
  BY LexInitially
<1>2. LexInv /\ [LexerNext]_lexer => LexInv'
  BY LexKept
<1> QED
  BY <1>1, <1>2, PTL DEF LexerSpec

\* Of a source of any length read without a diagnostic, the tokens are the
\* source with only white space and comments between them, each is a text of
\* its kind, and no operator, number or name goes on where its token ends.
THEOREM TokensAreSource == LexerSpec => []TokensAreTheSource
<1>1. LexInv => TokensAreTheSource
  BY LexInvHolds
<1> QED
  BY <1>1, LexerInvariance, PTL

-----------------------------------------------------------------------------
(* The scripts of a page.                                                  *)

\* What is built by places is a list.
LEMMA ListBuilt ==
  ASSUME NEW n \in Nat, NEW f, f = [k \in 1 .. n |-> f[k]]
  PROVE  IsList(f) /\ Len(f) = n /\ DOMAIN f = 1 .. n
<1> DEFINE T == {f[k] : k \in 1 .. n}
<1>1. f \in [1 .. n -> T]
  OBVIOUS
<1>2. f \in Seq(T)
  BY <1>1, SeqDef
<1>3. Len(f) = n /\ DOMAIN f = 1 .. n
  BY <1>1, <1>2, LenProperties
<1> QED
  BY <1>2, <1>3 DEF IsList

\* A list of one item.
LEMMA OneList ==
  ASSUME NEW x
  PROVE  IsList(<<x>>) /\ Len(<<x>>) = 1 /\ <<x>>[1] = x
<1>1. <<x>> \in Seq({x})
  OBVIOUS
<1>2. Len(<<x>>) = 1 /\ <<x>>[1] = x
  OBVIOUS
<1> QED
  BY <1>1, <1>2 DEF IsList

\* A list is one of its items.
LEMMA ListOfItems ==
  ASSUME NEW s, IsList(s), NEW T, \A i \in 1 .. Len(s) : s[i] \in T
  PROVE  s \in Seq(T)
<1>1. PICK U : s \in Seq(U)
  BY DEF IsList
<1>2. s = [i \in 1 .. Len(s) |-> s[i]] /\ Len(s) \in Nat
  BY <1>1, LenProperties
<1>3. s \in [1 .. Len(s) -> T]
  BY <1>2
<1> QED
  BY <1>2, <1>3, SeqDef

\* Lists one after the other are a list of what they hold.
LEMMA FlattenList ==
  ASSUME NEW seqs, IsList(seqs), NEW T, \A i \in 1 .. Len(seqs) : seqs[i] \in Seq(T)
  PROVE  FlattenSeq(seqs) \in Seq(T) /\ IsList(FlattenSeq(seqs))
<1>1. seqs \in Seq(Seq(T))
  BY ListOfItems
<1> QED
  BY <1>1, FlattenHolds DEF IsList

\* Lists made one for each item, one after the other, are a list.
LEMMA FlattenIsList ==
  ASSUME NEW seqs, IsList(seqs), \A i \in 1 .. Len(seqs) : IsList(seqs[i])
  PROVE  IsList(FlattenSeq(seqs))
<1> DEFINE T == UNION {{seqs[i][j] : j \in 1 .. Len(seqs[i])} : i \in 1 .. Len(seqs)}
<1>1. ASSUME NEW i \in 1 .. Len(seqs) PROVE seqs[i] \in Seq(T)
  <2>1. IsList(seqs[i]) /\ \A j \in 1 .. Len(seqs[i]) : seqs[i][j] \in T
    OBVIOUS
  <2> HIDE DEF T
  <2> QED
    BY <2>1, ListOfItems
<1> HIDE DEF T
<1> QED
  BY <1>1, FlattenList

\* A list with an item replaced, if the place is one of its own.
LEMMA ReplacedList ==
  ASSUME NEW s, IsList(s), NEW k, NEW x
  PROVE  IsList([s EXCEPT ![k] = x]) /\ Len([s EXCEPT ![k] = x]) = Len(s)
<1> DEFINE t == [s EXCEPT ![k] = x]
<1>1. Len(s) \in Nat /\ DOMAIN s = 1 .. Len(s)
  BY ListFacts
<1>2. DOMAIN t = 1 .. Len(s) /\ t = [i \in DOMAIN s |-> t[i]]
  OBVIOUS
<1>3. t = [i \in 1 .. Len(s) |-> t[i]]
  BY <1>1, <1>2
<1> HIDE DEF t
<1>4. IsList(t) /\ Len(t) = Len(s)
  BY <1>1, <1>3, ListBuilt
<1> QED
  BY <1>4 DEF t

-----------------------------------------------------------------------------
(* Scans of a text                                                         *)

\* What a statement holds.
LEMMA StatementFields ==
  ASSUME NEW source \in Seq(Statement)
  PROVE  /\ IsList(source) /\ DOMAIN source = 1 .. Len(source) /\ Len(source) \in Nat
         /\ \A i \in 1 .. Len(source) : source[i] \in Statement /\ source[i].args \in Seq(STRING)
<1>1. \A i \in 1 .. Len(source) : source[i] \in Statement
  BY ElementOfSeq
<1>2. \A s \in Statement : s.args \in Seq(STRING)
  BY DEF Statement
<1> QED
  BY <1>1, <1>2, LenProperties DEF IsList

\* What is left of a text, or found in it, are statements.
LEMMA ScansAreLists ==
  ASSUME NEW source \in Seq(Statement)
  PROVE  /\ StripJsComments(source) \in Seq(Statement)
         /\ StripLineComments(source) \in Seq(Statement)
         /\ \A needle, form, least : Found(source, needle, form, least) \in Seq(Statement)
<1>1. /\ DOMAIN source = 1 .. Len(source) /\ Len(source) \in Nat
      /\ \A i \in 1 .. Len(source) : source[i] \in Statement
  BY StatementFields
<1>2. StripJsComments(source) \in Seq(Statement)
  <2> DEFINE S == {i \in DOMAIN source : ~source[i].commented}
  <2>1. S \in SUBSET (1 .. Len(source))
    BY <1>1
  <2> HIDE DEF S
  <2>2. Picked(source, S) \in Seq(Statement)
    BY <2>1, PickedFacts
  <2> QED
    BY <2>2 DEF StripJsComments, S
<1>3. ASSUME NEW needle, NEW form, NEW least
      PROVE  Found(source, needle, form, least) \in Seq(Statement)
  <2> DEFINE S == {i \in DOMAIN source : /\ source[i].form = form /\ IsSuffix(needle, source[i].name)
                                         /\ Len(source[i].args) >= least}
  <2>1. S \in SUBSET (1 .. Len(source))
    BY <1>1
  <2>2. Found(source, needle, form, least) = Picked(source, S)
    BY DEF Found
  <2> HIDE DEF S
  <2> QED
    BY <2>1, <2>2, PickedFacts
<1>4. StripLineComments(source) \in Seq(Statement)
  <2> DEFINE line(i) == IF source[i].cut THEN [source[i] EXCEPT !.form = "read", !.args = <<>>] ELSE source[i]
  <2>1. ASSUME NEW i \in 1 .. Len(source)
        PROVE  line(i) \in Statement
    <3> DEFINE s == source[i]
               none == <<>>
    <3>1. s \in Statement /\ none \in Seq(STRING)
      BY <1>1
    <3> HIDE DEF s, none
    <3>2. [s EXCEPT !.form = "read", !.args = none] \in Statement
      BY <3>1 DEF Statement
    <3> QED
      BY <3>1, <3>2 DEF s, none
  <2>2. StripLineComments(source) = [i \in 1 .. Len(source) |-> line(i)]
    BY <1>1 DEF StripLineComments
  <2> HIDE DEF line
  <2> QED
    BY <1>1, <2>1, <2>2
<1> QED
  BY <1>2, <1>3, <1>4

\* The first of each kind in a list is a list.
LEMMA DedupeIsList ==
  ASSUME NEW targets, IsList(targets)
  PROVE  IsList(DedupeTargets(targets)) /\ IsList(Distinct(targets))
<1>1. DOMAIN targets = 1 .. Len(targets)
  BY ListFacts
<1>2. IsList(DedupeTargets(targets))
  <2> DEFINE S == {i \in DOMAIN targets : \A j \in 1 .. i - 1 : targets[j].expression # targets[i].expression}
  <2>1. S \in SUBSET DOMAIN targets
    OBVIOUS
  <2> HIDE DEF S
  <2>2. IsList(Picked(targets, S))
    BY <2>1, PickedList
  <2> QED
    BY <2>2 DEF DedupeTargets, S
<1>3. IsList(Distinct(targets))
  <2> DEFINE S == {i \in DOMAIN targets : \A j \in 1 .. i - 1 : targets[j] # targets[i]}
  <2>1. S \in SUBSET DOMAIN targets
    OBVIOUS
  <2> HIDE DEF S
  <2>2. IsList(Picked(targets, S))
    BY <2>1, PickedList
  <2> QED
    BY <2>2 DEF Distinct, S
<1> QED
  BY <1>2, <1>3

-----------------------------------------------------------------------------
(* What a script is taken to do to the document                            *)

\* The calls on what a selector finds are a list.
LEMMA SelectorCallsAreList ==
  ASSUME NEW source \in Seq(Statement), NEW object, NEW method, NEW prefix
  PROVE  IsList(SelectorCalls(source, object, method, prefix))
<1> DEFINE rows == [i \in DOMAIN source |-> QueriedBy(source[i].name, object, method)]
           expressions == FlattenSeq(rows)
           calls == [i \in DOMAIN expressions |-> DomTarget(expressions[i], prefix \o Last(Last(expressions[i])))]
<1>1. Len(source) \in Nat /\ DOMAIN source = 1 .. Len(source)
  BY StatementFields
<1>2. \A i \in 1 .. Len(source) : IsList(rows[i])
  <2> TAKE i \in 1 .. Len(source)
  <2>1. rows[i] = QueriedBy(source[i].name, object, method)
    BY <1>1
  <2> HIDE DEF rows
  <2>2. \A name : IsList(QueriedBy(name, object, method))
    BY EmptyList, OneList DEF QueriedBy
  <2> QED
    BY <2>1, <2>2
<1>3. rows = [i \in 1 .. Len(source) |-> rows[i]]
  BY <1>1
<1> HIDE DEF rows
<1>4. IsList(rows) /\ Len(rows) = Len(source)
  BY <1>1, <1>3, ListBuilt
<1>5. IsList(expressions)
  BY <1>2, <1>4, FlattenIsList
<1> HIDE DEF expressions
<1>6. Len(expressions) \in Nat /\ DOMAIN expressions = 1 .. Len(expressions)
  BY <1>5, ListFacts
<1>7. calls = [i \in 1 .. Len(expressions) |-> calls[i]]
  BY <1>6
<1> HIDE DEF calls
<1>8. IsList(calls)
  BY <1>6, <1>7, ListBuilt
<1> QED
  BY <1>8 DEF SelectorCalls, rows, expressions, calls

\* A list of two items.
LEMMA TwoList ==
  ASSUME NEW x, NEW y
  PROVE  IsList(<<x, y>>)
<1>1. <<x, y>> \in Seq({x, y})
  OBVIOUS
<1> QED
  BY <1>1 DEF IsList

\* What effects may be asked of are lists.
LEMMA TargetsAreLists ==
  ASSUME NEW source \in Seq(Statement)
  PROVE  IsList(DomTargets(source)) /\ IsList(EventTargets(source))
<1> DEFINE bodies == <<DomTarget(Document \o Body, "body"), DomTarget(WindowDocument \o Body, "body")>>
           a == SelectorCalls(source, Document, "querySelector", "")
           b == SelectorCalls(source, WindowDocument, "querySelector", "")
           c == SelectorCalls(source, Document, "getElementById", "#")
           d == SelectorCalls(source, WindowDocument, "getElementById", "#")
           windows == <<DomTarget(Document, "document"), DomTarget(Path(<<"window">>), "window")>>
<1>1. IsList(bodies) /\ IsList(windows)
  BY TwoList
<1>2. IsList(a) /\ IsList(b) /\ IsList(c) /\ IsList(d)
  BY SelectorCallsAreList
<1>3. DomTargets(source) = DedupeTargets(bodies \o a \o b \o c \o d)
  BY DEF DomTargets
<1>4. EventTargets(source) = DedupeTargets(DomTargets(source) \o windows)
  BY DEF EventTargets
<1> HIDE DEF bodies, a, b, c, d, windows
<1>5. IsList(bodies \o a \o b \o c \o d)
  BY <1>1, <1>2, ConcatList
<1>6. IsList(DomTargets(source))
  BY <1>3, <1>5, DedupeIsList
<1>7. IsList(DomTargets(source) \o windows)
  BY <1>1, <1>6, ConcatList
<1> QED
  BY <1>4, <1>6, <1>7, DedupeIsList

\* The effects of one call are a list.
LEMMA EffectsOnAreList ==
  ASSUME NEW targets, IsList(targets), NEW source \in Seq(Statement), NEW kind, NEW names, NEW form, NEW least
  PROVE  IsList(EffectsOn(targets, source, kind, names, form, least))
<1> DEFINE found(t) == Found(source, targets[t].expression \o Path(names), form, least)
           row(t) == [i \in DOMAIN found(t) |-> DomEffect(kind, targets[t].selector, found(t)[i].args)]
           rows == [t \in DOMAIN targets |-> row(t)]
<1>1. Len(targets) \in Nat /\ DOMAIN targets = 1 .. Len(targets)
  BY ListFacts
<1>2. ASSUME NEW t \in 1 .. Len(targets) PROVE IsList(row(t))
  <2>1. found(t) \in Seq(Statement)
    BY ScansAreLists
  <2> HIDE DEF found
  <2>2. Len(found(t)) \in Nat /\ DOMAIN found(t) = 1 .. Len(found(t))
    BY <2>1, StatementFields
  <2> DEFINE r == row(t)
  <2>3. r = [i \in 1 .. Len(found(t)) |-> r[i]]
    BY <2>2
  <2> HIDE DEF r
  <2>4. IsList(r)
    BY <2>2, <2>3, ListBuilt
  <2> QED
    BY <2>4 DEF r
<1> HIDE DEF row
<1>3. rows = [t \in 1 .. Len(targets) |-> rows[t]] /\ \A t \in 1 .. Len(targets) : rows[t] = row(t)
  BY <1>1
<1> HIDE DEF rows
<1>4. IsList(rows) /\ Len(rows) = Len(targets)
  BY <1>1, <1>3, ListBuilt
<1>5. IsList(FlattenSeq(rows))
  BY <1>2, <1>3, <1>4, FlattenIsList
<1> QED
  BY <1>5 DEF EffectsOn, rows, row, found

\* The effects of calls, one after the other, are a list.
LEMMA EffectsOfCallsAreList ==
  ASSUME NEW calls, IsList(calls), NEW targets, IsList(targets), NEW source \in Seq(Statement)
  PROVE  IsList(FlattenSeq([i \in DOMAIN calls |-> EffectsOn(targets, source, calls[i][1], calls[i][2], calls[i][3], calls[i][4])]))
<1> DEFINE rows == [i \in DOMAIN calls |-> EffectsOn(targets, source, calls[i][1], calls[i][2], calls[i][3], calls[i][4])]
<1>1. Len(calls) \in Nat /\ DOMAIN calls = 1 .. Len(calls)
  BY ListFacts
<1>2. \A i \in 1 .. Len(calls) : IsList(rows[i])
  BY <1>1, EffectsOnAreList
<1>3. rows = [i \in 1 .. Len(calls) |-> rows[i]]
  BY <1>1
<1> HIDE DEF rows
<1>4. IsList(rows) /\ Len(rows) = Len(calls)
  BY <1>1, <1>3, ListBuilt
<1>5. IsList(FlattenSeq(rows))
  BY <1>2, <1>4, FlattenIsList
<1> QED
  BY <1>5 DEF rows

\* A list of seven items.
LEMMA SevenList ==
  ASSUME NEW a, NEW b, NEW c, NEW d, NEW e, NEW f, NEW g
  PROVE  IsList(<<a, b, c, d, e, f, g>>)
<1>1. <<a, b, c, d, e, f, g>> \in Seq({a, b, c, d, e, f, g})
  OBVIOUS
<1> QED
  BY <1>1 DEF IsList

\* The effects captured of a text are a list.
LEMMA CapturedAreList ==
  ASSUME NEW source \in Seq(Statement)
  PROVE  IsList(CaptureDomEffects(source))
<1> DEFINE of(calls, targets) ==
             FlattenSeq([i \in DOMAIN calls |-> EffectsOn(targets, source, calls[i][1], calls[i][2], calls[i][3], calls[i][4])])
           changes == << <<"SetText", <<"textContent">>, "assign", 1>>, <<"SetText", <<"innerText">>, "assign", 1>>,
        <<"SetHtml", <<"innerHTML">>, "assign", 1>>, <<"SetValue", <<"value">>, "assign", 1>>,
        <<"SetAttribute", <<"setAttribute">>, "call", 2>>,
        <<"AddClass", <<"classList", "add">>, "call", 1>>, <<"RemoveClass", <<"classList", "remove">>, "call", 1>> >>
           events == << <<"RegisterEventListener", <<"addEventListener">>, "call", 1>>,
              <<"DispatchEvent", <<"dispatchEvent">>, "call", 0>> >>
<1>1. IsList(changes) /\ IsList(events)
  BY SevenList, TwoList
<1>2. CaptureDomEffects(source) = of(changes, DomTargets(source)) \o of(events, EventTargets(source))
  BY DEF CaptureDomEffects
<1> HIDE DEF changes, events
<1>3. IsList(of(changes, DomTargets(source))) /\ IsList(of(events, EventTargets(source)))
  BY <1>1, TargetsAreLists, EffectsOfCallsAreList
<1> HIDE DEF of
<1> QED
  BY <1>2, <1>3, ConcatList

-----------------------------------------------------------------------------
\* The loops of a pass, each by what it does at a turn.
TakeTurn(state, turn) ==
  CASE turn.what = "push" -> PushEffect(state, turn.of)
    [] turn.what = "effect" -> ApplyDomEffect(state, turn.of).document
    [] turn.what = "script" -> AppliedAll(state, CaptureDomEffects(turn.of))
    [] turn.what = "precache" -> Precached(state, turn.scope, turn.cache, turn.of, turn.comes)
    [] turn.what = "worker" -> UNION {AppliedWorkerEffect(h, turn.of) : h \in state}

\* The states of such a loop, turn by turn.
TurnsTaken(first, turns, n, f) ==
  f = [i \in 0 .. n |-> IF i = 0 THEN first ELSE TakeTurn(f[i - 1], turns[i])]

\* Such a loop has a value at each turn.
LEMMA TurnsExist ==
  ASSUME NEW first, NEW turns, NEW n \in Nat
  PROVE  \E f : TurnsTaken(first, turns, n, f)
<1> DEFINE S == {k \in 0 .. n : \E f : TurnsTaken(first, turns, k, f)}
           start == 0
<1>1. start \in S
  <2> DEFINE none == [i \in 0 .. start |-> first]
  <2>1. TurnsTaken(first, turns, start, none)
    BY DEF TurnsTaken
  <2> QED
    BY <2>1
<1>2. ASSUME NEW k \in start .. n - 1, k \in S
      PROVE  k + 1 \in S
  <2>1. PICK f : TurnsTaken(first, turns, k, f)
    BY <1>2
  <2> DEFINE last == TakeTurn(f[k], turns[k + 1])
             more == [i \in 0 .. k + 1 |-> IF i = k + 1 THEN last ELSE f[i]]
  <2>2. \A i \in 0 .. k : f[i] = IF i = 0 THEN first ELSE TakeTurn(f[i - 1], turns[i])
    BY <2>1 DEF TurnsTaken
  <2>3. ASSUME NEW i \in 0 .. k + 1
        PROVE  more[i] = IF i = 0 THEN first ELSE TakeTurn(more[i - 1], turns[i])
    <3>1. CASE i = k + 1
      <4>1. more[i - 1] = f[k] /\ more[i] = last /\ i # 0
        BY <1>2, <3>1
      <4> HIDE DEF more
      <4> QED
        BY <3>1, <4>1
    <3>2. CASE i # k + 1
      <4>1. i \in 0 .. k /\ more[i] = f[i]
        BY <1>2, <3>2
      <4>2. i # 0 => more[i - 1] = f[i - 1]
        BY <1>2, <3>2
      <4> HIDE DEF more
      <4> QED
        BY <2>2, <4>1, <4>2
    <3> QED
      BY <3>1, <3>2
  <2>4. more = [i \in 0 .. k + 1 |-> more[i]]
    BY <1>2
  <2> HIDE DEF more
  <2>5. [i \in 0 .. k + 1 |-> more[i]] = [i \in 0 .. k + 1 |-> IF i = 0 THEN first ELSE TakeTurn(more[i - 1], turns[i])]
    BY <2>3
  <2>6. TurnsTaken(first, turns, k + 1, more)
    BY <2>4, <2>5 DEF TurnsTaken
  <2> QED
    BY <1>2, <2>6
<1>3. start \in Nat /\ n \in start .. n
  OBVIOUS
<1> HIDE DEF S, start
<1>4. start .. n \subseteq S
  BY <1>1, <1>2, <1>3, CountingUp
<1> HIDE DEF S
<1>5. n \in S
  BY <1>3, <1>4
<1> QED
  BY <1>5 DEF S

\* The page one effect after another.
LEMMA EffectsInTurn ==
  ASSUME NEW document, NEW effects, IsList(effects)
  PROVE  \E f : /\ f[0] = document /\ AppliedAll(document, effects) = f[Len(effects)]
                /\ \A i \in 1 .. Len(effects) : f[i] = ApplyDomEffect(f[i - 1], effects[i]).document
<1> DEFINE n == Len(effects)
           f == CHOOSE g : g = [i \in 0 .. n |-> IF i = 0 THEN document ELSE ApplyDomEffect(g[i - 1], effects[i]).document]
           turns == [k \in 1 .. n |-> [what |-> "effect", of |-> effects[k]]]
<1>1. AppliedAll(document, effects) = f[n] /\ n \in Nat
  BY ListFacts DEF AppliedAll
<1>2. PICK g : TurnsTaken(document, turns, n, g)
  BY <1>1, TurnsExist
<1>3. \A k \in 1 .. n : \A s : TakeTurn(s, turns[k]) = ApplyDomEffect(s, effects[k]).document
  BY DEF TakeTurn
<1>4. \A k \in 0 .. n : k # 0 => k \in 1 .. n
  BY <1>1
<1> HIDE DEF turns, f
<1>5. g = [i \in 0 .. n |-> IF i = 0 THEN document ELSE ApplyDomEffect(g[i - 1], effects[i]).document]
  BY <1>2, <1>3, <1>4 DEF TurnsTaken
<1>6. f = [i \in 0 .. n |-> IF i = 0 THEN document ELSE ApplyDomEffect(f[i - 1], effects[i]).document]
  BY <1>5 DEF f
<1>7. f[0] = document /\ \A i \in 1 .. n : f[i] = ApplyDomEffect(f[i - 1], effects[i]).document
  BY <1>1, <1>6
<1> QED
  BY <1>1, <1>7

\* The page one script after another.
LEMMA ScriptsInTurn ==
  ASSUME NEW document, NEW sources, IsList(sources)
  PROVE  \E f : /\ f[0] = document /\ AppliedInOrder(document, sources) = f[Len(sources)]
                /\ \A i \in 1 .. Len(sources) : f[i] = AppliedAll(f[i - 1], CaptureDomEffects(sources[i]))
<1> DEFINE n == Len(sources)
           f == CHOOSE g : g = [i \in 0 .. n |-> IF i = 0 THEN document ELSE AppliedAll(g[i - 1], CaptureDomEffects(sources[i]))]
           turns == [k \in 1 .. n |-> [what |-> "script", of |-> sources[k]]]
<1>1. AppliedInOrder(document, sources) = f[n] /\ n \in Nat
  BY ListFacts DEF AppliedInOrder
<1>2. PICK g : TurnsTaken(document, turns, n, g)
  BY <1>1, TurnsExist
<1>3. \A k \in 1 .. n : \A s : TakeTurn(s, turns[k]) = AppliedAll(s, CaptureDomEffects(sources[k]))
  BY DEF TakeTurn
<1>4. \A k \in 0 .. n : k # 0 => k \in 1 .. n
  BY <1>1
<1> HIDE DEF turns, f
<1>5. g = [i \in 0 .. n |-> IF i = 0 THEN document ELSE AppliedAll(g[i - 1], CaptureDomEffects(sources[i]))]
  BY <1>2, <1>3, <1>4 DEF TurnsTaken
<1>6. f = [i \in 0 .. n |-> IF i = 0 THEN document ELSE AppliedAll(f[i - 1], CaptureDomEffects(sources[i]))]
  BY <1>5 DEF f
<1>7. f[0] = document /\ \A i \in 1 .. n : f[i] = AppliedAll(f[i - 1], CaptureDomEffects(sources[i]))
  BY <1>1, <1>6
<1> QED
  BY <1>1, <1>7

\* One script more: its effects come after those of the ones before.
LEMMA OneScriptMore ==
  ASSUME NEW document, NEW sources, IsList(sources), NEW source
  PROVE  /\ AppliedInOrder(document, Append(sources, source))
              = AppliedAll(AppliedInOrder(document, sources), CaptureDomEffects(source))
<1> DEFINE n == Len(sources)
           more == Append(sources, source)
<1>1. PICK f : /\ f[0] = document /\ AppliedInOrder(document, sources) = f[n]
               /\ \A i \in 1 .. n : f[i] = AppliedAll(f[i - 1], CaptureDomEffects(sources[i]))
  <2>1. \E f : /\ f[0] = document /\ AppliedInOrder(document, sources) = f[Len(sources)]
                /\ \A i \in 1 .. Len(sources) : f[i] = AppliedAll(f[i - 1], CaptureDomEffects(sources[i]))
    BY ScriptsInTurn, SMTT(60)
  <2> QED
    BY <2>1
<1>2. /\ IsList(more) /\ Len(more) = n + 1 /\ more[n + 1] = source
      /\ \A i \in 1 .. n : more[i] = sources[i]
  BY AppendList
<1>3. n \in Nat
  BY ListFacts
<1> HIDE DEF more
<1>4. PICK g : /\ g[0] = document /\ AppliedInOrder(document, more) = g[n + 1]
               /\ \A i \in 1 .. n + 1 : g[i] = AppliedAll(g[i - 1], CaptureDomEffects(more[i]))
  <2>1. \E g : /\ g[0] = document /\ AppliedInOrder(document, more) = g[Len(more)]
               /\ \A i \in 1 .. Len(more) : g[i] = AppliedAll(g[i - 1], CaptureDomEffects(more[i]))
    <3>1. IsList(more)
      BY <1>2
    <3> QED
      BY <3>1, ScriptsInTurn
  <2> HIDE DEF n
  <2> QED
    BY <1>2, <2>1
<1> HIDE DEF n
<1> DEFINE S == {k \in 0 .. n : g[k] = f[k]}
           start == 0
<1>5. start \in S
  BY <1>1, <1>3, <1>4
<1>6. ASSUME NEW k \in start .. n - 1, k \in S
      PROVE  k + 1 \in S
  BY <1>1, <1>2, <1>3, <1>4, <1>6
<1>7. start \in Nat /\ n \in start .. n
  BY <1>3
<1> HIDE DEF S, start
<1>8. start .. n \subseteq S
  BY <1>3, <1>5, <1>6, <1>7, CountingUp
<1>9. g[n] = f[n]
  BY <1>7, <1>8 DEF S
<1>10. n + 1 \in 1 .. n + 1 /\ (n + 1) - 1 = n
  BY <1>3
<1>11. g[n + 1] = AppliedAll(g[n], CaptureDomEffects(more[n + 1]))
  BY <1>4, <1>10
<1> QED
  BY <1>1, <1>2, <1>4, <1>9, <1>11 DEF more

-----------------------------------------------------------------------------
(* What an effect leaves of a document.                                    *)
IsDocument(document) ==
  /\ document = [title |-> document.title, blocks |-> document.blocks,
                 elements |-> document.elements, styled |-> document.styled]
  /\ IsList(document.blocks) /\ IsList(document.elements)
  /\ Len(document.blocks) = Len(document.elements) /\ document.styled = document.elements

\* A document but for its styles, which were computed before it changed.
IsChanged(document) ==
  /\ document = [title |-> document.title, blocks |-> document.blocks,
                 elements |-> document.elements, styled |-> document.styled]
  /\ IsList(document.blocks) /\ IsList(document.elements)
  /\ Len(document.blocks) = Len(document.elements)

\* A list with one of its items changed.
LEMMA ItemChanged ==
  ASSUME NEW document, IsChanged(document), NEW at, NEW block, NEW element
  PROVE  /\ IsChanged([document EXCEPT !.blocks[at] = block])
         /\ IsChanged([document EXCEPT !.elements[at] = element])
         /\ IsChanged([document EXCEPT !.blocks[at] = block, !.elements[at] = element])
<1> DEFINE blocks == [document.blocks EXCEPT ![at] = block]
           elements == [document.elements EXCEPT ![at] = element]
<1>1. IsList(document.blocks) /\ IsList(document.elements) /\ Len(document.blocks) = Len(document.elements)
  BY DEF IsChanged
<1>2. IsList(blocks) /\ Len(blocks) = Len(document.blocks)
  BY <1>1, ReplacedList
<1>3. IsList(elements) /\ Len(elements) = Len(document.elements)
  BY <1>1, ReplacedList
<1>4. /\ [document EXCEPT !.blocks[at] = block] = [document EXCEPT !.blocks = blocks]
      /\ [document EXCEPT !.elements[at] = element] = [document EXCEPT !.elements = elements]
      /\ [document EXCEPT !.blocks[at] = block, !.elements[at] = element]
           = [document EXCEPT !.blocks = blocks, !.elements = elements]
  BY DEF IsChanged
<1> HIDE DEF blocks, elements
<1>5. ASSUME NEW b, NEW e, IsList(b), IsList(e), Len(b) = Len(e)
      PROVE  IsChanged([title |-> document.title, blocks |-> b, elements |-> e, styled |-> document.styled])
  BY <1>5 DEF IsChanged
<1>6. /\ [document EXCEPT !.blocks = blocks]
           = [title |-> document.title, blocks |-> blocks, elements |-> document.elements, styled |-> document.styled]
      /\ [document EXCEPT !.elements = elements]
           = [title |-> document.title, blocks |-> document.blocks, elements |-> elements, styled |-> document.styled]
      /\ [document EXCEPT !.blocks = blocks, !.elements = elements]
           = [title |-> document.title, blocks |-> blocks, elements |-> elements, styled |-> document.styled]
  <2>1. ASSUME NEW t, NEW b, NEW e, NEW s, document = [title |-> t, blocks |-> b, elements |-> e, styled |-> s]
        PROVE  /\ [document EXCEPT !.blocks = blocks] = [title |-> t, blocks |-> blocks, elements |-> e, styled |-> s]
               /\ [document EXCEPT !.elements = elements] = [title |-> t, blocks |-> b, elements |-> elements, styled |-> s]
               /\ [document EXCEPT !.blocks = blocks, !.elements = elements]
                    = [title |-> t, blocks |-> blocks, elements |-> elements, styled |-> s]
    <3>1. [document EXCEPT !.blocks = blocks] = [title |-> t, blocks |-> blocks, elements |-> e, styled |-> s]
      BY <2>1
    <3>2. [document EXCEPT !.elements = elements] = [title |-> t, blocks |-> b, elements |-> elements, styled |-> s]
      BY <2>1
    <3>3. [document EXCEPT !.blocks = blocks, !.elements = elements]
            = [title |-> t, blocks |-> blocks, elements |-> elements, styled |-> s]
      <4>1. [document EXCEPT !.blocks = blocks, !.elements = elements]
              = [[document EXCEPT !.blocks = blocks] EXCEPT !.elements = elements]
        OBVIOUS
      <4>2. [[title |-> t, blocks |-> blocks, elements |-> e, styled |-> s] EXCEPT !.elements = elements]
              = [title |-> t, blocks |-> blocks, elements |-> elements, styled |-> s]
        OBVIOUS
      <4> QED
        BY <3>1, <4>1, <4>2
    <3> QED
      BY <3>1, <3>2, <3>3
  <2> QED
    BY <2>1 DEF IsChanged
<1> QED
  BY <1>1, <1>2, <1>3, <1>4, <1>5, <1>6

\* What comes of a call: the document as it was, or one that is changed.
IsOutcome(done, document) ==
  \/ done = [document |-> document, changed |-> FALSE]
  \/ done.changed /\ IsChanged(done.document)
     /\ done = [document |-> done.document, changed |-> done.changed]

\* An outcome leaves a document.
LEMMA OutcomesAre ==
  ASSUME NEW document, IsChanged(document)
  PROVE  /\ IsOutcome(Ignored(document), document)
         /\ \A other : IsChanged(document) => IsOutcome(Applied(document), other)
BY DEF Ignored, Applied, IsOutcome

\* What applying a change comes to.
LEMMA AppliedIs ==
  ASSUME NEW document, NEW other, IsChanged(other)
  PROVE  IsOutcome(Applied(other), document)
BY DEF Applied, IsOutcome

\* Replacing the body leaves each block with its element.
LEMMA BodyReplaced ==
  ASSUME NEW document, IsChanged(document), NEW text
  PROVE  IsChanged(ReplaceBody(document, text))
<1> DEFINE blocks == <<RenderBlock("Paragraph", "p", text)>>
           elements == <<Signature("p")>>
<1>1. IsList(blocks) /\ Len(blocks) = 1 /\ IsList(elements) /\ Len(elements) = 1
  BY OneList
<1>2. ReplaceBody(document, text) = [document EXCEPT !.blocks = blocks, !.elements = elements]
  BY DEF ReplaceBody
<1> HIDE DEF blocks, elements
<1> DEFINE some == [document EXCEPT !.blocks = blocks]
<1>3. [document EXCEPT !.blocks = blocks, !.elements = elements] = [some EXCEPT !.elements = elements]
  OBVIOUS
<1>4. some = [title |-> document.title, blocks |-> blocks, elements |-> document.elements, styled |-> document.styled]
  BY DEF IsChanged
<1> HIDE DEF some
<1>5. [some EXCEPT !.elements = elements]
        = [title |-> document.title, blocks |-> blocks, elements |-> elements, styled |-> document.styled]
  BY <1>4
<1> QED
  BY <1>1, <1>2, <1>3, <1>5 DEF IsChanged

\* So does setting a text.
LEMMA TextSet ==
  ASSUME NEW document, IsChanged(document), NEW selector, NEW value
  PROVE  IsOutcome(SetText(document, selector, value), document)
<1> DEFINE text == TextFromHtmlish(value)
           at == FirstMatchingBlock(document, selector)
           set == [document EXCEPT !.blocks[at] = SetBlockText(document.blocks[at], text)]
<1>1. IsChanged(ReplaceBody(document, text)) /\ IsChanged(set)
  <2> HIDE DEF text, at
  <2> QED
    BY BodyReplaced, ItemChanged
<1>2. \/ SetText(document, selector, value) = Applied(ReplaceBody(document, text))
      \/ SetText(document, selector, value) = Ignored(document)
      \/ SetText(document, selector, value) = Applied(set)
  <2> HIDE DEF text, at
  <2>1. CASE selector \in {"body", "document"}
    BY <2>1 DEF SetText, text, at
  <2>2. CASE selector \notin {"body", "document"}
    BY <2>2 DEF SetText, text, at
  <2> QED
    BY <2>1, <2>2
<1> HIDE DEF text, set
<1> QED
  BY <1>1, <1>2, OutcomesAre, AppliedIs

\* So does setting an attribute.
LEMMA AttributeSet ==
  ASSUME NEW document, IsChanged(document), NEW selector, NEW name, NEW value
  PROVE  IsOutcome(SetAttribute(document, selector, name, value), document)
<1> DEFINE at == FirstMatchingBlock(document, selector)
           described(block) ==
             CASE block.kind \in DOMAIN LinkOf /\ name \in LinkOf[block.kind] -> [block EXCEPT !.link = value]
               [] block.kind = "Image" /\ name = "alt" -> [block EXCEPT !.text = <<TextLiterals[value]>>]
               [] OTHER -> block
           signed(element) ==
             CASE name = "id" -> [element EXCEPT !.id = value]
               [] name = "class" -> [element EXCEPT !.classes = <<value>>]
               [] OTHER -> element
           set == [document EXCEPT !.blocks[at] = described(document.blocks[at]), !.elements[at] = signed(document.elements[at])]
<1>1. \/ SetAttribute(document, selector, name, value) = Ignored(document)
      \/ SetAttribute(document, selector, name, value) = Applied(set)
  BY DEF SetAttribute
<1> HIDE DEF described, signed
<1>2. IsChanged(set)
  <2> HIDE DEF at
  <2> QED
    BY ItemChanged
<1> HIDE DEF set
<1> QED
  BY <1>1, <1>2, OutcomesAre, AppliedIs

\* So does setting a value.
LEMMA ValueSet ==
  ASSUME NEW document, IsChanged(document), NEW selector, NEW value
  PROVE  IsOutcome(SetValue(document, selector, value), document)
<1> DEFINE asked == SelectorLiterals[selector]
           answers(control) == asked.name \in {"", control.name} /\ asked.control \in {"", "input", "textarea", "button", "select"}
           at == SelectInSeq(document.blocks, LAMBDA b : \E i \in DOMAIN b.controls : answers(b.controls[i]))
           control == SelectInSeq(document.blocks[at].controls, answers)
           text == <<TextLiterals[value]>>
           set == [document EXCEPT !.blocks[at].controls[control].value = text]
<1>1. \/ SetValue(document, selector, value) = Ignored(document)
      \/ SetValue(document, selector, value) = Applied(set)
  BY DEF SetValue
<1> HIDE DEF at, control, text
<1>2. set = [document EXCEPT !.blocks[at] = [document.blocks[at] EXCEPT !.controls[control].value = text]]
  OBVIOUS
<1>3. IsChanged(set)
  BY <1>2, ItemChanged
<1> HIDE DEF set
<1> QED
  BY <1>1, <1>3, OutcomesAre, AppliedIs

\* So does changing classes.
LEMMA ClassesSet ==
  ASSUME NEW document, IsChanged(document), NEW selector, NEW class
  PROVE  /\ IsOutcome(AddClass(document, selector, class), document)
         /\ IsOutcome(RemoveClass(document, selector, class), document)
<1> DEFINE at == FirstMatchingBlock(document, selector)
           classes == document.elements[at].classes
           kept == SelectSeq(classes, LAMBDA c : c /= class)
           with(list) == [document EXCEPT !.elements[at].classes = list]
<1>1. \/ AddClass(document, selector, class) = Ignored(document)
      \/ AddClass(document, selector, class) = Applied(document)
      \/ AddClass(document, selector, class) = Applied(with(Append(classes, class)))
  BY DEF AddClass
<1>2. \/ RemoveClass(document, selector, class) = Ignored(document)
      \/ RemoveClass(document, selector, class) = Applied(with(kept))
  BY DEF RemoveClass
<1> HIDE DEF at
<1>3. \A list : IsChanged(with(list))
  <2> TAKE list
  <2> DEFINE element == [document.elements[at] EXCEPT !.classes = list]
             changed == [document EXCEPT !.elements[at] = element]
  <2>1. with(list) = changed
    OBVIOUS
  <2> HIDE DEF element
  <2>2. IsChanged(changed)
    BY ItemChanged
  <2> HIDE DEF with, changed
  <2> QED
    BY <2>1, <2>2
<1> HIDE DEF with, kept, classes
<1> QED
  BY <1>1, <1>2, <1>3, OutcomesAre, AppliedIs

\* An effect leaves a document with an element for each of its blocks and
\* its styles computed; one it leaves alone it leaves as it was.
LEMMA EffectKeepsDocument ==
  ASSUME NEW document, IsDocument(document), NEW effect
  PROVE  /\ IsDocument(ApplyDomEffect(document, effect).document)
         /\ effect.kind \in {"RegisterEventListener", "DispatchEvent"} =>
              ApplyDomEffect(document, effect).document = document
<1> DEFINE a == effect.args
           done == CASE effect.kind \in {"SetText", "SetHtml"} -> SetText(document, effect.selector, a[1])
                     [] effect.kind = "SetAttribute" -> SetAttribute(document, effect.selector, a[1], a[2])
                     [] effect.kind = "SetValue" -> SetValue(document, effect.selector, a[1])
                     [] effect.kind = "AddClass" -> AddClass(document, effect.selector, a[1])
                     [] effect.kind = "RemoveClass" -> RemoveClass(document, effect.selector, a[1])
                     [] OTHER -> Applied(document)
<1>1. ApplyDomEffect(document, effect) = IF done.changed THEN [done EXCEPT !.document = RecomputeStyleTree(done.document)] ELSE done
  BY DEF ApplyDomEffect
<1>2. IsChanged(document)
  BY DEF IsDocument, IsChanged
<1>3. IsOutcome(done, document)
  <2>1. CASE effect.kind \in {"SetText", "SetHtml"}
    BY <1>2, <2>1, TextSet
  <2>2. CASE effect.kind = "SetAttribute"
    BY <1>2, <2>2, AttributeSet
  <2>3. CASE effect.kind = "SetValue"
    BY <1>2, <2>3, ValueSet
  <2>4. CASE effect.kind = "AddClass"
    BY <1>2, <2>4, ClassesSet
  <2>5. CASE effect.kind = "RemoveClass"
    BY <1>2, <2>5, ClassesSet
  <2>6. CASE effect.kind \notin {"SetText", "SetHtml", "SetAttribute", "SetValue", "AddClass", "RemoveClass"}
    BY <1>2, <2>6, AppliedIs
  <2> QED
    BY <2>1, <2>2, <2>3, <2>4, <2>5, <2>6
<1>4. effect.kind \in {"RegisterEventListener", "DispatchEvent"} => done = [document |-> document, changed |-> TRUE]
  BY DEF Applied
<1> HIDE DEF done
<1>5. \A d : IsChanged(d) =>
        /\ IsDocument(RecomputeStyleTree(d))
        /\ IsDocument(d) => RecomputeStyleTree(d) = d
  <2> SUFFICES ASSUME NEW t, NEW b, NEW e, NEW s, NEW d, d = [title |-> t, blocks |-> b, elements |-> e, styled |-> s], IsChanged(d)
               PROVE  /\ IsDocument(RecomputeStyleTree(d))
                      /\ IsDocument(d) => RecomputeStyleTree(d) = d
    BY DEF IsChanged
  <2>1. d.elements = e /\ d.blocks = b /\ d.styled = s
    OBVIOUS
  <2>2. [d EXCEPT !.styled = e] = [title |-> t, blocks |-> b, elements |-> e, styled |-> e]
    OBVIOUS
  <2>3. RecomputeStyleTree(d) = [title |-> t, blocks |-> b, elements |-> e, styled |-> e]
    BY <2>1, <2>2 DEF RecomputeStyleTree
  <2>4. IsDocument([title |-> t, blocks |-> b, elements |-> e, styled |-> e])
    BY <2>1 DEF IsDocument, IsChanged
  <2>5. IsDocument(d) => s = e
    BY <2>1 DEF IsDocument
  <2> QED
    BY <2>3, <2>4, <2>5
<1>6. CASE done = [document |-> document, changed |-> FALSE]
  BY <1>1, <1>6
<1>7. CASE done.changed /\ IsChanged(done.document) /\ done = [document |-> done.document, changed |-> done.changed]
  BY <1>1, <1>2, <1>4, <1>5, <1>7
<1> QED
  BY <1>3, <1>6, <1>7 DEF IsOutcome

\* So do the effects of a script.
LEMMA EffectsKeepDocument ==
  ASSUME NEW document, IsDocument(document), NEW effects, IsList(effects)
  PROVE  IsDocument(AppliedAll(document, effects))
<1> DEFINE n == Len(effects)
<1>1. n \in Nat
  BY ListFacts
<1>2. PICK f : /\ f[0] = document /\ AppliedAll(document, effects) = f[n]
               /\ \A i \in 1 .. n : f[i] = ApplyDomEffect(f[i - 1], effects[i]).document
  BY EffectsInTurn
<1> HIDE DEF n
<1> DEFINE S == {k \in 0 .. n : IsDocument(f[k])}
           start == 0
<1>3. start \in S /\ start \in Nat /\ n \in start .. n
  BY <1>1, <1>2
<1>4. ASSUME NEW k \in start .. n - 1, k \in S PROVE k + 1 \in S
  BY <1>1, <1>2, <1>4, EffectKeepsDocument
<1> HIDE DEF S, start
<1>5. start .. n \subseteq S
  BY <1>1, <1>3, <1>4, CountingUp
<1>6. n \in S
  BY <1>3, <1>5
<1> QED
  BY <1>2, <1>6 DEF S

-----------------------------------------------------------------------------
(* The service workers of a page.                                          *)
IsHost(h) ==
  /\ h = [registrations |-> h.registrations, caches |-> h.caches, counts |-> h.counts]
  /\ h.counts \in [Counters -> Nat] /\ IsFiniteSet(DOMAIN h.registrations)

\* While no cache was deleted, each registration has its own.
CachesAreThere(h) ==
  h.counts["deletes"] = 0 =>
    \A scope \in DOMAIN h.registrations : SanitizeCacheName(h.registrations[scope].cache) \in DOMAIN h.caches

\* What is asked of the hosts of workers, of one of them.
HostIsSound(h) ==
  /\ IsHost(h) /\ CachesAreThere(h)
  /\ h.counts["registrations"] + h.counts["updates"] + h.counts["scriptFailures"] = h.counts["scriptFetches"]
  /\ h.counts["registrations"] = Cardinality(DOMAIN h.registrations)
  /\ h.counts["hits"] + h.counts["misses"] <= h.counts["matches"]

\* The counts that are related to something else.
Related == {"registrations", "updates", "scriptFetches", "scriptFailures", "deletes", "matches", "hits", "misses"}

\* A host with caches more and registrations the same.
Grows(h, k) ==
  /\ IsHost(k) /\ k.registrations = h.registrations /\ DOMAIN h.caches \subseteq DOMAIN k.caches
  /\ \A c \in Related : k.counts[c] = h.counts[c]

\* A host that grew out of a sound one is sound.
LEMMA GrownIsSound ==
  ASSUME NEW h, HostIsSound(h), NEW k, Grows(h, k)
  PROVE  HostIsSound(k)
BY DEF HostIsSound, Grows, CachesAreThere, Related

\* What grew out of what grew.
LEMMA GrowsOn ==
  ASSUME NEW h, NEW k, NEW l, Grows(h, k), Grows(k, l)
  PROVE  Grows(h, l)
BY DEF Grows

\* A host is grown out of itself.
LEMMA HostGrows ==
  ASSUME NEW h, IsHost(h)
  PROVE  Grows(h, h)
BY DEF Grows

\* Counting a call on a host.
LEMMA CountedHost ==
  ASSUME NEW h, IsHost(h), NEW c \in Counters
  PROVE  /\ IsHost(Count(h, c)) /\ Count(h, c).registrations = h.registrations /\ Count(h, c).caches = h.caches
         /\ \A d \in Counters : Count(h, c).counts[d] = IF d = c THEN h.counts[d] + 1 ELSE h.counts[d]
         /\ c \notin Related => Grows(h, Count(h, c))
<1> DEFINE counts == [h.counts EXCEPT ![c] = h.counts[c] + 1]
<1>1. Count(h, c) = [h EXCEPT !.counts = counts]
  BY DEF Count
<1>2. h.counts \in [Counters -> Nat] /\ IsFiniteSet(DOMAIN h.registrations)
  BY DEF IsHost
<1>3. counts \in [Counters -> Nat] /\ \A d \in Counters : counts[d] = IF d = c THEN h.counts[d] + 1 ELSE h.counts[d]
  BY <1>2
<1> HIDE DEF counts
<1>4. [h EXCEPT !.counts = counts] = [registrations |-> h.registrations, caches |-> h.caches, counts |-> counts]
  BY DEF IsHost
<1>5. /\ IsHost(Count(h, c)) /\ Count(h, c).registrations = h.registrations /\ Count(h, c).caches = h.caches
      /\ Count(h, c).counts = counts
  BY <1>1, <1>2, <1>3, <1>4 DEF IsHost
<1>6. c \notin Related => \A d \in Related : counts[d] = h.counts[d]
  BY <1>3 DEF Related, Counters
<1> QED
  BY <1>3, <1>5, <1>6 DEF Grows

\* Opening a cache of a host.
LEMMA OpenedHost ==
  ASSUME NEW h, IsHost(h), NEW name
  PROVE  Grows(h, OpenCache(h, name)) /\ SanitizeCacheName(name) \in DOMAIN OpenCache(h, name).caches
<1> DEFINE cache == SanitizeCacheName(name)
           caches == Insert(h.caches, cache, [u \in {} |-> ""])
<1>1. OpenCache(h, name) = IF cache \in DOMAIN h.caches THEN h ELSE [h EXCEPT !.caches = caches]
  BY DEF OpenCache
<1>2. DOMAIN caches = DOMAIN h.caches \cup {cache}
  BY DEF Insert
<1> HIDE DEF caches
<1>3. [h EXCEPT !.caches = caches] = [registrations |-> h.registrations, caches |-> caches, counts |-> h.counts]
  BY DEF IsHost
<1> HIDE DEF cache
<1>4. CASE cache \in DOMAIN h.caches
  BY <1>1, <1>4, HostGrows DEF cache
<1>5. CASE cache \notin DOMAIN h.caches
  BY <1>1, <1>2, <1>3, <1>5 DEF Grows, IsHost, cache
<1> QED
  BY <1>4, <1>5

\* Putting a response in a cache of a host.
LEMMA PutHost ==
  ASSUME NEW h, IsHost(h), NEW name, NEW url, NEW body
  PROVE  Grows(h, PutResponse(h, name, url, body))
<1> DEFINE k == OpenCache(h, name)
           caches == [k.caches EXCEPT ![SanitizeCacheName(name)] = Insert(k.caches[SanitizeCacheName(name)], url, body)]
<1>1. Grows(h, k)
  BY OpenedHost
<1> HIDE DEF k
<1>2. PutResponse(h, name, url, body) = [k EXCEPT !.caches = caches]
  BY DEF PutResponse, k
<1>3. DOMAIN caches = DOMAIN k.caches
  OBVIOUS
<1> HIDE DEF caches
<1>4. [k EXCEPT !.caches = caches] = [registrations |-> k.registrations, caches |-> caches, counts |-> k.counts]
  BY <1>1 DEF IsHost, Grows
<1>5. Grows(k, [k EXCEPT !.caches = caches])
  BY <1>1, <1>3, <1>4 DEF Grows, IsHost
<1> QED
  BY <1>1, <1>2, <1>5, GrowsOn

\* A resource of a worker that came or failed.
LEMMA PrecachedHost ==
  ASSUME NEW h, IsHost(h), NEW scope, NEW cache, NEW literal, NEW comes
  PROVE  Grows(h, Precached(h, scope, cache, literal, comes))
<1> DEFINE put == PutResponse(h, cache, Join(scope, literal), "fetched")
           came == "precached"
           failed == "precacheFailures"
<1>1. came \in Counters \ Related /\ failed \in Counters \ Related
  BY DEF Counters, Related
<1>2. Grows(h, put)
  BY PutHost
<1>3. \/ Precached(h, scope, cache, literal, comes) = Count(put, came)
      \/ Precached(h, scope, cache, literal, comes) = Count(h, failed)
  BY DEF Precached
<1> HIDE DEF put, came, failed
<1>4. Grows(put, Count(put, came)) /\ Grows(h, Count(h, failed))
  BY <1>1, <1>2, CountedHost DEF Grows
<1> QED
  BY <1>2, <1>3, <1>4, GrowsOn

\* The smaller of two numbers.
LEMMA MinOfTwo ==
  ASSUME NEW a \in Nat, NEW b \in Nat
  PROVE  Min({a, b}) \in Nat /\ Min({a, b}) <= a /\ Min({a, b}) <= b /\ Min({a, b}) \in {a, b}
<1>1. \E x \in {a, b} : \A y \in {a, b} : x <= y
  OBVIOUS
<1> QED
  BY <1>1 DEF Min

\* The first of a list, no more than so many.
LEMMA FirstOfList ==
  ASSUME NEW s, IsList(s), NEW most \in Nat
  PROVE  /\ IsList(SubSeq(s, 1, Min({Len(s), most})))
         /\ Len(SubSeq(s, 1, Min({Len(s), most}))) = Min({Len(s), most})
         /\ \A i \in 1 .. Min({Len(s), most}) : SubSeq(s, 1, Min({Len(s), most}))[i] = s[i]
<1> DEFINE n == Min({Len(s), most})
           one == 1
<1>1. Len(s) \in Nat /\ n \in Nat /\ n <= Len(s)
  BY ListFacts, MinOfTwo
<1> HIDE DEF n
<1>2. one \in 1 .. Len(s) + 1 /\ n \in one - 1 .. Len(s) /\ n - one + 1 = n
  BY <1>1
<1> HIDE DEF one
<1>3. /\ IsList(SubSeq(s, one, n)) /\ Len(SubSeq(s, one, n)) = n - one + 1
      /\ \A i \in 1 .. n - one + 1 : SubSeq(s, one, n)[i] = s[one + i - 1]
  BY <1>2, SubList
<1>4. \A i \in 1 .. n : one + i - 1 = i
  BY <1>1 DEF one
<1> QED
  BY <1>2, <1>3, <1>4 DEF n, one

\* The addresses a worker wants in its cache are a list.
LEMMA UrlsAreList ==
  ASSUME NEW source \in Seq(Statement)
  PROVE  IsList(AddedUrls(source)) /\ IsList(PrecacheUrls(source))
<1>1. ASSUME NEW text \in Seq(Statement)
      PROVE  IsList(AddedUrls(text))
  <2> DEFINE one == Calls(text, Path(<<"cache", "add">>), 1)
             all == Calls(text, Path(<<"cache", "addAll">>), 1)
             firsts == [i \in DOMAIN one |-> one[i].args[1]]
             rest == [i \in DOMAIN all |-> all[i].args]
  <2>1. one \in Seq(Statement) /\ all \in Seq(Statement)
    BY ScansAreLists DEF Calls
  <2>2. AddedUrls(text) = firsts \o FlattenSeq(rest)
    BY DEF AddedUrls
  <2> HIDE DEF one, all
  <2>3. /\ Len(one) \in Nat /\ DOMAIN one = 1 .. Len(one)
        /\ Len(all) \in Nat /\ DOMAIN all = 1 .. Len(all)
        /\ \A i \in 1 .. Len(all) : all[i].args \in Seq(STRING)
    BY <2>1, StatementFields
  <2>4. /\ firsts = [i \in 1 .. Len(one) |-> firsts[i]]
        /\ rest = [i \in 1 .. Len(all) |-> rest[i]]
        /\ \A i \in 1 .. Len(all) : rest[i] \in Seq(STRING)
    BY <2>3
  <2> HIDE DEF firsts, rest
  <2>5. IsList(firsts) /\ IsList(rest) /\ Len(rest) = Len(all)
    BY <2>3, <2>4, ListBuilt
  <2>6. IsList(FlattenSeq(rest))
    BY <2>4, <2>5, FlattenList
  <2> QED
    BY <2>2, <2>5, <2>6, ConcatList
<1>2. Scanned(source) \in Seq(Statement)
  BY ScansAreLists DEF Scanned
<1> DEFINE urls == Distinct(AddedUrls(Scanned(source)))
<1>3. IsList(urls)
  BY <1>1, <1>2, DedupeIsList
<1>4. PrecacheUrls(source) = SubSeq(urls, 1, Min({Len(urls), MaxPrecacheUrls}))
  BY DEF PrecacheUrls
<1> HIDE DEF urls
<1>5. MaxPrecacheUrls \in Nat
  BY WorkerAssumption
<1>6. IsList(PrecacheUrls(source))
  BY <1>3, <1>4, <1>5, FirstOfList
<1> QED
  BY <1>1, <1>6

\* The host once the resources of a worker came or failed.
PrecachedAll(opened, scope, cache, urls, missing) ==
  LET precached[i \in 0 .. Len(urls)] ==
        IF i = 0 THEN opened ELSE Precached(precached[i - 1], scope, cache, urls[i], urls[i] \notin missing)
  IN precached[Len(urls)]

\* What a worker wants in its cache changes nothing but that cache.
LEMMA PrecachingGrows ==
  ASSUME NEW opened, IsHost(opened), NEW urls, IsList(urls), NEW scope, NEW cache, NEW missing
  PROVE  Grows(opened, PrecachedAll(opened, scope, cache, urls, missing))
<1> DEFINE n == Len(urls)
           f == CHOOSE g : g = [i \in 0 .. n |->
                  IF i = 0 THEN opened ELSE Precached(g[i - 1], scope, cache, urls[i], urls[i] \notin missing)]
           turns == [k \in 1 .. n |-> [what |-> "precache", scope |-> scope, cache |-> cache, of |-> urls[k],
                                       comes |-> urls[k] \notin missing]]
<1>1. n \in Nat /\ PrecachedAll(opened, scope, cache, urls, missing) = f[n]
  BY ListFacts DEF PrecachedAll
<1>2. PICK g : TurnsTaken(opened, turns, n, g)
  BY <1>1, TurnsExist
<1>3. \A k \in 1 .. n : \A s : TakeTurn(s, turns[k]) = Precached(s, scope, cache, urls[k], urls[k] \notin missing)
  BY DEF TakeTurn
<1>4. \A k \in 0 .. n : k # 0 => k \in 1 .. n
  BY <1>1
<1> HIDE DEF turns, f
<1>5. g = [i \in 0 .. n |-> IF i = 0 THEN opened ELSE Precached(g[i - 1], scope, cache, urls[i], urls[i] \notin missing)]
  BY <1>2, <1>3, <1>4 DEF TurnsTaken
<1>6. f = [i \in 0 .. n |-> IF i = 0 THEN opened ELSE Precached(f[i - 1], scope, cache, urls[i], urls[i] \notin missing)]
  BY <1>5 DEF f
<1>7. f[0] = opened /\ \A i \in 1 .. n : f[i] = Precached(f[i - 1], scope, cache, urls[i], urls[i] \notin missing)
  <2>1. 0 \in 0 .. n /\ \A i \in 1 .. n : i \in 0 .. n /\ i # 0
    BY <1>1
  <2> HIDE DEF n
  <2>2. \A i \in 0 .. n : f[i] = IF i = 0 THEN opened ELSE Precached(f[i - 1], scope, cache, urls[i], urls[i] \notin missing)
    BY <1>6, Zenon
  <2> QED
    BY <2>1, <2>2
<1> HIDE DEF n
<1> DEFINE S == {k \in 0 .. n : Grows(opened, f[k])}
           start == 0
<1>8. start \in S /\ start \in Nat /\ n \in start .. n
  BY <1>1, <1>7, HostGrows
<1>9. ASSUME NEW k \in start .. n - 1, k \in S PROVE k + 1 \in S
  BY <1>1, <1>7, <1>9, PrecachedHost, GrowsOn DEF Grows
<1> HIDE DEF S, start
<1>10. start .. n \subseteq S
  BY <1>1, <1>8, <1>9, CountingUp
<1>11. n \in S
  BY <1>8, <1>10
<1> QED
  BY <1>1, <1>11 DEF S

\* A worker that is registered: of a new scope, or instead of the one that
\* had it, and with its cache.
LEMMA RegisteredIsSound ==
  ASSUME NEW h, HostIsSound(h), NEW asked, asked = Count(h, "scriptFetches"),
         NEW script, NEW scope, NEW source \in Seq(Statement), NEW missing
  PROVE  HostIsSound(Registered(asked, script, scope, source, missing))
<1> DEFINE cache == CacheNamed(source)
           counter == IF scope \in DOMAIN asked.registrations THEN "updates" ELSE "registrations"
           counted == Count(asked, counter)
           registrations == Insert(counted.registrations, scope, [script |-> script, cache |-> cache])
           named == [counted EXCEPT !.registrations = registrations]
           opened == OpenCache(named, cache)
           urls == PrecacheUrls(source)
<1>1. Registered(asked, script, scope, source, missing) = PrecachedAll(opened, scope, cache, urls, missing)
  BY DEF Registered, PrecachedAll
<1>2. IsList(urls)
  BY UrlsAreList
<1> HIDE DEF urls, cache
<1>3. /\ IsHost(asked) /\ asked.registrations = h.registrations /\ asked.caches = h.caches
      /\ \A d \in Counters : asked.counts[d] = IF d = "scriptFetches" THEN h.counts[d] + 1 ELSE h.counts[d]
  BY CountedHost DEF HostIsSound, Counters
<1>4. counter \in Counters
  BY DEF Counters
<1>5. /\ IsHost(counted) /\ counted.registrations = h.registrations /\ counted.caches = h.caches
      /\ \A d \in Counters : counted.counts[d] = IF d = counter THEN asked.counts[d] + 1 ELSE asked.counts[d]
  <2> HIDE DEF counter
  <2> QED
    BY <1>3, <1>4, CountedHost
<1> HIDE DEF counted
<1>6. /\ DOMAIN registrations = DOMAIN h.registrations \cup {scope}
      /\ registrations[scope].cache = cache
      /\ \A s \in DOMAIN h.registrations : s # scope => registrations[s] = h.registrations[s]
  BY <1>5 DEF Insert
<1> HIDE DEF registrations
<1>7. IsFiniteSet(DOMAIN h.registrations) /\ h.counts \in [Counters -> Nat]
  BY DEF HostIsSound, IsHost
<1>8. /\ IsFiniteSet(DOMAIN registrations)
      /\ Cardinality(DOMAIN registrations)
           = IF scope \in DOMAIN h.registrations THEN Cardinality(DOMAIN h.registrations) ELSE Cardinality(DOMAIN h.registrations) + 1
  BY <1>6, <1>7, FS_AddElement
<1>9. named = [registrations |-> registrations, caches |-> counted.caches, counts |-> counted.counts]
  BY <1>5 DEF IsHost
<1>10. IsHost(named) /\ named.registrations = registrations /\ named.caches = h.caches /\ named.counts = counted.counts
  BY <1>5, <1>8, <1>9 DEF IsHost
<1> HIDE DEF named
<1>11. Grows(named, opened) /\ SanitizeCacheName(cache) \in DOMAIN opened.caches
  BY <1>10, OpenedHost
<1> HIDE DEF opened
<1>12. HostIsSound(opened)
  <2>1. IsHost(opened) /\ opened.registrations = registrations /\ DOMAIN h.caches \subseteq DOMAIN opened.caches
    BY <1>10, <1>11 DEF Grows
  <2>2. \A d \in Related : opened.counts[d] = counted.counts[d]
    BY <1>10, <1>11 DEF Grows
  <2>3. CachesAreThere(opened)
    BY <1>3, <1>5, <1>6, <1>11, <2>1, <2>2 DEF Related, Counters, HostIsSound, CachesAreThere
  <2>4. /\ \A d \in Counters : h.counts[d] \in Nat
        /\ h.counts["registrations"] + h.counts["updates"] + h.counts["scriptFailures"] = h.counts["scriptFetches"]
        /\ h.counts["registrations"] = Cardinality(DOMAIN h.registrations)
        /\ h.counts["hits"] + h.counts["misses"] <= h.counts["matches"]
    BY <1>7 DEF HostIsSound
  <2>5. /\ opened.counts["scriptFetches"] = h.counts["scriptFetches"] + 1
        /\ opened.counts["scriptFailures"] = h.counts["scriptFailures"]
        /\ opened.counts["hits"] = h.counts["hits"] /\ opened.counts["misses"] = h.counts["misses"]
        /\ opened.counts["matches"] = h.counts["matches"]
        /\ opened.counts["registrations"] = IF scope \in DOMAIN h.registrations THEN h.counts["registrations"] ELSE h.counts["registrations"] + 1
        /\ opened.counts["updates"] = IF scope \in DOMAIN h.registrations THEN h.counts["updates"] + 1 ELSE h.counts["updates"]
    BY <1>3, <1>5, <2>2 DEF Related, Counters
  <2>6. {"registrations", "updates", "scriptFailures", "scriptFetches", "hits", "misses", "matches"} \subseteq Counters
    BY DEF Counters
  <2>7. opened.counts["registrations"] = Cardinality(DOMAIN opened.registrations)
    BY <1>8, <2>1, <2>4, <2>5
  <2>8. opened.counts["registrations"] + opened.counts["updates"] + opened.counts["scriptFailures"] = opened.counts["scriptFetches"]
    <3> HIDE DEF counter
    <3>1. h.counts["registrations"] \in Nat /\ h.counts["updates"] \in Nat /\ h.counts["scriptFailures"] \in Nat
      BY <2>4, <2>6
    <3> QED
      BY SMTT(30), <2>4, <2>5, <3>1
  <2>9. opened.counts["hits"] + opened.counts["misses"] <= opened.counts["matches"]
    BY <2>4, <2>5
  <2> QED
    BY <2>1, <2>3, <2>7, <2>8, <2>9 DEF HostIsSound
<1>13. Grows(opened, PrecachedAll(opened, scope, cache, urls, missing))
  BY <1>2, <1>12, PrecachingGrows DEF HostIsSound
<1> QED
  BY <1>1, <1>12, <1>13, GrownIsSound

\* What is asked of one host is asked of each of several.
LEMMA SoundHosts ==
  ASSUME NEW h, HostIsSound(h)
  PROVE  /\ IsHost(h) /\ \A d \in Counters : h.counts[d] \in Nat
         /\ h.counts["registrations"] + h.counts["updates"] + h.counts["scriptFailures"] = h.counts["scriptFetches"]
         /\ h.counts["registrations"] = Cardinality(DOMAIN h.registrations)
         /\ h.counts["hits"] + h.counts["misses"] <= h.counts["matches"]
         /\ CachesAreThere(h)
BY DEF HostIsSound, IsHost

\* A count nothing is related to.
LEMMA CountingIsSound ==
  ASSUME NEW h, HostIsSound(h), NEW c \in Counters \ Related
  PROVE  HostIsSound(Count(h, c))
<1>1. Grows(h, Count(h, c))
  BY CountedHost, SoundHosts
<1> QED
  BY <1>1, GrownIsSound

\* A registration leaves a sound host, whatever comes of it.
LEMMA RegisterIsSound ==
  ASSUME NEW h, HostIsSound(h), NEW args
  PROVE  \A k \in Register(h, args) : HostIsSound(k)
<1> DEFINE script == Join(DocumentUrl, args[1])
           scope == IF Len(args) > 1 /\ CanResolve(args[Len(args)]) THEN Join(DocumentUrl, args[Len(args)]) ELSE InferScope(script)
           asked == Count(h, "scriptFetches")
           failed == Count(asked, "scriptFailures")
           of(source) == {Registered(asked, script, scope, source, missing) : missing \in SUBSET ToSet(PrecacheUrls(source))}
<1>1. Register(h, args) = IF ~CanResolve(args[1]) THEN {Count(h, "errors")}
                          ELSE {failed} \cup UNION {of(source) : source \in WorkerSources}
  BY DEF Register
<1> HIDE DEF script, scope
<1>2. HostIsSound(Count(h, "errors"))
  BY CountingIsSound DEF Counters, Related
<1>3. ASSUME NEW source \in WorkerSources, NEW k \in of(source) PROVE HostIsSound(k)
  <2>1. PICK missing : k = Registered(asked, script, scope, source, missing)
    BY <1>3
  <2>2. source \in Seq(Statement)
    BY WorkerAssumption
  <2> QED
    BY <2>1, <2>2, RegisteredIsSound
<1> HIDE DEF of
<1>4. HostIsSound(failed)
  <2>1. "scriptFetches" \in Counters /\ "scriptFailures" \in Counters
    BY DEF Counters
  <2>2. /\ IsHost(asked) /\ asked.registrations = h.registrations /\ asked.caches = h.caches
        /\ \A d \in Counters : asked.counts[d] = IF d = "scriptFetches" THEN h.counts[d] + 1 ELSE h.counts[d]
    BY <2>1, SoundHosts, CountedHost
  <2> HIDE DEF asked
  <2>3. /\ IsHost(failed) /\ failed.registrations = h.registrations /\ failed.caches = h.caches
        /\ \A d \in Counters : failed.counts[d] = IF d = "scriptFailures" THEN asked.counts[d] + 1 ELSE asked.counts[d]
    BY <2>1, <2>2, CountedHost
  <2> HIDE DEF failed
  <2>4. \A d \in Counters : failed.counts[d] = IF d \in {"scriptFetches", "scriptFailures"} THEN h.counts[d] + 1 ELSE h.counts[d]
    BY <2>1, <2>2, <2>3
  <2>5. {"registrations", "updates", "scriptFailures", "scriptFetches", "hits", "misses", "matches", "deletes"} \subseteq Counters
    BY DEF Counters
  <2>6. /\ h.counts["registrations"] \in Nat /\ h.counts["updates"] \in Nat /\ h.counts["scriptFailures"] \in Nat
        /\ h.counts["registrations"] + h.counts["updates"] + h.counts["scriptFailures"] = h.counts["scriptFetches"]
        /\ h.counts["registrations"] = Cardinality(DOMAIN h.registrations)
        /\ h.counts["hits"] + h.counts["misses"] <= h.counts["matches"]
        /\ CachesAreThere(h)
    BY <2>5, SoundHosts
  <2>7. /\ failed.counts["registrations"] = h.counts["registrations"] /\ failed.counts["updates"] = h.counts["updates"]
        /\ failed.counts["scriptFailures"] = h.counts["scriptFailures"] + 1
        /\ failed.counts["scriptFetches"] = h.counts["scriptFetches"] + 1
        /\ failed.counts["hits"] = h.counts["hits"] /\ failed.counts["misses"] = h.counts["misses"]
        /\ failed.counts["matches"] = h.counts["matches"] /\ failed.counts["deletes"] = h.counts["deletes"]
    BY <2>4, <2>5
  <2>8. CachesAreThere(failed)
    BY <2>3, <2>6, <2>7 DEF CachesAreThere
  <2>9. failed.counts["registrations"] + failed.counts["updates"] + failed.counts["scriptFailures"] = failed.counts["scriptFetches"]
    BY <2>6, <2>7
  <2> QED
    BY <2>3, <2>6, <2>7, <2>8, <2>9 DEF HostIsSound
<1> HIDE DEF failed
<1>5. CASE ~CanResolve(args[1])
  BY <1>1, <1>2, <1>5
<1>6. CASE CanResolve(args[1])
  BY <1>1, <1>3, <1>4, <1>6
<1> QED
  BY <1>5, <1>6

\* So does deleting a cache.
LEMMA DeleteIsSound ==
  ASSUME NEW h, HostIsSound(h), NEW name
  PROVE  HostIsSound(CacheDelete(h, name))
<1> DEFINE caches == [c \in DOMAIN h.caches \ {name} |-> h.caches[c]]
           without == [h EXCEPT !.caches = caches]
           k == Count(without, "deletes")
<1>1. CacheDelete(h, name) = IF name \in DOMAIN h.caches THEN k ELSE h
  BY DEF CacheDelete
<1> HIDE DEF caches
<1>2. without = [registrations |-> h.registrations, caches |-> caches, counts |-> h.counts]
  BY SoundHosts DEF IsHost
<1>3. IsHost(without) /\ without.registrations = h.registrations /\ without.counts = h.counts
  BY <1>2, SoundHosts DEF IsHost
<1> HIDE DEF without
<1>4. "deletes" \in Counters
  BY DEF Counters
<1>5. /\ IsHost(k) /\ k.registrations = h.registrations
      /\ \A d \in Counters : k.counts[d] = IF d = "deletes" THEN h.counts[d] + 1 ELSE h.counts[d]
  BY <1>3, <1>4, CountedHost
<1> HIDE DEF k
<1>6. {"registrations", "updates", "scriptFailures", "scriptFetches", "hits", "misses", "matches", "deletes"} \subseteq Counters
  BY DEF Counters
<1>7. CachesAreThere(k)
  BY <1>4, <1>5, SoundHosts DEF CachesAreThere
<1>8. /\ k.counts["registrations"] = h.counts["registrations"] /\ k.counts["updates"] = h.counts["updates"]
      /\ k.counts["scriptFailures"] = h.counts["scriptFailures"] /\ k.counts["scriptFetches"] = h.counts["scriptFetches"]
      /\ k.counts["hits"] = h.counts["hits"] /\ k.counts["misses"] = h.counts["misses"] /\ k.counts["matches"] = h.counts["matches"]
  BY <1>5, <1>6
<1>9. HostIsSound(k)
  BY <1>5, <1>7, <1>8, SoundHosts DEF HostIsSound
<1> QED
  BY <1>1, <1>9

\* So does looking for a response.
LEMMA MatchIsSound ==
  ASSUME NEW h, HostIsSound(h), NEW literal
  PROVE  HostIsSound(CacheMatch(h, literal))
<1> DEFINE asked == Count(h, "matches")
           answer == IF ~CanResolve(literal) THEN "errors" ELSE IF MatchAny(h, Join(DocumentUrl, literal)) THEN "hits" ELSE "misses"
           k == Count(asked, answer)
<1>1. "matches" \in Counters /\ answer \in {"errors", "hits", "misses"} /\ {"errors", "hits", "misses"} \subseteq Counters
  BY DEF Counters
<1>2. CacheMatch(h, literal) = k
  BY DEF CacheMatch
<1> HIDE DEF answer
<1>3. /\ IsHost(asked) /\ asked.registrations = h.registrations /\ asked.caches = h.caches
      /\ \A d \in Counters : asked.counts[d] = IF d = "matches" THEN h.counts[d] + 1 ELSE h.counts[d]
  BY <1>1, SoundHosts, CountedHost
<1> HIDE DEF asked
<1>4. answer \in Counters
  BY <1>1
<1>5. /\ IsHost(k) /\ k.registrations = h.registrations /\ k.caches = h.caches
      /\ \A d \in Counters : k.counts[d] = IF d = answer THEN asked.counts[d] + 1 ELSE asked.counts[d]
  BY <1>3, <1>4, CountedHost
<1> HIDE DEF k
<1>6. {"registrations", "updates", "scriptFailures", "scriptFetches", "hits", "misses", "matches", "deletes"} \subseteq Counters
  BY DEF Counters
<1>7. /\ k.counts["registrations"] = h.counts["registrations"] /\ k.counts["updates"] = h.counts["updates"]
      /\ k.counts["scriptFailures"] = h.counts["scriptFailures"] /\ k.counts["scriptFetches"] = h.counts["scriptFetches"]
      /\ k.counts["deletes"] = h.counts["deletes"] /\ k.counts["matches"] = h.counts["matches"] + 1
      /\ k.counts["hits"] + k.counts["misses"] <= h.counts["hits"] + h.counts["misses"] + 1
  BY <1>1, <1>3, <1>5, <1>6, SoundHosts
<1>8. h.counts["hits"] + h.counts["misses"] <= h.counts["matches"] /\ h.counts["hits"] \in Nat /\ h.counts["misses"] \in Nat /\ h.counts["matches"] \in Nat
  BY <1>6, SoundHosts
<1>9. k.counts["hits"] + k.counts["misses"] <= k.counts["matches"]
  BY <1>5, <1>6, <1>7, <1>8 DEF IsHost
<1>10. CachesAreThere(k)
  BY <1>5, <1>7, SoundHosts DEF CachesAreThere
<1> QED
  BY <1>2, <1>5, <1>7, <1>9, <1>10, SoundHosts DEF HostIsSound

\* The kinds of calls there are.
WorkerKinds == {"Register", "CacheOpen", "CacheDelete", "CacheAdd", "CacheMatch"}

\* The host of workers stays sound whatever comes of a call.
LEMMA WorkerEffectIsSound ==
  ASSUME NEW host, HostIsSound(host), NEW effect, effect.kind \in WorkerKinds
  PROVE  \A k \in AppliedWorkerEffect(host, effect) : HostIsSound(k)
<1> DEFINE counted == Count(host, "effects")
           name == effect.args[1]
<1>1. {"effects", "opens", "adds", "errors"} \subseteq Counters \ Related
  BY DEF Counters, Related
<1>2. HostIsSound(counted)
  BY <1>1, CountingIsSound
<1>3. AppliedWorkerEffect(host, effect) =
        CASE effect.kind = "Register" -> Register(counted, effect.args)
          [] effect.kind = "CacheOpen" -> {Count(OpenCache(counted, name), "opens")}
          [] effect.kind = "CacheDelete" -> {CacheDelete(counted, name)}
          [] effect.kind = "CacheAdd" -> {CacheAdd(counted, name)}
          [] effect.kind = "CacheMatch" -> {CacheMatch(counted, name)}
  BY DEF AppliedWorkerEffect
<1> HIDE DEF counted
<1>4. IsHost(counted)
  BY <1>2, SoundHosts
<1>5. CASE effect.kind = "Register"
  BY <1>2, <1>3, <1>5, RegisterIsSound
<1>6. CASE effect.kind = "CacheOpen"
  <2> DEFINE opened == OpenCache(counted, name)
  <2>1. AppliedWorkerEffect(host, effect) = {Count(opened, "opens")}
    BY <1>3, <1>6
  <2>2. HostIsSound(opened)
    BY <1>2, <1>4, OpenedHost, GrownIsSound
  <2> HIDE DEF opened
  <2>3. HostIsSound(Count(opened, "opens"))
    BY <1>1, <2>2, CountingIsSound
  <2> QED
    BY <2>1, <2>3
<1>7. CASE effect.kind = "CacheDelete"
  BY <1>2, <1>3, <1>7, DeleteIsSound
<1>8. CASE effect.kind = "CacheAdd"
  <2> DEFINE put == PutResponse(counted, "default", Join(DocumentUrl, name), "synthetic")
  <2>1. AppliedWorkerEffect(host, effect) = {CacheAdd(counted, name)}
    BY <1>3, <1>8
  <2>2. CacheAdd(counted, name) \in {Count(put, "adds"), Count(counted, "errors")}
    BY DEF CacheAdd
  <2>3. HostIsSound(put)
    BY <1>2, <1>4, PutHost, GrownIsSound
  <2> HIDE DEF put
  <2>4. HostIsSound(Count(put, "adds")) /\ HostIsSound(Count(counted, "errors"))
    BY <1>1, <1>2, <2>3, CountingIsSound
  <2> QED
    BY <2>1, <2>2, <2>4
<1>9. CASE effect.kind = "CacheMatch"
  BY <1>2, <1>3, <1>9, MatchIsSound
<1> QED
  BY <1>5, <1>6, <1>7, <1>8, <1>9 DEF WorkerKinds

\* A list of calls on the hosts of workers.
IsCalls(effects) == IsList(effects) /\ \A i \in 1 .. Len(effects) : effects[i].kind \in WorkerKinds

\* Two lists of calls are one.
LEMMA CallsJoin ==
  ASSUME NEW a, IsCalls(a), NEW b, IsCalls(b)
  PROVE  IsCalls(a \o b)
<1>1. /\ IsList(a \o b) /\ Len(a \o b) = Len(a) + Len(b)
      /\ \A i \in 1 .. Len(a) + Len(b) : (a \o b)[i] = IF i <= Len(a) THEN a[i] ELSE b[i - Len(a)]
  BY ConcatList DEF IsCalls
<1>2. Len(a) \in Nat /\ Len(b) \in Nat
  BY ListFacts DEF IsCalls
<1>3. ASSUME NEW i \in 1 .. Len(a \o b)
      PROVE  (a \o b)[i].kind \in WorkerKinds
  <2>1. CASE i <= Len(a)
    BY <1>1, <1>2, <2>1 DEF IsCalls
  <2>2. CASE ~(i <= Len(a))
    BY <1>1, <1>2, <2>2 DEF IsCalls
  <2> QED
    BY <2>1, <2>2
<1> QED
  BY <1>1, <1>3 DEF IsCalls

\* The calls found in a text.
LEMMA CallsFound ==
  ASSUME NEW kind \in WorkerKinds, NEW found \in Seq(Statement)
  PROVE  IsCalls(WorkerEffects(kind, found))
<1> DEFINE effects == WorkerEffects(kind, found)
           n == Len(found)
<1>1. n \in Nat /\ DOMAIN found = 1 .. n
  BY StatementFields
<1>2. effects = [i \in 1 .. n |-> effects[i]] /\ \A i \in 1 .. n : effects[i].kind = kind
  BY <1>1 DEF WorkerEffects, WorkerEffect
<1> HIDE DEF effects, n
<1>3. IsList(effects) /\ Len(effects) = n
  BY <1>1, <1>2, ListBuilt
<1> QED
  BY <1>2, <1>3 DEF IsCalls, effects

\* The calls a script makes on the hosts of workers.
LEMMA WorkerCallsAre ==
  ASSUME NEW text \in Seq(Statement)
  PROVE  IsCalls(CaptureServiceWorkerEffects(text))
<1> DEFINE source == Scanned(text)
           calls(kind, names) == WorkerEffects(kind, Calls(source, Path(names), 1))
           added == AddedUrls(source)
           adds == [i \in DOMAIN added |-> WorkerEffect("CacheAdd", <<added[i]>>)]
           a == calls("Register", <<"navigator", "serviceWorker", "register">>)
           b == calls("Register", <<"window", "navigator", "serviceWorker", "register">>)
           c == calls("CacheOpen", <<"caches", "open">>)
           d == calls("CacheDelete", <<"caches", "delete">>)
           e == calls("CacheMatch", <<"caches", "match">>)
<1>1. CaptureServiceWorkerEffects(text) = a \o b \o c \o d \o adds \o e
  BY DEF CaptureServiceWorkerEffects
<1>2. source \in Seq(Statement)
  BY ScansAreLists DEF Scanned
<1> HIDE DEF source
<1>3. \A kind \in WorkerKinds : \A names : IsCalls(calls(kind, names))
  <2> TAKE kind \in WorkerKinds
  <2> TAKE names
  <2>1. Calls(source, Path(names), 1) \in Seq(Statement)
    BY <1>2, ScansAreLists DEF Calls
  <2> QED
    BY <2>1, CallsFound
<1> HIDE DEF calls
<1>4. IsCalls(a) /\ IsCalls(b) /\ IsCalls(c) /\ IsCalls(d) /\ IsCalls(e)
  BY <1>3 DEF WorkerKinds
<1>5. IsCalls(adds)
  <2> DEFINE n == Len(added)
  <2>1. n \in Nat /\ DOMAIN added = 1 .. n
    BY <1>2, UrlsAreList, ListFacts
  <2>2. adds = [i \in 1 .. n |-> adds[i]] /\ \A i \in 1 .. n : adds[i].kind = "CacheAdd"
    BY <2>1 DEF WorkerEffect
  <2> HIDE DEF adds, n
  <2>3. IsList(adds) /\ Len(adds) = n
    BY <2>1, <2>2, ListBuilt
  <2> QED
    BY <2>2, <2>3 DEF IsCalls, WorkerKinds
<1> HIDE DEF a, b, c, d, e, adds
<1>6. IsCalls(a \o b)
  BY <1>4, CallsJoin
<1>7. IsCalls(a \o b \o c)
  BY <1>4, <1>6, CallsJoin
<1>8. IsCalls(a \o b \o c \o d)
  BY <1>4, <1>7, CallsJoin
<1>9. IsCalls(a \o b \o c \o d \o adds)
  BY <1>5, <1>8, CallsJoin
<1> QED
  BY <1>1, <1>4, <1>9, CallsJoin

\* The hosts that calls of a list may leave.
AfterCalls(first, effects, last) ==
  LET after[i \in 0 .. last] ==
        IF i = 0 THEN {first} ELSE UNION {AppliedWorkerEffect(h, effects[i]) : h \in after[i - 1]} IN
  after[last]

\* The calls of a list leave a sound host.
LEMMA CallsAreSound ==
  ASSUME NEW first, HostIsSound(first), NEW effects, IsCalls(effects), NEW last \in 0 .. Len(effects)
  PROVE  \A h \in AfterCalls(first, effects, last) : HostIsSound(h)
<1> DEFINE n == last
           f == CHOOSE g : g = [i \in 0 .. n |-> IF i = 0 THEN {first} ELSE UNION {AppliedWorkerEffect(h, effects[i]) : h \in g[i - 1]}]
           turns == [k \in 1 .. n |-> [what |-> "worker", of |-> effects[k]]]
           singles == {first}
<1>1. AfterCalls(first, effects, last) = f[n]
  BY DEF AfterCalls
<1>2. Len(effects) \in Nat
  BY ListFacts DEF IsCalls
<1>3. n \in Nat /\ n <= Len(effects)
  BY <1>2
<1>4. PICK g : TurnsTaken(singles, turns, n, g)
  BY <1>3, TurnsExist
<1>5. \A k \in 1 .. n : \A s : TakeTurn(s, turns[k]) = UNION {AppliedWorkerEffect(h, effects[k]) : h \in s}
  BY DEF TakeTurn
<1>6. \A k \in 0 .. n : k # 0 => k \in 1 .. n
  BY <1>3
<1> HIDE DEF turns, f
<1>7. g = [i \in 0 .. n |-> IF i = 0 THEN {first} ELSE UNION {AppliedWorkerEffect(h, effects[i]) : h \in g[i - 1]}]
  BY <1>4, <1>5, <1>6 DEF TurnsTaken
<1>8. f = [i \in 0 .. n |-> IF i = 0 THEN {first} ELSE UNION {AppliedWorkerEffect(h, effects[i]) : h \in f[i - 1]}]
  BY <1>7 DEF f
<1> HIDE DEF n, singles
<1>9. f[0] = {first} /\ \A i \in 1 .. n : f[i] = UNION {AppliedWorkerEffect(h, effects[i]) : h \in f[i - 1]}
  <2>1. 0 \in 0 .. n /\ \A i \in 1 .. n : i \in 0 .. n /\ i # 0
    BY <1>3
  <2>2. \A i \in 0 .. n : f[i] = IF i = 0 THEN {first} ELSE UNION {AppliedWorkerEffect(h, effects[i]) : h \in f[i - 1]}
    BY <1>8, Zenon
  <2>3. f[0] = {first}
    BY <2>1, <2>2
  <2>4. ASSUME NEW i \in 1 .. n PROVE f[i] = UNION {AppliedWorkerEffect(h, effects[i]) : h \in f[i - 1]}
    BY <2>1, <2>2, Zenon
  <2> QED
    BY <2>3, <2>4
<1> DEFINE S == {k \in 0 .. n : \A h \in f[k] : HostIsSound(h)}
           start == 0
<1>10. start \in S /\ start \in Nat /\ n \in start .. n
  BY <1>3, <1>9
<1>11. ASSUME NEW k \in start .. n - 1, k \in S PROVE k + 1 \in S
  BY <1>2, <1>3, <1>9, <1>11, WorkerEffectIsSound DEF IsCalls
<1> HIDE DEF S, start
<1>12. start .. n \subseteq S
  BY <1>3, <1>10, <1>11, CountingUp
<1>13. n \in S
  BY <1>10, <1>12
<1> QED
  BY <1>1, <1>13 DEF S

\* Whatever a script asks of its workers, and whatever comes of it.
LEMMA WorkersStaySound ==
  ASSUME NEW host, HostIsSound(host), NEW text \in Seq(Statement)
  PROVE  \A h \in AfterWorkerEffects(host, text) : HostIsSound(h)
<1> DEFINE effects == CaptureServiceWorkerEffects(text)
           last == Min({Len(effects), MaxWorkerEffects})
           named == \E i \in DOMAIN text : Names(Scanned(text)[i].name, Path(<<"serviceWorker">>))
           first == IF Len(effects) > MaxWorkerEffects \/ (effects = <<>> /\ named) THEN Count(host, "warnings") ELSE host
<1>1. AfterWorkerEffects(host, text) = AfterCalls(first, effects, last)
  BY DEF AfterWorkerEffects, AfterCalls
<1>2. IsCalls(effects)
  BY WorkerCallsAre
<1> HIDE DEF effects
<1>3. Len(effects) \in Nat /\ MaxWorkerEffects \in Nat
  BY <1>2, ListFacts, WorkerAssumption DEF IsCalls
<1>4. last \in 0 .. Len(effects)
  BY <1>3, MinOfTwo
<1>5. HostIsSound(first)
  BY CountingIsSound DEF Counters, Related
<1> HIDE DEF first, last
<1> QED
  BY <1>1, <1>2, <1>4, <1>5, CallsAreSound

-----------------------------------------------------------------------------
(* The tasks that wait.                                                    *)

\* Whether a task is counted before it is run, or is when it is run.
Waits(task) == IF task.kind = "ApplyDomEffect" /\ task.effect.kind # "DispatchEvent" THEN 0 ELSE 1
\* A dispatch is counted when it is queued, and as often when it is run.
Doubles(task) == IF task.kind = "ApplyDomEffect" /\ task.effect.kind = "DispatchEvent" THEN 1 ELSE 0
\* What a task leaves of a page.
Shown(task, document) == IF Waits(task) = 0 THEN ApplyDomEffect(document, task.effect).document ELSE document

\* A ledger: the page, the tasks owed and the events counted, after each task.
LedgerOf(queue, document, balance, dispatched, final, docs, owing, sent) ==
  /\ docs[0] = document /\ owing[0] = balance /\ sent[0] = dispatched
  /\ docs[Len(queue)] = final /\ owing[Len(queue)] = 0 /\ sent[Len(queue)] % 2 = 0
  /\ \A i \in 0 .. Len(queue) : owing[i] \in Int /\ sent[i] \in Nat
  /\ \A i \in 1 .. Len(queue) : /\ docs[i] = Shown(queue[i], docs[i - 1])
                                /\ owing[i] = owing[i - 1] - Waits(queue[i])
                                /\ sent[i] = sent[i - 1] + Doubles(queue[i])

\* What the page and the counts come to when the tasks that wait are run:
\* the page of all scripts so far, each task counted once, and every event
\* twice.
Ledger(queue, document, balance, dispatched, final) ==
  \E docs, owing, sent : LedgerOf(queue, document, balance, dispatched, final, docs, owing, sent)

\* When no task waits the page is the one it comes to, and nothing is owing.
LEMMA LedgerOfNone ==
  ASSUME NEW queue, NEW document, NEW balance, NEW dispatched, NEW final, Len(queue) = 0
  PROVE  /\ Ledger(queue, document, balance, dispatched, final) =>
              document = final /\ balance = 0 /\ dispatched \in Nat /\ dispatched % 2 = 0
         /\ dispatched \in Nat /\ dispatched % 2 = 0 => Ledger(queue, document, 0, dispatched, document)
<1>1. ASSUME Ledger(queue, document, balance, dispatched, final)
      PROVE  document = final /\ balance = 0 /\ dispatched \in Nat /\ dispatched % 2 = 0
  BY <1>1 DEF Ledger, LedgerOf
<1>2. ASSUME dispatched \in Nat, dispatched % 2 = 0
      PROVE  Ledger(queue, document, 0, dispatched, document)
  <2> DEFINE docs == [i \in {0} |-> document]
             owing == [i \in {0} |-> 0]
             sent == [i \in {0} |-> dispatched]
  <2>1. docs[0] = document /\ owing[0] = 0 /\ sent[0] = dispatched
    OBVIOUS
  <2> HIDE DEF docs, owing, sent
  <2>2. LedgerOf(queue, document, 0, dispatched, document, docs, owing, sent)
    BY <1>2, <2>1 DEF LedgerOf
  <2> QED
    BY <2>2 DEF Ledger
<1> QED
  BY <1>1, <1>2

\* The first task run, the rest come to the same.
LEMMA LedgerPopped ==
  ASSUME NEW queue, IsList(queue), Len(queue) > 0, NEW document, NEW balance, NEW dispatched, NEW final,
         Ledger(queue, document, balance, dispatched, final)
  PROVE  Ledger(Tail(queue), Shown(Head(queue), document), balance - Waits(Head(queue)), dispatched + Doubles(Head(queue)), final)
<1> DEFINE n == Len(queue) - 1
           rest == Tail(queue)
<1>1. Len(queue) \in Nat /\ n \in Nat /\ Len(queue) = n + 1
  BY ListFacts
<1>2. IsList(rest) /\ Len(rest) = n /\ \A i \in 1 .. n : rest[i] = queue[i + 1]
  BY TailList
<1>3. Head(queue) = queue[1]
  BY DEF IsList
<1> HIDE DEF n, rest
<1>4. PICK docs, owing, sent : LedgerOf(queue, document, balance, dispatched, final, docs, owing, sent)
  BY DEF Ledger
<1> DEFINE docs1 == [i \in 0 .. n |-> docs[i + 1]]
           owing1 == [i \in 0 .. n |-> owing[i + 1]]
           sent1 == [i \in 0 .. n |-> sent[i + 1]]
<1>5. \A i \in 0 .. n : docs1[i] = docs[i + 1] /\ owing1[i] = owing[i + 1] /\ sent1[i] = sent[i + 1]
  OBVIOUS
<1> HIDE DEF docs1, owing1, sent1
<1>6. /\ docs[n + 1] = final /\ owing[n + 1] = 0 /\ sent[n + 1] % 2 = 0
      /\ \A i \in 0 .. n + 1 : owing[i] \in Int /\ sent[i] \in Nat
      /\ \A i \in 1 .. n + 1 : /\ docs[i] = Shown(queue[i], docs[i - 1])
                               /\ owing[i] = owing[i - 1] - Waits(queue[i])
                               /\ sent[i] = sent[i - 1] + Doubles(queue[i])
  BY <1>1, <1>4 DEF LedgerOf
<1>7. /\ docs1[0] = Shown(Head(queue), document) /\ owing1[0] = balance - Waits(Head(queue))
      /\ sent1[0] = dispatched + Doubles(Head(queue))
  BY <1>1, <1>3, <1>4, <1>5, <1>6 DEF LedgerOf
<1>8. docs1[n] = final /\ owing1[n] = 0 /\ sent1[n] % 2 = 0
  BY <1>1, <1>5, <1>6
<1>9. \A i \in 0 .. n : owing1[i] \in Int /\ sent1[i] \in Nat
  <2> TAKE i \in 0 .. n
  <2>1. i + 1 \in 0 .. n + 1
    BY <1>1
  <2> QED
    BY <1>5, <1>6, <2>1
<1>10. ASSUME NEW i \in 1 .. n
       PROVE  /\ docs1[i] = Shown(rest[i], docs1[i - 1])
              /\ owing1[i] = owing1[i - 1] - Waits(rest[i])
              /\ sent1[i] = sent1[i - 1] + Doubles(rest[i])
  <2>1. i \in 0 .. n /\ i - 1 \in 0 .. n /\ i + 1 \in 1 .. n + 1 /\ (i + 1) - 1 = i /\ (i - 1) + 1 = i
    BY <1>1
  <2>2. rest[i] = queue[i + 1]
    BY <1>2
  <2>3. /\ docs1[i] = docs[i + 1] /\ docs1[i - 1] = docs[i] /\ owing1[i] = owing[i + 1] /\ owing1[i - 1] = owing[i]
        /\ sent1[i] = sent[i + 1] /\ sent1[i - 1] = sent[i]
    BY <1>5, <2>1
  <2>4. /\ docs[i + 1] = Shown(queue[i + 1], docs[i]) /\ owing[i + 1] = owing[i] - Waits(queue[i + 1])
        /\ sent[i + 1] = sent[i] + Doubles(queue[i + 1])
    BY <1>6, <2>1
  <2> QED
    BY <2>2, <2>3, <2>4
<1>11. LedgerOf(rest, Shown(Head(queue), document), balance - Waits(Head(queue)), dispatched + Doubles(Head(queue)), final,
                docs1, owing1, sent1)
  BY <1>2, <1>7, <1>8, <1>9, <1>10 DEF LedgerOf
<1> QED
  BY <1>11 DEF Ledger, rest

\* A task behind the others comes last.
LEMMA LedgerAppended ==
  ASSUME NEW queue, IsList(queue), NEW document, NEW balance, NEW dispatched, NEW final,
         Ledger(queue, document, balance, dispatched, final), NEW task, NEW more \in 0 .. 1, more = Doubles(task)
  PROVE  Ledger(Append(queue, task), document, balance + Waits(task), dispatched + more, Shown(task, final))
<1> DEFINE n == Len(queue)
           longer == Append(queue, task)
           waits == Waits(task)
<1>1. n \in Nat
  BY ListFacts
<1>2. IsList(longer) /\ Len(longer) = n + 1 /\ longer[n + 1] = task /\ \A i \in 1 .. n : longer[i] = queue[i]
  BY AppendList
<1>3. waits \in 0 .. 1
  BY DEF Waits
<1> HIDE DEF n, longer, waits
<1>4. PICK docs, owing, sent : LedgerOf(queue, document, balance, dispatched, final, docs, owing, sent)
  BY DEF Ledger
<1>5. /\ docs[0] = document /\ owing[0] = balance /\ sent[0] = dispatched
      /\ docs[n] = final /\ owing[n] = 0 /\ sent[n] % 2 = 0
      /\ \A i \in 0 .. n : owing[i] \in Int /\ sent[i] \in Nat
      /\ \A i \in 1 .. n : /\ docs[i] = Shown(queue[i], docs[i - 1])
                           /\ owing[i] = owing[i - 1] - Waits(queue[i])
                           /\ sent[i] = sent[i - 1] + Doubles(queue[i])
  BY <1>4 DEF LedgerOf, n
<1> DEFINE docs1 == [i \in 0 .. n + 1 |-> IF i = n + 1 THEN Shown(task, final) ELSE docs[i]]
           owing1 == [i \in 0 .. n + 1 |-> IF i = n + 1 THEN 0 ELSE owing[i] + waits]
           sent1 == [i \in 0 .. n + 1 |-> IF i = n + 1 THEN sent[n] + more + more ELSE sent[i] + more]
<1>6. /\ \A i \in 0 .. n : docs1[i] = docs[i] /\ owing1[i] = owing[i] + waits /\ sent1[i] = sent[i] + more
      /\ docs1[n + 1] = Shown(task, final) /\ owing1[n + 1] = 0 /\ sent1[n + 1] = sent[n] + more + more
  BY <1>1
<1> HIDE DEF docs1, owing1, sent1
<1>7. docs1[0] = document /\ owing1[0] = balance + waits /\ sent1[0] = dispatched + more
  BY <1>1, <1>5, <1>6
<1>8. sent1[n + 1] % 2 = 0
  BY <1>1, <1>5, <1>6
<1>9. \A i \in 0 .. n + 1 : owing1[i] \in Int /\ sent1[i] \in Nat
  <2> TAKE i \in 0 .. n + 1
  <2>1. CASE i = n + 1
    BY <1>1, <1>5, <1>6, <2>1
  <2>2. CASE i # n + 1
    <3>1. i \in 0 .. n
      BY <1>1, <2>2
    <3> QED
      BY <1>3, <1>5, <1>6, <3>1
  <2> QED
    BY <2>1, <2>2
<1>10. ASSUME NEW i \in 1 .. n + 1
       PROVE  /\ docs1[i] = Shown(longer[i], docs1[i - 1])
              /\ owing1[i] = owing1[i - 1] - Waits(longer[i])
              /\ sent1[i] = sent1[i - 1] + Doubles(longer[i])
  <2>1. CASE i = n + 1
    <3>1. i - 1 = n /\ n \in 0 .. n
      BY <1>1, <2>1
    <3>2. docs1[i - 1] = final /\ owing1[i - 1] = 0 + waits /\ sent1[i - 1] = sent[n] + more
      BY <1>5, <1>6, <3>1
    <3> QED
      BY <1>2, <1>3, <1>6, <2>1, <3>2 DEF waits
  <2>2. CASE i # n + 1
    <3>1. i \in 1 .. n /\ i \in 0 .. n /\ i - 1 \in 0 .. n
      BY <1>1, <2>2
    <3>2. longer[i] = queue[i]
      BY <1>2, <3>1
    <3>3. /\ docs[i] = Shown(queue[i], docs[i - 1]) /\ owing[i] = owing[i - 1] - Waits(queue[i])
          /\ sent[i] = sent[i - 1] + Doubles(queue[i]) /\ owing[i - 1] \in Int /\ sent[i - 1] \in Nat
      BY <1>5, <3>1
    <3>4. /\ docs1[i] = docs[i] /\ docs1[i - 1] = docs[i - 1] /\ owing1[i] = owing[i] + waits /\ owing1[i - 1] = owing[i - 1] + waits
          /\ sent1[i] = sent[i] + more /\ sent1[i - 1] = sent[i - 1] + more
      BY <1>6, <3>1
    <3>5. Waits(queue[i]) \in Int /\ Doubles(queue[i]) \in Int
      BY DEF Waits, Doubles
    <3> QED
      BY <1>3, <3>2, <3>3, <3>4, <3>5
  <2> QED
    BY <2>1, <2>2
<1>11. LedgerOf(longer, document, balance + waits, dispatched + more, Shown(task, final), docs1, owing1, sent1)
  BY <1>2, <1>6, <1>7, <1>8, <1>9, <1>10 DEF LedgerOf
<1> QED
  BY <1>11 DEF Ledger, longer, waits

-----------------------------------------------------------------------------
(* The queues of a pass.                                                   *)
PassFields == {"at", "scripts", "beyond", "first", "document", "runtime", "worker", "tasks", "microtasks", "ran", "summary", "loop"}

\* A pass that differs in no more than those fields.
Same(p, k, changed) == DOMAIN k = PassFields /\ \A f \in PassFields \ changed : k[f] = p[f]

\* The tasks counted and not run, or run and not counted yet.
Balance(p) ==
  p.runtime.executed + p.loop["mutations"] + p.loop["ignored"] + p.loop["dispatched"] - p.loop["tasksRun"]

\* What is queued is counted.
Queued(p) ==
  /\ DOMAIN p = PassFields /\ IsList(p.tasks) /\ IsList(p.microtasks)
  /\ p.loop \in [LoopCounters -> Nat] /\ p.runtime.executed \in Nat
  /\ p.loop["tasksQueued"] = p.loop["tasksRun"] + Len(p.tasks)
  /\ p.loop["microtasksQueued"] = p.loop["microtasksRun"] + Len(p.microtasks)
  /\ p.loop["microtasksQueued"] = p.loop["listeners"]

\* A pass whose page comes to be final when the tasks that wait are run.
ComesTo(p, final) == Queued(p) /\ Ledger(p.tasks, p.document, Balance(p), p.loop["dispatched"], final)

\* Counting in the loop changes that counter.
LEMMA LoopedIs ==
  ASSUME NEW p, DOMAIN p = PassFields, p.loop \in [LoopCounters -> Nat], NEW counter \in LoopCounters, NEW n \in Nat
  PROVE  /\ Same(p, Looped(p, counter, n), {"loop"})
         /\ Looped(p, counter, n).loop \in [LoopCounters -> Nat]
         /\ \A d \in LoopCounters : Looped(p, counter, n).loop[d] = IF d = counter THEN p.loop[d] + n ELSE p.loop[d]
<1> DEFINE loop == [p.loop EXCEPT ![counter] = p.loop[counter] + n]
           k == [p EXCEPT !.loop = loop]
<1>1. Looped(p, counter, n) = k
  BY DEF Looped
<1>2. loop \in [LoopCounters -> Nat] /\ \A d \in LoopCounters : loop[d] = IF d = counter THEN p.loop[d] + n ELSE p.loop[d]
  OBVIOUS
<1> HIDE DEF loop
<1>3. k.loop = loop /\ DOMAIN k = PassFields /\ \A f \in PassFields \ {"loop"} : k[f] = p[f]
  BY DEF PassFields
<1> QED
  BY <1>1, <1>2, <1>3 DEF Same

\* Counting one in the loop.
LEMMA LoopedOnce ==
  ASSUME NEW p, DOMAIN p = PassFields, p.loop \in [LoopCounters -> Nat], NEW counter \in LoopCounters
  PROVE  /\ Same(p, Looped(p, counter, 1), {"loop"})
         /\ Looped(p, counter, 1).loop \in [LoopCounters -> Nat]
         /\ \A d \in LoopCounters : Looped(p, counter, 1).loop[d] = IF d = counter THEN p.loop[d] + 1 ELSE p.loop[d]
<1> DEFINE one == 1
<1>1. one \in Nat
  OBVIOUS
<1> HIDE DEF one
<1>2. /\ Same(p, Looped(p, counter, one), {"loop"})
         /\ Looped(p, counter, one).loop \in [LoopCounters -> Nat]
         /\ \A d \in LoopCounters : Looped(p, counter, one).loop[d] = IF d = counter THEN p.loop[d] + one ELSE p.loop[d]
  BY <1>1, LoopedIs
<1> QED
  BY <1>2 DEF one

\* Counting in the summary changes that counter.
LEMMA SummedIs ==
  ASSUME NEW p, DOMAIN p = PassFields, p.summary \in [SummaryCounters -> Nat], NEW counter \in SummaryCounters, NEW n \in Nat
  PROVE  /\ Same(p, Summed(p, counter, n), {"summary"})
         /\ Summed(p, counter, n).summary \in [SummaryCounters -> Nat]
         /\ \A d \in SummaryCounters : Summed(p, counter, n).summary[d] = IF d = counter THEN p.summary[d] + n ELSE p.summary[d]
<1> DEFINE summary == [p.summary EXCEPT ![counter] = p.summary[counter] + n]
           k == [p EXCEPT !.summary = summary]
<1>1. Summed(p, counter, n) = k
  BY DEF Summed
<1>2. summary \in [SummaryCounters -> Nat] /\ \A d \in SummaryCounters : summary[d] = IF d = counter THEN p.summary[d] + n ELSE p.summary[d]
  OBVIOUS
<1> HIDE DEF summary
<1>3. k.summary = summary /\ DOMAIN k = PassFields /\ \A f \in PassFields \ {"summary"} : k[f] = p[f]
  BY DEF PassFields
<1> QED
  BY <1>1, <1>2, <1>3 DEF Same

\* A task is queued behind the others and counted.
LEMMA PushedTask ==
  ASSUME NEW p, DOMAIN p = PassFields, p.loop \in [LoopCounters -> Nat], IsList(p.tasks), NEW task
  PROVE  /\ Same(p, PushTask(p, task), {"tasks", "loop"})
         /\ PushTask(p, task).tasks = Append(p.tasks, task)
         /\ PushTask(p, task).loop \in [LoopCounters -> Nat]
         /\ \A d \in LoopCounters : PushTask(p, task).loop[d] = IF d = "tasksQueued" THEN p.loop[d] + 1 ELSE p.loop[d]
<1> DEFINE longer == Append(p.tasks, task)
           k == [p EXCEPT !.tasks = longer]
<1>1. PushTask(p, task) = Looped(k, "tasksQueued", 1)
  BY DEF PushTask
<1> HIDE DEF longer
<1>2. k.tasks = longer /\ DOMAIN k = PassFields /\ \A f \in PassFields \ {"tasks"} : k[f] = p[f]
  BY DEF PassFields
<1> HIDE DEF k
<1>3. k.loop = p.loop /\ "tasksQueued" \in LoopCounters /\ "tasks" \in PassFields \ {"loop"}
  BY <1>2 DEF PassFields, LoopCounters
<1>4. /\ Same(k, Looped(k, "tasksQueued", 1), {"loop"})
      /\ Looped(k, "tasksQueued", 1).loop \in [LoopCounters -> Nat]
      /\ \A d \in LoopCounters : Looped(k, "tasksQueued", 1).loop[d] = IF d = "tasksQueued" THEN k.loop[d] + 1 ELSE k.loop[d]
  BY <1>2, <1>3, LoopedOnce
<1>5. Looped(k, "tasksQueued", 1).tasks = longer
  BY <1>2, <1>3, <1>4 DEF Same
<1> QED
  BY <1>1, <1>2, <1>3, <1>4, <1>5 DEF Same, longer

\* A microtask is queued and counted.
LEMMA PushedMicrotask ==
  ASSUME NEW p, DOMAIN p = PassFields, p.loop \in [LoopCounters -> Nat], IsList(p.microtasks)
  PROVE  /\ Same(p, PushMicrotask(p), {"microtasks", "loop"})
         /\ IsList(PushMicrotask(p).microtasks) /\ Len(PushMicrotask(p).microtasks) = Len(p.microtasks) + 1
         /\ PushMicrotask(p).loop \in [LoopCounters -> Nat]
         /\ \A d \in LoopCounters : PushMicrotask(p).loop[d] = IF d = "microtasksQueued" THEN p.loop[d] + 1 ELSE p.loop[d]
<1> DEFINE longer == Append(p.microtasks, "listener registration checkpoint")
           k == [p EXCEPT !.microtasks = longer]
<1>1. PushMicrotask(p) = Looped(k, "microtasksQueued", 1)
  BY DEF PushMicrotask
<1>2. IsList(longer) /\ Len(longer) = Len(p.microtasks) + 1
  BY AppendList
<1> HIDE DEF longer
<1>3. k.microtasks = longer /\ DOMAIN k = PassFields /\ \A f \in PassFields \ {"microtasks"} : k[f] = p[f]
  BY DEF PassFields
<1> HIDE DEF k
<1>4. k.loop = p.loop /\ "microtasksQueued" \in LoopCounters /\ "microtasks" \in PassFields \ {"loop"}
  BY <1>3 DEF PassFields, LoopCounters
<1>5. /\ Same(k, Looped(k, "microtasksQueued", 1), {"loop"})
      /\ Looped(k, "microtasksQueued", 1).loop \in [LoopCounters -> Nat]
      /\ \A d \in LoopCounters : Looped(k, "microtasksQueued", 1).loop[d] = IF d = "microtasksQueued" THEN k.loop[d] + 1 ELSE k.loop[d]
  BY <1>3, <1>4, LoopedOnce
<1>6. Looped(k, "microtasksQueued", 1).microtasks = longer
  BY <1>3, <1>4, <1>5 DEF Same
<1> QED
  BY <1>1, <1>2, <1>3, <1>4, <1>5, <1>6 DEF Same

\* An effect that is queued comes to what it does to the page.
LEMMA PushedEffect ==
  ASSUME NEW p, NEW final, IsDocument(final), ComesTo(p, final), NEW effect
  PROVE  /\ Same(p, PushEffect(p, effect), {"tasks", "microtasks", "loop"})
         /\ ComesTo(PushEffect(p, effect), ApplyDomEffect(final, effect).document)
<1> DEFINE task == PageTask("ApplyDomEffect", effect)
           q == PushTask(p, task)
           k == PushEffect(p, effect)
           done == ApplyDomEffect(final, effect).document
           listens == IF effect.kind = "RegisterEventListener" THEN 1 ELSE 0
           more == IF effect.kind = "DispatchEvent" THEN 1 ELSE 0
<1>1. /\ DOMAIN p = PassFields /\ p.loop \in [LoopCounters -> Nat] /\ IsList(p.tasks) /\ IsList(p.microtasks)
      /\ Len(p.tasks) \in Nat /\ Len(p.microtasks) \in Nat
  BY ListFacts DEF ComesTo, Queued
<1>2. /\ Same(p, q, {"tasks", "loop"}) /\ q.tasks = Append(p.tasks, task) /\ q.loop \in [LoopCounters -> Nat]
      /\ \A d \in LoopCounters : q.loop[d] = IF d = "tasksQueued" THEN p.loop[d] + 1 ELSE p.loop[d]
  <2> HIDE DEF task
  <2> QED
    BY <1>1, PushedTask
<1>3. k = CASE effect.kind = "RegisterEventListener" -> Looped(PushMicrotask(q), "listeners", 1)
            [] effect.kind = "DispatchEvent" -> Looped(q, "dispatched", 1)
            [] OTHER -> q
  BY DEF PushEffect
<1>4. task.kind = "ApplyDomEffect" /\ task.effect = effect
  BY DEF PageTask
<1> HIDE DEF q, k, task
<1>5. DOMAIN q = PassFields /\ q.microtasks = p.microtasks
  BY <1>2 DEF Same, PassFields
<1>6. /\ Same(p, k, {"tasks", "microtasks", "loop"}) /\ k.tasks = Append(p.tasks, task)
      /\ IsList(k.microtasks) /\ Len(k.microtasks) = Len(p.microtasks) + listens
      /\ k.loop \in [LoopCounters -> Nat]
      /\ \A d \in LoopCounters : k.loop[d] = CASE d = "tasksQueued" -> p.loop[d] + 1
                                               [] d \in {"microtasksQueued", "listeners"} -> p.loop[d] + listens
                                               [] d = "dispatched" -> p.loop[d] + more
                                               [] OTHER -> p.loop[d]
  <2>1. CASE effect.kind = "RegisterEventListener"
    <3> DEFINE m == PushMicrotask(q)
    <3>1. /\ Same(q, m, {"microtasks", "loop"}) /\ IsList(m.microtasks) /\ Len(m.microtasks) = Len(p.microtasks) + 1
          /\ m.loop \in [LoopCounters -> Nat]
          /\ \A d \in LoopCounters : m.loop[d] = IF d = "microtasksQueued" THEN q.loop[d] + 1 ELSE q.loop[d]
      BY <1>1, <1>2, <1>5, PushedMicrotask
    <3> HIDE DEF m
    <3>2. DOMAIN m = PassFields /\ "listeners" \in LoopCounters /\ m.loop \in [LoopCounters -> Nat]
      BY <3>1 DEF Same, LoopCounters
    <3>3. /\ Same(m, Looped(m, "listeners", 1), {"loop"}) /\ Looped(m, "listeners", 1).loop \in [LoopCounters -> Nat]
          /\ \A d \in LoopCounters : Looped(m, "listeners", 1).loop[d] = IF d = "listeners" THEN m.loop[d] + 1 ELSE m.loop[d]
      BY <3>2, LoopedOnce
    <3>4. k = Looped(m, "listeners", 1) /\ listens = 1 /\ more = 0
      BY <1>3, <2>1 DEF m
    <3>5. Same(p, k, {"tasks", "microtasks", "loop"}) /\ k.tasks = q.tasks /\ k.microtasks = m.microtasks
      BY <1>2, <3>1, <3>3, <3>4 DEF Same, PassFields
    <3>6. \A d \in LoopCounters : k.loop[d] = CASE d = "tasksQueued" -> p.loop[d] + 1
                                               [] d \in {"microtasksQueued", "listeners"} -> p.loop[d] + 1
                                               [] d = "dispatched" -> p.loop[d] + 0
                                               [] OTHER -> p.loop[d]
      BY <1>1, <1>2, <3>1, <3>3, <3>4
    <3> QED
      BY <1>2, <3>1, <3>3, <3>4, <3>5, <3>6
  <2>2. CASE effect.kind = "DispatchEvent"
    <3>1. "dispatched" \in LoopCounters
      BY DEF LoopCounters
    <3>2. /\ Same(q, Looped(q, "dispatched", 1), {"loop"}) /\ Looped(q, "dispatched", 1).loop \in [LoopCounters -> Nat]
          /\ \A d \in LoopCounters : Looped(q, "dispatched", 1).loop[d] = IF d = "dispatched" THEN q.loop[d] + 1 ELSE q.loop[d]
      BY <1>2, <1>5, <3>1, LoopedOnce
    <3>3. k = Looped(q, "dispatched", 1) /\ listens = 0 /\ more = 1
      BY <1>3, <2>2
    <3>4. Same(p, k, {"tasks", "microtasks", "loop"}) /\ k.tasks = q.tasks /\ k.microtasks = p.microtasks
      BY <1>2, <1>5, <3>2, <3>3 DEF Same, PassFields
    <3>5. \A d \in LoopCounters : k.loop[d] = CASE d = "tasksQueued" -> p.loop[d] + 1
                                               [] d \in {"microtasksQueued", "listeners"} -> p.loop[d] + 0
                                               [] d = "dispatched" -> p.loop[d] + 1
                                               [] OTHER -> p.loop[d]
      BY <1>1, <1>2, <3>2, <3>3
    <3>6. IsList(k.microtasks) /\ Len(k.microtasks) = Len(p.microtasks) + 0 /\ k.tasks = Append(p.tasks, task)
          /\ k.loop \in [LoopCounters -> Nat]
      BY <1>1, <1>2, <3>2, <3>3, <3>4
    <3> QED
      BY <3>3, <3>4, <3>5, <3>6
  <2>3. CASE effect.kind \notin {"RegisterEventListener", "DispatchEvent"}
    <3>1. k = q /\ listens = 0 /\ more = 0
      BY <1>3, <2>3
    <3>2. Same(p, k, {"tasks", "microtasks", "loop"})
      BY <1>2, <3>1 DEF Same
    <3>3. \A d \in LoopCounters : k.loop[d] = CASE d = "tasksQueued" -> p.loop[d] + 1
                                               [] d \in {"microtasksQueued", "listeners"} -> p.loop[d] + 0
                                               [] d = "dispatched" -> p.loop[d] + 0
                                               [] OTHER -> p.loop[d]
      BY <1>1, <1>2, <3>1
    <3>4. IsList(k.microtasks) /\ Len(k.microtasks) = Len(p.microtasks) + 0 /\ k.tasks = Append(p.tasks, task)
          /\ k.loop \in [LoopCounters -> Nat]
      BY <1>1, <1>2, <1>5, <3>1
    <3> QED
      BY <3>1, <3>2, <3>3, <3>4
  <2> QED
    BY <2>1, <2>2, <2>3
<1>7. listens \in 0 .. 1 /\ more \in 0 .. 1 /\ more = Doubles(task) /\ Waits(task) = more
  BY <1>4 DEF Waits, Doubles
<1>8. Shown(task, final) = done
  BY <1>4, EffectKeepsDocument DEF Shown, Waits
<1> HIDE DEF listens, more, done
<1>9. Ledger(k.tasks, p.document, Balance(p) + more, p.loop["dispatched"] + more, done)
  BY <1>1, <1>6, <1>7, <1>8, LedgerAppended DEF ComesTo
<1>10. k.document = p.document /\ k.runtime = p.runtime /\ DOMAIN k = PassFields
  BY <1>6 DEF Same, PassFields
<1>11. /\ k.loop["tasksQueued"] = p.loop["tasksQueued"] + 1 /\ k.loop["tasksRun"] = p.loop["tasksRun"]
       /\ k.loop["microtasksQueued"] = p.loop["microtasksQueued"] + listens /\ k.loop["microtasksRun"] = p.loop["microtasksRun"]
       /\ k.loop["listeners"] = p.loop["listeners"] + listens /\ k.loop["dispatched"] = p.loop["dispatched"] + more
       /\ k.loop["mutations"] = p.loop["mutations"] /\ k.loop["ignored"] = p.loop["ignored"]
  BY <1>6 DEF LoopCounters
<1>12. /\ p.runtime.executed \in Nat /\ \A d \in LoopCounters : p.loop[d] \in Nat
       /\ p.loop["tasksQueued"] = p.loop["tasksRun"] + Len(p.tasks)
       /\ p.loop["microtasksQueued"] = p.loop["microtasksRun"] + Len(p.microtasks)
       /\ p.loop["microtasksQueued"] = p.loop["listeners"]
  BY DEF ComesTo, Queued
<1>13. Balance(k) = Balance(p) + more
  <2>1. p.loop["mutations"] \in Nat /\ p.loop["ignored"] \in Nat /\ p.loop["dispatched"] \in Nat /\ p.loop["tasksRun"] \in Nat
    BY <1>12 DEF LoopCounters
  <2>2. more \in Nat /\ p.runtime.executed \in Nat
    BY <1>7, <1>12
  <2>3. Balance(k) = p.runtime.executed + p.loop["mutations"] + p.loop["ignored"] + (p.loop["dispatched"] + more) - p.loop["tasksRun"]
    BY <1>10, <1>11 DEF Balance
  <2> QED
    BY <2>1, <2>2, <2>3 DEF Balance
<1>14. Queued(k)
  <2>1. IsList(k.tasks) /\ Len(k.tasks) = Len(p.tasks) + 1
    BY <1>1, <1>6, AppendList
  <2>2. p.loop["tasksRun"] \in Nat /\ p.loop["microtasksRun"] \in Nat
    BY <1>12 DEF LoopCounters
  <2>3. k.loop["tasksQueued"] = k.loop["tasksRun"] + Len(k.tasks)
    <3>1. p.loop["tasksQueued"] = p.loop["tasksRun"] + Len(p.tasks) /\ Len(p.tasks) \in Nat
      BY <1>1, <1>12
    <3>2. k.loop["tasksQueued"] = p.loop["tasksQueued"] + 1 /\ k.loop["tasksRun"] = p.loop["tasksRun"]
      BY <1>11
    <3> QED
      BY <2>1, <2>2, <3>1, <3>2
  <2>4. /\ k.loop["microtasksQueued"] = k.loop["microtasksRun"] + Len(k.microtasks)
        /\ k.loop["microtasksQueued"] = k.loop["listeners"]
    BY SMTT(30), <1>1, <1>6, <1>7, <1>11, <1>12, <2>2
  <2> QED
    BY <1>6, <1>10, <1>12, <2>1, <2>3, <2>4 DEF Queued
<1>15. ComesTo(k, done)
  BY <1>9, <1>10, <1>11, <1>13, <1>14 DEF ComesTo
<1> QED
  BY <1>6, <1>15 DEF k, done

\* A balance with one more script.
LEMMA OneOnTop ==
  ASSUME NEW a \in Nat, NEW b \in Nat, NEW c \in Nat, NEW d \in Nat, NEW e \in Nat
  PROVE  (a + 1) + b + c + d - e = (a + b + c + d - e) + 1
OBVIOUS

\* The effects of a script are queued one behind the other, and come to
\* what they do one after the other.
LEMMA ScriptQueued ==
  ASSUME NEW p, NEW final, IsDocument(final), ComesTo(p, final), NEW source \in Seq(Statement)
  PROVE  /\ Same(p, AfterScript(p, source), {"tasks", "microtasks", "loop"})
         /\ ComesTo(AfterScript(p, source), AppliedAll(final, CaptureDomEffects(source)))
<1> DEFINE effects == CaptureDomEffects(source)
           n == Len(effects)
           f == CHOOSE g : g = [i \in 0 .. n |-> IF i = 0 THEN p ELSE PushEffect(g[i - 1], effects[i])]
           turns == [k \in 1 .. n |-> [what |-> "push", of |-> effects[k]]]
           queues == {"tasks", "microtasks", "loop"}
<1>1. IsList(effects)
  BY CapturedAreList
<1>2. AfterScript(p, source) = f[n]
  BY DEF AfterScript
<1> HIDE DEF effects
<1>3. n \in Nat
  BY <1>1, ListFacts
<1>4. PICK g : TurnsTaken(p, turns, n, g)
  BY <1>3, TurnsExist
<1>5. \A k \in 1 .. n : \A s : TakeTurn(s, turns[k]) = PushEffect(s, effects[k])
  BY DEF TakeTurn
<1>6. \A k \in 0 .. n : k # 0 => k \in 1 .. n
  BY <1>3
<1> HIDE DEF turns, f
<1>7. g = [i \in 0 .. n |-> IF i = 0 THEN p ELSE PushEffect(g[i - 1], effects[i])]
  BY <1>4, <1>5, <1>6 DEF TurnsTaken
<1>8. f = [i \in 0 .. n |-> IF i = 0 THEN p ELSE PushEffect(f[i - 1], effects[i])]
  BY <1>7 DEF f
<1>9. PICK docs : /\ docs[0] = final /\ AppliedAll(final, effects) = docs[n]
                  /\ \A i \in 1 .. n : docs[i] = ApplyDomEffect(docs[i - 1], effects[i]).document
  BY <1>1, EffectsInTurn
<1> HIDE DEF n
<1>10. f[0] = p /\ \A i \in 1 .. n : f[i] = PushEffect(f[i - 1], effects[i])
  <2>1. 0 \in 0 .. n /\ \A i \in 1 .. n : i \in 0 .. n /\ i # 0
    BY <1>3
  <2>2. \A i \in 0 .. n : f[i] = IF i = 0 THEN p ELSE PushEffect(f[i - 1], effects[i])
    BY <1>8, Zenon
  <2> QED
    BY <2>1, <2>2
<1> HIDE DEF queues
<1> DEFINE S == {k \in 0 .. n : Same(p, f[k], queues) /\ ComesTo(f[k], docs[k]) /\ IsDocument(docs[k])}
           start == 0
<1>11. start \in S /\ start \in Nat /\ n \in start .. n
  <2>1. Same(p, p, queues)
    BY DEF Same, ComesTo, Queued
  <2> QED
    BY <1>3, <1>9, <1>10, <2>1
<1>12. ASSUME NEW k \in start .. n - 1, k \in S PROVE k + 1 \in S
  <2>1. /\ k + 1 \in 1 .. n /\ k + 1 \in 0 .. n /\ (k + 1) - 1 = k
        /\ Same(p, f[k], queues) /\ ComesTo(f[k], docs[k]) /\ IsDocument(docs[k])
    BY <1>3, <1>12
  <2>2. f[k + 1] = PushEffect(f[k], effects[k + 1]) /\ docs[k + 1] = ApplyDomEffect(docs[k], effects[k + 1]).document
    BY <1>9, <1>10, <2>1
  <2>3. Same(f[k], f[k + 1], queues) /\ ComesTo(f[k + 1], docs[k + 1])
    BY <2>1, <2>2, PushedEffect DEF queues
  <2>4. IsDocument(docs[k + 1])
    BY <2>1, <2>2, EffectKeepsDocument
  <2>5. Same(p, f[k + 1], queues)
    BY <2>1, <2>3 DEF Same
  <2> QED
    BY <2>1, <2>3, <2>4, <2>5
<1> HIDE DEF S, start
<1>13. start .. n \subseteq S
  BY <1>3, <1>11, <1>12, CountingUp
<1>14. n \in S
  BY <1>11, <1>13
<1>15. Same(p, f[n], queues) /\ ComesTo(f[n], docs[n])
  BY <1>14 DEF S
<1> QED
  BY <1>2, <1>9, <1>15 DEF n, queues, effects

\* A script that is run: its task and those of its effects are queued, and
\* the page comes to what it is with one script more.
LEMMA ExecutedIs ==
  ASSUME NEW p, IsList(p.ran), ComesTo(p, AppliedInOrder(p.first, p.ran)), IsDocument(AppliedInOrder(p.first, p.ran)),
         HostIsSound(p.worker), p.summary \in [SummaryCounters -> Nat],
         NEW source \in Seq(Statement), NEW kind \in {"inline", "external"}, NEW k \in Executed(p, source, kind)
  PROVE  /\ Same(p, k, {"tasks", "microtasks", "loop", "runtime", "ran", "at", "worker", "summary"})
         /\ k.at = "tasks" /\ IsList(k.ran) /\ HostIsSound(k.worker)
         /\ k.runtime.executed = p.runtime.executed + 1
         /\ k.summary \in [SummaryCounters -> Nat]
         /\ \A d \in SummaryCounters : k.summary[d] = IF d = kind THEN p.summary[d] + 1 ELSE p.summary[d]
         /\ ComesTo(k, AppliedInOrder(k.first, k.ran)) /\ IsDocument(AppliedInOrder(k.first, k.ran))
<1> DEFINE task == PageTask("Script", NoEffect)
           queued == PushTask(p, task)
           clean == StripJsComments(source)
           read == [queued EXCEPT !.runtime = RuntimeAfter(@, clean), !.ran = Append(@, clean), !.at = "tasks"]
           before == AppliedInOrder(p.first, p.ran)
           final == AppliedAll(before, CaptureDomEffects(clean))
<1>1. PICK worker \in AfterWorkerEffects(p.worker, source) :
        k = Summed(AfterScript([read EXCEPT !.worker = worker], clean), kind, 1)
  BY DEF Executed
<1> DEFINE ready == [read EXCEPT !.worker = worker]
           after == AfterScript(ready, clean)
<1>2. clean \in Seq(Statement) /\ HostIsSound(worker)
  BY <1>1, ScansAreLists, WorkersStaySound
<1>3. /\ DOMAIN p = PassFields /\ p.loop \in [LoopCounters -> Nat] /\ IsList(p.tasks) /\ IsList(p.microtasks)
      /\ p.runtime.executed \in Nat /\ Len(p.tasks) \in Nat /\ Len(p.microtasks) \in Nat
      /\ p.loop["tasksQueued"] = p.loop["tasksRun"] + Len(p.tasks)
      /\ p.loop["microtasksQueued"] = p.loop["microtasksRun"] + Len(p.microtasks)
      /\ p.loop["microtasksQueued"] = p.loop["listeners"]
      /\ Ledger(p.tasks, p.document, Balance(p), p.loop["dispatched"], before)
  BY ListFacts DEF ComesTo, Queued
<1>4. /\ Same(p, queued, {"tasks", "loop"}) /\ queued.tasks = Append(p.tasks, task)
      /\ queued.loop \in [LoopCounters -> Nat]
      /\ \A d \in LoopCounters : queued.loop[d] = IF d = "tasksQueued" THEN p.loop[d] + 1 ELSE p.loop[d]
  <2> HIDE DEF task
  <2> QED
    BY <1>3, PushedTask
<1>5. task.kind = "Script"
  BY DEF PageTask
<1> HIDE DEF queued, clean, task, before
<1> DEFINE runtime == RuntimeAfter(queued.runtime, clean)
           ran == Append(queued.ran, clean)
<1>6. queued.runtime = p.runtime /\ queued.ran = p.ran /\ DOMAIN queued = PassFields
  BY <1>4 DEF Same, PassFields
<1>7. runtime.executed = p.runtime.executed + 1 /\ IsList(ran)
  BY <1>6, AppendList DEF RuntimeAfter
<1> HIDE DEF runtime, ran
<1>8. read = [queued EXCEPT !.runtime = runtime, !.ran = ran, !.at = "tasks"]
  BY DEF runtime, ran
<1>9. /\ DOMAIN ready = PassFields /\ ready.runtime = runtime /\ ready.ran = ran /\ ready.at = "tasks" /\ ready.worker = worker
      /\ \A f \in PassFields \ {"runtime", "ran", "at", "worker"} : ready[f] = queued[f]
  BY <1>6, <1>8 DEF PassFields
<1> HIDE DEF read, ready
<1>10. /\ ready.tasks = Append(p.tasks, task) /\ ready.loop = queued.loop /\ ready.microtasks = p.microtasks
       /\ ready.document = p.document /\ ready.first = p.first /\ ready.summary = p.summary
  BY <1>4, <1>9 DEF Same, PassFields
<1>11. Same(p, ready, {"tasks", "loop", "runtime", "ran", "at", "worker"})
  BY <1>4, <1>9 DEF Same
<1>12. ComesTo(ready, before)
  <2>1. Waits(task) = 1 /\ Doubles(task) = 0 /\ Shown(task, before) = before
    BY <1>5 DEF Waits, Doubles, Shown
  <2>2. \A d \in LoopCounters : p.loop[d] \in Nat
    BY <1>3
  <2>3. Ledger(ready.tasks, ready.document, Balance(p) + 1, p.loop["dispatched"] + 0, before)
    BY <1>3, <1>10, <2>1, LedgerAppended
  <2>4. /\ ready.loop["tasksQueued"] = p.loop["tasksQueued"] + 1 /\ ready.loop["tasksRun"] = p.loop["tasksRun"]
        /\ ready.loop["microtasksQueued"] = p.loop["microtasksQueued"] /\ ready.loop["microtasksRun"] = p.loop["microtasksRun"]
        /\ ready.loop["listeners"] = p.loop["listeners"] /\ ready.loop["dispatched"] = p.loop["dispatched"]
        /\ ready.loop["mutations"] = p.loop["mutations"] /\ ready.loop["ignored"] = p.loop["ignored"]
    BY <1>4, <1>10 DEF LoopCounters
  <2>5. /\ p.loop["mutations"] \in Nat /\ p.loop["ignored"] \in Nat /\ p.loop["dispatched"] \in Nat
        /\ p.loop["tasksRun"] \in Nat /\ p.loop["microtasksRun"] \in Nat
    BY <2>2 DEF LoopCounters
  <2>6. Balance(ready) = Balance(p) + 1
    <3>1. Balance(ready) = (p.runtime.executed + 1) + p.loop["mutations"] + p.loop["ignored"] + p.loop["dispatched"] - p.loop["tasksRun"]
      BY <1>7, <1>9, <2>4 DEF Balance
    <3>2. p.runtime.executed \in Nat
      BY <1>3
    <3>3. p.loop["mutations"] \in Nat /\ p.loop["ignored"] \in Nat /\ p.loop["dispatched"] \in Nat /\ p.loop["tasksRun"] \in Nat
      BY <2>5
    <3> DEFINE a == p.runtime.executed
               b == p.loop["mutations"]
               c == p.loop["ignored"]
               d == p.loop["dispatched"]
               e == p.loop["tasksRun"]
    <3>4. Balance(p) = a + b + c + d - e
      BY DEF Balance
    <3>5. a \in Nat /\ b \in Nat /\ c \in Nat /\ d \in Nat /\ e \in Nat /\ Balance(ready) = (a + 1) + b + c + d - e
      BY <3>1, <3>2, <3>3
    <3> HIDE DEF a, b, c, d, e
    <3> QED
      BY <3>4, <3>5, OneOnTop
  <2>7. IsList(ready.tasks) /\ Len(ready.tasks) = Len(p.tasks) + 1
    BY <1>3, <1>10, AppendList
  <2>8. ready.loop["tasksQueued"] = ready.loop["tasksRun"] + Len(ready.tasks)
    <3>1. p.loop["tasksQueued"] = p.loop["tasksRun"] + Len(p.tasks) /\ Len(p.tasks) \in Nat
      BY <1>3
    <3>2. ready.loop["tasksQueued"] = p.loop["tasksQueued"] + 1 /\ ready.loop["tasksRun"] = p.loop["tasksRun"]
      BY <2>4
    <3>3. p.loop["tasksRun"] \in Nat /\ Len(ready.tasks) = Len(p.tasks) + 1
      BY <2>5, <2>7
    <3> QED
      BY <3>1, <3>2, <3>3
  <2>9. Queued(ready)
    <3>1. ready.runtime.executed \in Nat
      BY <1>3, <1>7, <1>9
    <3>2. ready.loop \in [LoopCounters -> Nat] /\ IsList(ready.microtasks)
      BY <1>3, <1>4, <1>10
    <3>3. /\ ready.loop["microtasksQueued"] = ready.loop["microtasksRun"] + Len(ready.microtasks)
          /\ ready.loop["microtasksQueued"] = ready.loop["listeners"]
      BY <1>3, <1>10, <2>4
    <3> QED
      BY <1>9, <2>7, <2>8, <3>1, <3>2, <3>3 DEF Queued
  <2>10. ready.loop["dispatched"] = p.loop["dispatched"] + 0
    BY <2>4, <2>5
  <2> QED
    BY <2>3, <2>6, <2>9, <2>10 DEF ComesTo
<1>13. IsDocument(before)
  BY DEF before
<1>14. Same(ready, after, {"tasks", "microtasks", "loop"}) /\ ComesTo(after, final)
  BY <1>2, <1>12, <1>13, ScriptQueued
<1>15. IsDocument(final)
  BY <1>2, <1>13, CapturedAreList, EffectsKeepDocument
<1>16. final = AppliedInOrder(p.first, ran)
  BY <1>6, OneScriptMore DEF ran, before
<1> HIDE DEF after, final
<1>17. /\ DOMAIN after = PassFields /\ after.summary = p.summary /\ after.ran = ran /\ after.first = p.first
       /\ after.runtime = runtime /\ after.at = "tasks" /\ after.worker = worker
  BY <1>9, <1>10, <1>14 DEF Same, PassFields
<1>18. kind \in SummaryCounters
  BY DEF SummaryCounters
<1>19. /\ Same(after, k, {"summary"}) /\ k.summary \in [SummaryCounters -> Nat]
       /\ \A d \in SummaryCounters : k.summary[d] = IF d = kind THEN p.summary[d] + 1 ELSE p.summary[d]
  <2>1. k = Summed(after, kind, 1)
    BY <1>1 DEF after, ready, read, runtime, ran, queued, task, clean
  <2>2. after.summary \in [SummaryCounters -> Nat]
    BY <1>17
  <2>3. /\ Same(after, Summed(after, kind, 1), {"summary"}) /\ Summed(after, kind, 1).summary \in [SummaryCounters -> Nat]
        /\ \A d \in SummaryCounters : Summed(after, kind, 1).summary[d] = IF d = kind THEN after.summary[d] + 1 ELSE after.summary[d]
    <3>1. DOMAIN after = PassFields
      BY <1>17
    <3> QED
      BY <1>18, <2>2, <3>1, SummedIs
  <2> QED
    BY <1>17, <2>1, <2>3
<1>20. /\ DOMAIN k = PassFields /\ k.ran = ran /\ k.first = p.first /\ k.runtime = runtime /\ k.at = "tasks" /\ k.worker = worker
       /\ k.tasks = after.tasks /\ k.microtasks = after.microtasks /\ k.loop = after.loop /\ k.document = after.document
  BY <1>17, <1>19 DEF Same, PassFields
<1>21. ComesTo(k, final)
  BY <1>14, <1>17, <1>20 DEF ComesTo, Queued, Balance
<1>22. Same(p, k, {"tasks", "microtasks", "loop", "runtime", "ran", "at", "worker", "summary"})
  BY <1>11, <1>14, <1>19 DEF Same
<1> QED
  BY <1>2, <1>7, <1>15, <1>16, <1>19, <1>20, <1>21, <1>22

\* A balance when a task is run.
LEMMA BalanceMoves ==
  ASSUME NEW a \in Nat, NEW b \in Nat, NEW c \in Nat, NEW d \in Nat, NEW e \in Nat
  PROVE  /\ a + b + c + d - e \in Int
         /\ a + b + c + d - (e + 1) = (a + b + c + d - e) - 1
         /\ a + b + c + (d + 1) - (e + 1) = a + b + c + d - e
         /\ a + (b + 1) + c + d - (e + 1) = a + b + c + d - e
         /\ a + b + (c + 1) + d - (e + 1) = a + b + c + d - e
OBVIOUS

\* The first task is taken.
Popped(p) == Looped([p EXCEPT !.tasks = Tail(@)], "tasksRun", 1)

\* The first task is run.
TaskRun(p) ==
  LET task == Head(p.tasks)
      done == ApplyDomEffect(p.document, task.effect) IN
  CASE task.kind /= "ApplyDomEffect" -> Popped(p)
    [] task.kind = "ApplyDomEffect" /\ task.effect.kind = "DispatchEvent" ->
         Looped(PushTask(Popped(p), PageTask("DispatchEvent", task.effect)), "dispatched", 1)
    [] OTHER -> Looped([Popped(p) EXCEPT !.document = done.document], IF done.changed THEN "mutations" ELSE "ignored", 1)

\* There are tasks to run.
TasksWait(p) == p.tasks # <<>>

\* The first task is run: the page comes to what it came to.
LEMMA TaskRunsOn ==
  ASSUME NEW p, NEW final, ComesTo(p, final), IsDocument(p.document), TasksWait(p)
  PROVE  /\ Same(p, TaskRun(p), {"tasks", "loop", "document"})
         /\ ComesTo(TaskRun(p), final) /\ IsDocument(TaskRun(p).document)
<1> DEFINE task == Head(p.tasks)
           popped == Popped(p)
           done == ApplyDomEffect(p.document, task.effect)
           k == TaskRun(p)
<1>0. /\ task.kind # "ApplyDomEffect" => k = popped
      /\ task.kind = "ApplyDomEffect" /\ task.effect.kind = "DispatchEvent" =>
           k = Looped(PushTask(popped, PageTask("DispatchEvent", task.effect)), "dispatched", 1)
      /\ task.kind = "ApplyDomEffect" /\ task.effect.kind # "DispatchEvent" =>
           k = Looped([popped EXCEPT !.document = done.document], IF done.changed THEN "mutations" ELSE "ignored", 1)
  <2> DEFINE event == Looped(PushTask(popped, PageTask("DispatchEvent", task.effect)), "dispatched", 1)
             other == Looped([popped EXCEPT !.document = done.document], IF done.changed THEN "mutations" ELSE "ignored", 1)
  <2>1. k = CASE task.kind /= "ApplyDomEffect" -> popped
              [] task.kind = "ApplyDomEffect" /\ task.effect.kind = "DispatchEvent" -> event
              [] OTHER -> other
    BY DEF TaskRun
  <2> HIDE DEF k, popped, event, other, task
  <2>2. /\ task.kind # "ApplyDomEffect" => k = popped
        /\ task.kind = "ApplyDomEffect" /\ task.effect.kind = "DispatchEvent" => k = event
        /\ task.kind = "ApplyDomEffect" /\ task.effect.kind # "DispatchEvent" => k = other
    BY <2>1
  <2> QED
    BY <2>2 DEF event, other
<1> HIDE DEF k
<1> DEFINE rest == Tail(p.tasks)
           shorter == [p EXCEPT !.tasks = rest]
<1>1. /\ DOMAIN p = PassFields /\ IsList(p.tasks) /\ IsList(p.microtasks) /\ p.loop \in [LoopCounters -> Nat]
      /\ p.runtime.executed \in Nat /\ Len(p.tasks) \in Nat
      /\ p.loop["tasksQueued"] = p.loop["tasksRun"] + Len(p.tasks)
      /\ p.loop["microtasksQueued"] = p.loop["microtasksRun"] + Len(p.microtasks)
      /\ p.loop["microtasksQueued"] = p.loop["listeners"]
      /\ Ledger(p.tasks, p.document, Balance(p), p.loop["dispatched"], final) /\ Len(p.tasks) > 0
  BY ListFacts DEF ComesTo, Queued, TasksWait
<1>2. IsList(rest) /\ Len(rest) = Len(p.tasks) - 1
  BY <1>1, TailList
<1>3. Ledger(rest, Shown(task, p.document), Balance(p) - Waits(task), p.loop["dispatched"] + Doubles(task), final)
  BY <1>1, LedgerPopped DEF task
<1> HIDE DEF rest
<1>4. DOMAIN shorter = PassFields /\ shorter.tasks = rest /\ \A f \in PassFields \ {"tasks"} : shorter[f] = p[f]
  BY <1>1 DEF PassFields
<1>5. popped = Looped(shorter, "tasksRun", 1)
  BY DEF rest, Popped
<1> HIDE DEF shorter, popped, task, done
<1>6. /\ DOMAIN popped = PassFields /\ popped.tasks = rest /\ popped.loop \in [LoopCounters -> Nat]
      /\ \A f \in PassFields \ {"tasks", "loop"} : popped[f] = p[f]
      /\ \A d \in LoopCounters : popped.loop[d] = IF d = "tasksRun" THEN p.loop[d] + 1 ELSE p.loop[d]
  <2>1. shorter.loop = p.loop /\ "tasksRun" \in LoopCounters /\ "tasks" \in PassFields \ {"loop"}
    BY <1>4 DEF PassFields, LoopCounters
  <2>2. shorter.loop \in [LoopCounters -> Nat]
    BY <1>1, <2>1
  <2> DEFINE q == Looped(shorter, "tasksRun", 1)
  <2>3. /\ Same(shorter, q, {"loop"}) /\ q.loop \in [LoopCounters -> Nat]
        /\ \A d \in LoopCounters : q.loop[d] = IF d = "tasksRun" THEN shorter.loop[d] + 1 ELSE shorter.loop[d]
    BY <1>4, <2>1, <2>2, LoopedOnce
  <2>4. q = popped
    BY <1>5
  <2> HIDE DEF q
  <2> QED
    BY <1>4, <2>1, <2>3, <2>4 DEF Same
<1>7. popped.microtasks = p.microtasks /\ popped.document = p.document /\ popped.runtime = p.runtime
  BY <1>6 DEF PassFields
<1> DEFINE a == p.runtime.executed
           b == p.loop["mutations"]
           c == p.loop["ignored"]
           d == p.loop["dispatched"]
           e == p.loop["tasksRun"]
<1>8. a \in Nat /\ b \in Nat /\ c \in Nat /\ d \in Nat /\ e \in Nat
  BY <1>1 DEF LoopCounters
<1>9. /\ popped.loop["tasksQueued"] = p.loop["tasksQueued"] /\ popped.loop["tasksRun"] = e + 1
      /\ popped.loop["microtasksQueued"] = p.loop["microtasksQueued"] /\ popped.loop["microtasksRun"] = p.loop["microtasksRun"]
      /\ popped.loop["listeners"] = p.loop["listeners"] /\ popped.loop["dispatched"] = d
      /\ popped.loop["mutations"] = b /\ popped.loop["ignored"] = c
  BY <1>6 DEF LoopCounters
<1>10. Queued(popped)
  <2>1. p.loop["tasksQueued"] = (e + 1) + (Len(p.tasks) - 1)
    <3> DEFINE n == Len(p.tasks)
    <3>1. p.loop["tasksQueued"] = e + n /\ n \in Nat
      BY <1>1
    <3> HIDE DEF a, b, c, d, e, n
    <3>2. p.loop["tasksQueued"] = (e + 1) + (n - 1)
      BY <1>8, <3>1
    <3> QED
      BY <3>2 DEF n
  <2> QED
    BY <1>1, <1>2, <1>6, <1>7, <1>9, <2>1 DEF Queued
<1>11. Balance(p) = a + b + c + d - e /\ Balance(popped) = a + b + c + d - (e + 1)
  BY <1>7, <1>9 DEF Balance
<1>12. Waits(task) \in 0 .. 1
  BY DEF Waits
<1> HIDE DEF a, b, c, d, e
<1>13. Balance(popped) = Balance(p) - 1 /\ Balance(p) \in Int
  BY <1>8, <1>11, BalanceMoves
<1>14. CASE task.kind # "ApplyDomEffect"
  <2>1. k = popped /\ Waits(task) = 1 /\ Doubles(task) = 0 /\ Shown(task, p.document) = p.document
    BY <1>0, <1>14 DEF Waits, Doubles, Shown
  <2>2. Ledger(rest, p.document, Balance(popped), d, final)
    BY <1>3, <1>8, <1>13, <2>1 DEF d
  <2> QED
    BY <1>6, <1>7, <1>9, <1>10, <2>1, <2>2 DEF Same, ComesTo, k
<1>15. CASE task.kind = "ApplyDomEffect" /\ task.effect.kind = "DispatchEvent"
  <2> DEFINE event == PageTask("DispatchEvent", task.effect)
             q == PushTask(popped, event)
  <2>1. Waits(task) = 1 /\ Doubles(task) = 1 /\ Shown(task, p.document) = p.document
    BY <1>15 DEF Waits, Doubles, Shown
  <2>2. event.kind = "DispatchEvent"
    BY DEF PageTask
  <2>3. k = Looped(q, "dispatched", 1)
    BY <1>0, <1>15
  <2> HIDE DEF event
  <2>4. Waits(event) = 1 /\ Doubles(event) = 0 /\ Shown(event, final) = final
    BY <2>2 DEF Waits, Doubles, Shown
  <2>5. /\ Same(popped, q, {"tasks", "loop"}) /\ q.tasks = Append(rest, event) /\ q.loop \in [LoopCounters -> Nat]
        /\ \A x \in LoopCounters : q.loop[x] = IF x = "tasksQueued" THEN popped.loop[x] + 1 ELSE popped.loop[x]
    BY <1>2, <1>6, PushedTask
  <2> HIDE DEF q
  <2>6. DOMAIN q = PassFields /\ "dispatched" \in LoopCounters
    BY <2>5 DEF Same, LoopCounters
  <2>7. /\ Same(q, Looped(q, "dispatched", 1), {"loop"}) /\ Looped(q, "dispatched", 1).loop \in [LoopCounters -> Nat]
        /\ \A x \in LoopCounters : Looped(q, "dispatched", 1).loop[x] = IF x = "dispatched" THEN q.loop[x] + 1 ELSE q.loop[x]
    BY <2>5, <2>6, LoopedOnce
  <2>8. Same(p, k, {"tasks", "loop"})
    BY <1>6, <2>3, <2>5, <2>7 DEF Same
  <2>9. /\ DOMAIN k = PassFields /\ k.tasks = Append(rest, event) /\ k.loop \in [LoopCounters -> Nat]
        /\ k.microtasks = p.microtasks /\ k.document = p.document /\ k.runtime = p.runtime
    BY <2>3, <2>5, <2>7, <2>8 DEF Same, PassFields
  <2>10. /\ k.loop["tasksQueued"] = p.loop["tasksQueued"] + 1 /\ k.loop["tasksRun"] = e + 1
         /\ k.loop["microtasksQueued"] = p.loop["microtasksQueued"] /\ k.loop["microtasksRun"] = p.loop["microtasksRun"]
         /\ k.loop["listeners"] = p.loop["listeners"] /\ k.loop["dispatched"] = d + 1
         /\ k.loop["mutations"] = b /\ k.loop["ignored"] = c
    BY <1>9, <2>3, <2>5, <2>7 DEF LoopCounters
  <2>11. Balance(k) = Balance(p)
    BY <1>8, <1>11, <2>9, <2>10, BalanceMoves DEF Balance, a
  <2>12. Ledger(k.tasks, p.document, Balance(p), d + 1, final)
    <3>1. Ledger(rest, p.document, Balance(p) - 1, d + 1, final)
      BY <1>3, <2>1 DEF d
    <3>2. 0 \in 0 .. 1
      OBVIOUS
    <3>3. Ledger(Append(rest, event), p.document, (Balance(p) - 1) + Waits(event), (d + 1) + 0, Shown(event, final))
      BY <1>2, <2>4, <3>1, <3>2, LedgerAppended
    <3>4. (Balance(p) - 1) + 1 = Balance(p) /\ (d + 1) + 0 = d + 1
      BY <1>8, <1>13
    <3> QED
      BY <2>4, <2>9, <3>3, <3>4
  <2>13. Queued(k)
    <3>1. IsList(k.tasks) /\ Len(k.tasks) = Len(p.tasks) - 1 + 1
      BY <1>2, <2>9, AppendList
    <3>2. p.loop["tasksQueued"] + 1 = (e + 1) + (Len(p.tasks) - 1 + 1)
      <4> DEFINE n == Len(p.tasks)
      <4>1. p.loop["tasksQueued"] = e + n /\ n \in Nat
        BY <1>1 DEF e
      <4> HIDE DEF n
      <4>2. p.loop["tasksQueued"] + 1 = (e + 1) + (n - 1 + 1)
        BY <1>8, <4>1
      <4> QED
        BY <4>2 DEF n
    <3> QED
      BY <1>1, <2>9, <2>10, <3>1, <3>2 DEF Queued
  <2> QED
    BY <2>8, <2>9, <2>10, <2>11, <2>12, <2>13 DEF Same, ComesTo, k
<1>16. CASE task.kind = "ApplyDomEffect" /\ task.effect.kind # "DispatchEvent"
  <2> DEFINE counter == IF done.changed THEN "mutations" ELSE "ignored"
             q == [popped EXCEPT !.document = done.document]
  <2>1. Waits(task) = 0 /\ Doubles(task) = 0 /\ Shown(task, p.document) = done.document
    BY <1>16 DEF Waits, Doubles, Shown, done
  <2>2. k = Looped(q, counter, 1)
    BY <1>0, <1>16
  <2>3. counter \in {"mutations", "ignored"} /\ counter \in LoopCounters
    BY DEF LoopCounters
  <2> HIDE DEF counter
  <2>4. DOMAIN q = PassFields /\ q.document = done.document /\ \A f \in PassFields \ {"document"} : q[f] = popped[f]
    BY <1>6 DEF PassFields
  <2> HIDE DEF q
  <2>5. q.loop = popped.loop /\ q.loop \in [LoopCounters -> Nat]
    BY <1>6, <2>4 DEF PassFields
  <2>6. /\ Same(q, Looped(q, counter, 1), {"loop"}) /\ Looped(q, counter, 1).loop \in [LoopCounters -> Nat]
        /\ \A x \in LoopCounters : Looped(q, counter, 1).loop[x] = IF x = counter THEN q.loop[x] + 1 ELSE q.loop[x]
    BY <2>3, <2>4, <2>5, LoopedOnce
  <2>7. Same(p, k, {"tasks", "loop", "document"})
    BY <1>6, <2>2, <2>4, <2>6 DEF Same
  <2>8. /\ DOMAIN k = PassFields /\ k.tasks = rest /\ k.loop \in [LoopCounters -> Nat]
        /\ k.microtasks = p.microtasks /\ k.document = done.document /\ k.runtime = p.runtime
    BY <1>6, <2>2, <2>4, <2>6 DEF Same, PassFields
  <2>9. /\ k.loop["tasksQueued"] = p.loop["tasksQueued"] /\ k.loop["tasksRun"] = e + 1
        /\ k.loop["microtasksQueued"] = p.loop["microtasksQueued"] /\ k.loop["microtasksRun"] = p.loop["microtasksRun"]
        /\ k.loop["listeners"] = p.loop["listeners"] /\ k.loop["dispatched"] = d
        /\ k.loop["mutations"] = IF counter = "mutations" THEN b + 1 ELSE b
        /\ k.loop["ignored"] = IF counter = "ignored" THEN c + 1 ELSE c
    BY <1>9, <2>2, <2>3, <2>5, <2>6 DEF LoopCounters
  <2>10. Balance(k) = Balance(p)
    <3>1. CASE counter = "mutations"
      BY <1>8, <1>11, <2>8, <2>9, <3>1, BalanceMoves DEF Balance, a
    <3>2. CASE counter = "ignored"
      <4>1. Balance(k) = a + b + (c + 1) + d - (e + 1)
        BY <2>8, <2>9, <3>2 DEF Balance, a
      <4> QED
        BY <1>8, <1>11, <4>1, BalanceMoves
    <3> QED
      BY <2>3, <3>1, <3>2
  <2>11. Ledger(k.tasks, k.document, Balance(k), k.loop["dispatched"], final)
    BY <1>3, <1>8, <1>13, <2>1, <2>8, <2>9, <2>10 DEF d
  <2>12. Queued(k)
    <3>1. p.loop["tasksQueued"] = (e + 1) + (Len(p.tasks) - 1)
      <4> DEFINE n == Len(p.tasks)
      <4>1. p.loop["tasksQueued"] = e + n /\ n \in Nat
        BY <1>1 DEF e
      <4> HIDE DEF n
      <4>2. p.loop["tasksQueued"] = (e + 1) + (n - 1)
        BY <1>8, <4>1
      <4> QED
        BY <4>2 DEF n
    <3> QED
      BY <1>1, <1>2, <2>8, <2>9, <3>1 DEF Queued
  <2>13. IsDocument(k.document)
    BY <2>8, EffectKeepsDocument DEF done
  <2> QED
    BY <2>7, <2>11, <2>12, <2>13 DEF ComesTo, k
<1> QED
  BY <1>14, <1>15, <1>16 DEF k

\* A pass that goes on: of the scripts there were, left is in hand.
Going(p, left) ==
  /\ ComesTo(p, AppliedInOrder(p.first, p.ran)) /\ IsDocument(AppliedInOrder(p.first, p.ran))
  /\ IsDocument(p.document) /\ HostIsSound(p.worker) /\ IsList(p.ran)
  /\ IsList(p.scripts) /\ \A i \in 1 .. Len(p.scripts) : p.scripts[i].code \in Seq(Statement)
  /\ p.beyond \in Nat /\ p.summary \in [SummaryCounters -> Nat]
  /\ p.summary["discovered"]
       = p.summary["inline"] + p.summary["external"] + p.summary["skipped"] + p.summary["failed"] + Len(p.scripts) + p.beyond + left
  /\ p.runtime.executed = p.summary["inline"] + p.summary["external"]

\* What is asked of a pass at its end.
EndedWell(p) ==
  /\ LET s == p.summary
         l == p.loop IN
       /\ s["discovered"] = s["inline"] + s["external"] + s["skipped"] + s["failed"]
       /\ p.runtime.executed = s["inline"] + s["external"]
       /\ l["tasksRun"] = l["tasksQueued"] /\ l["microtasksRun"] = l["microtasksQueued"]
       /\ l["dispatched"] % 2 = 0 /\ l["microtasksRun"] = l["listeners"]
       /\ l["tasksRun"] = p.runtime.executed + l["mutations"] + l["ignored"] + l["dispatched"]
  /\ p.document = [AppliedInOrder(p.first, p.ran) EXCEPT
                        !.title = IF p.runtime.titles /= <<>> THEN Last(p.runtime.titles) ELSE @]
  /\ IsDocument(p.document) /\ HostIsSound(p.worker)

\* Nothing waits in the queues.
Idle(p) == p.tasks = <<>> /\ p.microtasks = <<>>

\* The inductive invariant.
PassInv ==
  /\ pass.at \in {"scripts", "tasks", "ended"}
  /\ pass.at = "ended" => EndedWell(pass)
  /\ pass.at # "ended" => Going(pass, 0)
  /\ pass.at = "scripts" => Idle(pass)

\* A document with the title it has is that document.
LEMMA TitleKept ==
  ASSUME NEW document, IsDocument(document)
  PROVE  /\ [document EXCEPT !.title = document.title] = document
         /\ \A title : IsDocument([document EXCEPT !.title = title])
<1>1. ASSUME NEW t, NEW b, NEW e, NEW s, document = [title |-> t, blocks |-> b, elements |-> e, styled |-> s], NEW title
      PROVE  /\ [document EXCEPT !.title = title] = [title |-> title, blocks |-> b, elements |-> e, styled |-> s]
             /\ document.blocks = b /\ document.elements = e /\ document.styled = s /\ document.title = t
  BY <1>1
<1>2. PICK t, b, e, s : document = [title |-> t, blocks |-> b, elements |-> e, styled |-> s]
  BY DEF IsDocument
<1>3. /\ IsList(b) /\ IsList(e) /\ Len(b) = Len(e) /\ s = e /\ document.title = t
      /\ \A title : [document EXCEPT !.title = title] = [title |-> title, blocks |-> b, elements |-> e, styled |-> s]
  BY <1>1, <1>2 DEF IsDocument
<1>4. \A title : IsDocument([title |-> title, blocks |-> b, elements |-> e, styled |-> s])
  BY <1>3 DEF IsDocument
<1> QED
  BY <1>2, <1>3, <1>4

\* The invariant says what is asked of a pass.
LEMMA InvariantMeans ==
  ASSUME PassInv
  PROVE  BlocksKeepTheirElements /\ ScriptPassIsSound
<1>1. IsDocument(pass.document) /\ HostIsSound(pass.worker)
  BY DEF PassInv, EndedWell, Going
<1>2. BlocksKeepTheirElements
  BY <1>1 DEF IsDocument, BlocksKeepTheirElements
<1>3. EveryScriptIsAccountedFor
  BY <1>1 DEF PassInv, EveryScriptIsAccountedFor, EndedWell, HostIsSound, CachesAreThere
<1>4. ScriptsChangeThePageInTurn
  <2> DEFINE applied == AppliedInOrder(pass.first, pass.ran)
             title(now) == IF pass.at = "ended" /\ pass.runtime.titles /= <<>> THEN Last(pass.runtime.titles) ELSE now
  <2>1. ScriptsChangeThePageInTurn <=> (pass.at /= "tasks" => pass.document = [applied EXCEPT !.title = title(applied.title)])
    BY DEF ScriptsChangeThePageInTurn
  <2> HIDE DEF applied
  <2>2. CASE pass.at = "ended"
    BY <2>1, <2>2 DEF PassInv, EndedWell, applied
  <2>3. CASE pass.at = "scripts"
    <3>1. ComesTo(pass, applied) /\ IsDocument(applied) /\ Len(pass.tasks) = 0
      BY <2>3, EmptyList DEF PassInv, Going, Idle, applied
    <3>2. pass.document = applied
      BY <3>1, LedgerOfNone DEF ComesTo
    <3>3. title(applied.title) = applied.title
      BY <2>3
    <3>4. [applied EXCEPT !.title = applied.title] = applied
      BY <3>1, TitleKept
    <3> QED
      BY <2>1, <3>2, <3>3, <3>4
  <2>4. CASE pass.at = "tasks"
    BY <2>1, <2>4
  <2> QED
    BY <2>2, <2>3, <2>4 DEF PassInv
<1> QED
  BY <1>2, <1>3, <1>4 DEF ScriptPassIsSound

\* A new host of workers is sound.
LEMMA HostStartsSound == HostIsSound(NewWorkerHost)
<1> DEFINE none == [s \in {} |-> <<>>]
           caches == [c \in {} |-> <<>>]
           counts == [c \in Counters |-> 0]
<1>1. NewWorkerHost = [registrations |-> none, caches |-> caches, counts |-> counts]
  BY DEF NewWorkerHost
<1>2. DOMAIN none = {} /\ counts \in [Counters -> Nat] /\ \A c \in Counters : counts[c] = 0
  OBVIOUS
<1>3. IsFiniteSet({}) /\ Cardinality({}) = 0
  BY FS_EmptySet
<1> HIDE DEF none, caches, counts
<1>4. /\ NewWorkerHost.registrations = none /\ NewWorkerHost.counts = counts /\ NewWorkerHost.caches = caches
  BY <1>1
<1>5. IsHost(NewWorkerHost) /\ CachesAreThere(NewWorkerHost)
  BY <1>1, <1>2, <1>3, <1>4 DEF IsHost, CachesAreThere
<1>6. /\ counts["registrations"] = 0 /\ counts["updates"] = 0 /\ counts["scriptFailures"] = 0 /\ counts["scriptFetches"] = 0
      /\ counts["hits"] = 0 /\ counts["misses"] = 0 /\ counts["matches"] = 0
  BY <1>2 DEF Counters
<1> QED
  BY <1>2, <1>3, <1>4, <1>5, <1>6 DEF HostIsSound

\* A pass starts with nothing in its queues and every script ahead of it.
LEMMA PassStarts ==
  ASSUME ScriptsInit
  PROVE  PassInv
<1>1. PICK page \in PagesWithScripts, document \in RenderDocuments : pass = Pass(page, document)
  BY DEF ScriptsInit
<1> DEFINE scripts == CollectScripts(page)
           kept == SubSeq(scripts, 1, Min({Len(scripts), MaxScripts}))
           n == Len(scripts)
           beyond == IF n > MaxScripts THEN n - MaxScripts ELSE 0
           summary == [c \in SummaryCounters |-> IF c = "discovered" THEN Len(scripts) ELSE 0]
           loop == [c \in LoopCounters |-> 0]
           none == <<>>
           k == Min({n, MaxScripts})
<1>2. pass = [at |-> "scripts", scripts |-> kept, beyond |-> beyond, first |-> document, document |-> document,
              runtime |-> NoRuntime, worker |-> NewWorkerHost, tasks |-> none, microtasks |-> none, ran |-> none,
              summary |-> summary, loop |-> loop]
  BY <1>1 DEF Pass
<1>3. IsList(scripts) /\ \A i \in DOMAIN scripts : scripts[i].code \in Seq(Statement)
  BY PassAssumption DEF IsList
<1>4. IsDocument(document)
  BY PassAssumption DEF IsDocument, IsList
<1>5. MaxScripts \in Nat
  BY PassAssumption
<1> HIDE DEF scripts
<1>6. n \in Nat /\ DOMAIN scripts = 1 .. n
  BY <1>3, ListFacts
<1>7. k \in Nat /\ k <= n /\ k <= MaxScripts /\ k \in {n, MaxScripts}
  BY <1>5, <1>6, MinOfTwo
<1>8. IsList(kept) /\ Len(kept) = k /\ \A i \in 1 .. k : kept[i] = scripts[i]
  BY <1>3, <1>5, FirstOfList
<1>9. beyond \in Nat /\ n = k + beyond
  <2> HIDE DEF n, k
  <2>1. n \in Nat
    BY <1>6
  <2> QED
    BY <1>5, <1>7, <2>1
<1>10. \A i \in 1 .. Len(kept) : kept[i].code \in Seq(Statement)
  BY <1>3, <1>6, <1>7, <1>8
<1>11. summary \in [SummaryCounters -> Nat] /\ \A c \in SummaryCounters : summary[c] = IF c = "discovered" THEN n ELSE 0
  BY <1>6
<1>12. loop \in [LoopCounters -> Nat] /\ \A c \in LoopCounters : loop[c] = 0
  OBVIOUS
<1>13. IsList(none) /\ Len(none) = 0
  BY EmptyList
<1> HIDE DEF none, kept, beyond, summary, loop, n, k
<1>14. /\ DOMAIN pass = PassFields /\ pass.at = "scripts" /\ pass.scripts = kept /\ pass.beyond = beyond /\ pass.first = document
       /\ pass.document = document /\ pass.runtime = NoRuntime /\ pass.worker = NewWorkerHost /\ pass.tasks = none
       /\ pass.microtasks = none /\ pass.ran = none /\ pass.summary = summary /\ pass.loop = loop
  BY <1>2 DEF PassFields
<1>15. AppliedInOrder(document, none) = document
  BY <1>13, ScriptsInTurn
<1>16. /\ loop["tasksQueued"] = 0 /\ loop["tasksRun"] = 0 /\ loop["microtasksQueued"] = 0 /\ loop["microtasksRun"] = 0
       /\ loop["listeners"] = 0 /\ loop["dispatched"] = 0 /\ loop["mutations"] = 0 /\ loop["ignored"] = 0
  BY <1>12 DEF LoopCounters
<1>17. NoRuntime.executed = 0
  BY DEF NoRuntime
<1>18. ComesTo(pass, document)
  BY <1>12, <1>13, <1>14, <1>16, <1>17, LedgerOfNone DEF Queued, Balance, ComesTo
<1>19. /\ summary["discovered"] = n /\ summary["inline"] = 0 /\ summary["external"] = 0 /\ summary["skipped"] = 0 /\ summary["failed"] = 0
  BY <1>11 DEF SummaryCounters
<1>20. Going(pass, 0)
  <2>1. n = 0 + 0 + 0 + 0 + k + beyond + 0
    BY <1>7, <1>9
  <2>2. AppliedInOrder(pass.first, pass.ran) = document
    BY <1>14, <1>15
  <2>3. pass.runtime.executed = 0 /\ summary["inline"] + summary["external"] = 0
    BY <1>14, <1>17, <1>19
  <2>4. summary["discovered"]
          = summary["inline"] + summary["external"] + summary["skipped"] + summary["failed"] + Len(kept) + beyond + 0
    BY <1>8, <1>19, <2>1
  <2>5. IsDocument(pass.document) /\ HostIsSound(pass.worker) /\ IsList(pass.ran)
    BY <1>4, <1>13, <1>14, HostStartsSound
  <2>6. IsList(pass.scripts) /\ \A i \in 1 .. Len(pass.scripts) : pass.scripts[i].code \in Seq(Statement)
    BY <1>8, <1>10, <1>14
  <2> QED
    BY <1>4, <1>9, <1>11, <1>14, <1>18, <2>2, <2>3, <2>4, <2>5, <2>6 DEF Going
<1>21. Idle(pass)
  BY <1>14 DEF Idle, none
<1> QED
  BY <1>14, <1>20, <1>21 DEF PassInv

\* What is counted of the scripts is nothing to the queues.
LEMMA ComesToSame ==
  ASSUME NEW p, NEW final, ComesTo(p, final), NEW k, Same(p, k, {"scripts", "summary", "at"})
  PROVE  ComesTo(k, final)
<1>1. /\ DOMAIN k = PassFields /\ k.tasks = p.tasks /\ k.microtasks = p.microtasks /\ k.document = p.document
      /\ k.loop = p.loop /\ k.runtime = p.runtime
  BY DEF Same, PassFields
<1>2. Queued(k)
  BY <1>1 DEF ComesTo, Queued
<1>3. Balance(k) = Balance(p)
  BY <1>1 DEF Balance
<1> QED
  BY <1>1, <1>2, <1>3 DEF ComesTo

\* A pass goes on when its scripts are still accounted for.
LEMMA GoesOn ==
  ASSUME NEW p, NEW left, Going(p, left), NEW k, Same(p, k, {"scripts", "summary", "at"}), NEW after,
         IsList(k.scripts), \A i \in 1 .. Len(k.scripts) : k.scripts[i].code \in Seq(Statement),
         k.summary \in [SummaryCounters -> Nat],
         k.summary["discovered"]
           = k.summary["inline"] + k.summary["external"] + k.summary["skipped"] + k.summary["failed"] + Len(k.scripts) + k.beyond + after,
         k.summary["inline"] = p.summary["inline"], k.summary["external"] = p.summary["external"]
  PROVE  Going(k, after)
<1>1. /\ k.document = p.document /\ k.worker = p.worker /\ k.ran = p.ran /\ k.first = p.first /\ k.beyond = p.beyond
      /\ k.runtime = p.runtime
  BY DEF Same, PassFields
<1>2. ComesTo(k, AppliedInOrder(k.first, k.ran))
  BY <1>1, ComesToSame DEF Going
<1> QED
  BY <1>1, <1>2 DEF Going

\* A script that moves from one count to another.
LEMMA OneIsMoved ==
  ASSUME NEW a \in Nat, NEW b \in Nat, NEW c \in Nat, NEW d \in Nat, NEW e \in Nat, NEW f \in Nat
  PROVE  /\ a + b + c + d + (e - 1) + f + 1 = a + b + c + d + e + f + 0
         /\ (a + 1) + b + c + d + e + f + 0 = a + b + c + d + e + f + 1
         /\ a + (b + 1) + c + d + e + f + 0 = a + b + c + d + e + f + 1
         /\ a + b + (c + 1) + d + e + f + 0 = a + b + c + d + e + f + 1
         /\ a + b + c + (d + 1) + e + f + 0 = a + b + c + d + e + f + 1
         /\ a + b + (c + f) + d = a + b + c + d + 0 + f + 0
OBVIOUS

\* The first script is taken.
Dropped(p) == [p EXCEPT !.scripts = Tail(@)]

\* The first script is taken in hand.
LEMMA DroppedGoesOn ==
  ASSUME NEW p, Going(p, 0), p.scripts # <<>>
  PROVE  Same(p, Dropped(p), {"scripts"}) /\ Going(Dropped(p), 1)
<1> DEFINE rest == Tail(p.scripts)
           k == [p EXCEPT !.scripts = rest]
           a == p.summary["inline"]
           b == p.summary["external"]
           c == p.summary["skipped"]
           d == p.summary["failed"]
           e == Len(p.scripts)
           f == p.beyond
<1>1. Dropped(p) = k
  BY DEF Dropped
<1>2. /\ IsList(p.scripts) /\ \A i \in 1 .. e : p.scripts[i].code \in Seq(Statement)
      /\ DOMAIN p = PassFields /\ p.beyond \in Nat /\ p.summary \in [SummaryCounters -> Nat]
      /\ p.summary["discovered"] = a + b + c + d + e + f + 0
  BY DEF Going, ComesTo, Queued
<1>3. e \in Nat /\ e > 0
  BY <1>2, ListFacts
<1>4. IsList(rest) /\ Len(rest) = e - 1 /\ \A i \in 1 .. e - 1 : rest[i] = p.scripts[i + 1]
  BY <1>2, <1>3, TailList
<1> HIDE DEF rest
<1>5. DOMAIN k = PassFields /\ k.scripts = rest /\ \A x \in PassFields \ {"scripts"} : k[x] = p[x]
  BY <1>2 DEF PassFields
<1> HIDE DEF k
<1>6. k.summary = p.summary /\ k.beyond = f /\ Same(p, k, {"scripts"}) /\ Same(p, k, {"scripts", "summary", "at"})
  BY <1>5 DEF Same, PassFields
<1>7. a \in Nat /\ b \in Nat /\ c \in Nat /\ d \in Nat /\ f \in Nat
  BY <1>2 DEF SummaryCounters
<1>8. a + b + c + d + (e - 1) + f + 1 = a + b + c + d + e + f + 0
  <2> HIDE DEF a, b, c, d, e, f
  <2> QED
    BY <1>3, <1>7, OneIsMoved
<1>9. \A i \in 1 .. Len(rest) : rest[i].code \in Seq(Statement)
  <2> HIDE DEF e
  <2> TAKE i \in 1 .. Len(rest)
  <2>1. i \in 1 .. e - 1 /\ i + 1 \in 1 .. e
    BY <1>3, <1>4
  <2> QED
    BY <1>2, <1>4, <2>1
<1>10. k.summary["discovered"]
         = k.summary["inline"] + k.summary["external"] + k.summary["skipped"] + k.summary["failed"] + Len(k.scripts) + k.beyond + 1
  BY <1>2, <1>4, <1>5, <1>6, <1>8
<1>11. Going(k, 1)
  BY <1>2, <1>4, <1>5, <1>6, <1>9, <1>10, GoesOn
<1> QED
  BY <1>1, <1>6, <1>11

\* The script in hand is counted as skipped or as failed.
LEMMA CountedOff ==
  ASSUME NEW p, Going(p, 1), NEW counter \in {"skipped", "failed"}
  PROVE  Same(p, Summed(p, counter, 1), {"summary"}) /\ Going(Summed(p, counter, 1), 0)
<1> DEFINE k == Summed(p, counter, 1)
           a == p.summary["inline"]
           b == p.summary["external"]
           c == p.summary["skipped"]
           d == p.summary["failed"]
           e == Len(p.scripts)
           f == p.beyond
<1>1. /\ IsList(p.scripts) /\ \A i \in 1 .. e : p.scripts[i].code \in Seq(Statement)
      /\ DOMAIN p = PassFields /\ p.beyond \in Nat /\ p.summary \in [SummaryCounters -> Nat]
      /\ p.summary["discovered"] = a + b + c + d + e + f + 1
  BY DEF Going, ComesTo, Queued
<1>2. e \in Nat
  BY <1>1, ListFacts
<1>3. counter \in SummaryCounters /\ 1 \in Nat
  BY DEF SummaryCounters
<1>4. /\ Same(p, k, {"summary"}) /\ k.summary \in [SummaryCounters -> Nat]
      /\ \A x \in SummaryCounters : k.summary[x] = IF x = counter THEN p.summary[x] + 1 ELSE p.summary[x]
  BY <1>1, <1>3, SummedIs
<1> HIDE DEF k
<1>5. k.scripts = p.scripts /\ k.beyond = f /\ Same(p, k, {"scripts", "summary", "at"})
  BY <1>4 DEF Same, PassFields
<1>6. a \in Nat /\ b \in Nat /\ c \in Nat /\ d \in Nat /\ f \in Nat
  BY <1>1 DEF SummaryCounters
<1>7. /\ k.summary["discovered"] = p.summary["discovered"] /\ k.summary["inline"] = a /\ k.summary["external"] = b
      /\ k.summary["skipped"] = IF counter = "skipped" THEN c + 1 ELSE c
      /\ k.summary["failed"] = IF counter = "failed" THEN d + 1 ELSE d
  BY <1>4 DEF SummaryCounters
<1>8. /\ a + b + (c + 1) + d + e + f + 0 = a + b + c + d + e + f + 1
      /\ a + b + c + (d + 1) + e + f + 0 = a + b + c + d + e + f + 1
  <2> HIDE DEF a, b, c, d, e, f
  <2> QED
    BY <1>2, <1>6, OneIsMoved
<1>9. k.summary["discovered"]
        = k.summary["inline"] + k.summary["external"] + k.summary["skipped"] + k.summary["failed"] + Len(k.scripts) + k.beyond + 0
  <2> HIDE DEF a, b, c, d, e, f
  <2>1. k.beyond = f /\ Len(k.scripts) = e /\ k.summary["discovered"] = a + b + c + d + e + f + 1
    BY <1>1, <1>5, <1>7 DEF e
  <2>2. CASE counter = "skipped"
    BY <1>7, <1>8, <2>1, <2>2
  <2>3. CASE counter = "failed"
    BY <1>7, <1>8, <2>1, <2>3
  <2> QED
    BY <2>2, <2>3
<1>10. Going(k, 0)
  BY <1>1, <1>4, <1>5, <1>7, <1>9, GoesOn
<1> QED
  BY <1>4, <1>10 DEF k

\* The script in hand is counted as one that may run.
LEMMA ExecutableCounted ==
  ASSUME NEW p, Going(p, 1)
  PROVE  Same(p, Summed(p, "executable", 1), {"summary"}) /\ Going(Summed(p, "executable", 1), 1)
<1> DEFINE k == Summed(p, "executable", 1)
<1>1. /\ IsList(p.scripts) /\ \A i \in 1 .. Len(p.scripts) : p.scripts[i].code \in Seq(Statement)
      /\ DOMAIN p = PassFields /\ p.summary \in [SummaryCounters -> Nat]
      /\ p.summary["discovered"]
           = p.summary["inline"] + p.summary["external"] + p.summary["skipped"] + p.summary["failed"] + Len(p.scripts) + p.beyond + 1
  BY DEF Going, ComesTo, Queued
<1>2. "executable" \in SummaryCounters /\ 1 \in Nat
  BY DEF SummaryCounters
<1>3. /\ Same(p, k, {"summary"}) /\ k.summary \in [SummaryCounters -> Nat]
      /\ \A x \in SummaryCounters : k.summary[x] = IF x = "executable" THEN p.summary[x] + 1 ELSE p.summary[x]
  BY <1>1, <1>2, SummedIs
<1> HIDE DEF k
<1>4. k.scripts = p.scripts /\ k.beyond = p.beyond /\ Same(p, k, {"scripts", "summary", "at"})
  BY <1>3 DEF Same, PassFields
<1>5. /\ k.summary["discovered"] = p.summary["discovered"] /\ k.summary["inline"] = p.summary["inline"]
      /\ k.summary["external"] = p.summary["external"] /\ k.summary["skipped"] = p.summary["skipped"]
      /\ k.summary["failed"] = p.summary["failed"]
  BY <1>3 DEF SummaryCounters
<1>6. k.summary["discovered"]
        = k.summary["inline"] + k.summary["external"] + k.summary["skipped"] + k.summary["failed"] + Len(k.scripts) + k.beyond + 1
  BY <1>1, <1>4, <1>5
<1>7. Going(k, 1)
  BY <1>1, <1>3, <1>4, <1>5, <1>6, GoesOn
<1> QED
  BY <1>3, <1>7 DEF k

\* The script in hand is run.
LEMMA ScriptIsRun ==
  ASSUME NEW p, Going(p, 1), NEW source \in Seq(Statement), NEW kind \in {"inline", "external"}, NEW k \in Executed(p, source, kind)
  PROVE  Going(k, 0) /\ k.at = "tasks"
<1> DEFINE a == p.summary["inline"]
           b == p.summary["external"]
           c == p.summary["skipped"]
           d == p.summary["failed"]
           e == Len(p.scripts)
           f == p.beyond
<1>1. /\ IsList(p.scripts) /\ \A i \in 1 .. e : p.scripts[i].code \in Seq(Statement)
      /\ DOMAIN p = PassFields /\ p.beyond \in Nat /\ p.summary \in [SummaryCounters -> Nat]
      /\ p.summary["discovered"] = a + b + c + d + e + f + 1
      /\ p.runtime.executed = a + b /\ p.runtime.executed \in Nat /\ IsDocument(p.document)
  BY DEF Going, ComesTo, Queued
<1>2. e \in Nat
  BY <1>1, ListFacts
<1>3. a \in Nat /\ b \in Nat /\ c \in Nat /\ d \in Nat /\ f \in Nat
  BY <1>1 DEF SummaryCounters
<1>4. /\ Same(p, k, {"tasks", "microtasks", "loop", "runtime", "ran", "at", "worker", "summary"})
      /\ k.at = "tasks" /\ IsList(k.ran) /\ HostIsSound(k.worker)
      /\ k.runtime.executed = p.runtime.executed + 1
      /\ k.summary \in [SummaryCounters -> Nat]
      /\ \A x \in SummaryCounters : k.summary[x] = IF x = kind THEN p.summary[x] + 1 ELSE p.summary[x]
      /\ ComesTo(k, AppliedInOrder(k.first, k.ran)) /\ IsDocument(AppliedInOrder(k.first, k.ran))
  BY <1>1, ExecutedIs DEF Going
<1>5. k.scripts = p.scripts /\ k.beyond = f /\ k.document = p.document
  BY <1>4 DEF Same, PassFields
<1>6. /\ k.summary["discovered"] = p.summary["discovered"] /\ k.summary["skipped"] = c /\ k.summary["failed"] = d
      /\ k.summary["inline"] = IF kind = "inline" THEN a + 1 ELSE a
      /\ k.summary["external"] = IF kind = "external" THEN b + 1 ELSE b
  BY <1>4 DEF SummaryCounters
<1>7. /\ (a + 1) + b + c + d + e + f + 0 = a + b + c + d + e + f + 1
      /\ a + (b + 1) + c + d + e + f + 0 = a + b + c + d + e + f + 1
  <2> HIDE DEF a, b, c, d, e, f
  <2> QED
    BY <1>2, <1>3, OneIsMoved
<1>8. /\ k.summary["discovered"]
           = k.summary["inline"] + k.summary["external"] + k.summary["skipped"] + k.summary["failed"] + Len(k.scripts) + k.beyond + 0
      /\ k.runtime.executed = k.summary["inline"] + k.summary["external"]
  <2> HIDE DEF a, b, c, d, e, f
  <2>1. /\ k.beyond = f /\ Len(k.scripts) = e /\ k.summary["discovered"] = a + b + c + d + e + f + 1
        /\ k.runtime.executed = (a + b) + 1
    BY <1>1, <1>4, <1>5, <1>6 DEF e
  <2>2. (a + b) + 1 = (a + 1) + b /\ (a + b) + 1 = a + (b + 1)
    BY <1>3
  <2>3. CASE kind = "inline"
    BY <1>6, <1>7, <2>1, <2>2, <2>3
  <2>4. CASE kind = "external"
    BY <1>6, <1>7, <2>1, <2>2, <2>4
  <2> QED
    BY <2>3, <2>4
<1> QED
  BY <1>1, <1>4, <1>5, <1>8 DEF Going

\* The first task is run.
LEMMA TaskRunGoesOn ==
  ASSUME NEW p, Going(p, 0), TasksWait(p)
  PROVE  Going(TaskRun(p), 0) /\ TaskRun(p).at = p.at
<1> DEFINE k == TaskRun(p)
           final == AppliedInOrder(p.first, p.ran)
<1>1. ComesTo(p, final) /\ IsDocument(p.document)
  BY DEF Going
<1>2. Same(p, k, {"tasks", "loop", "document"}) /\ ComesTo(k, final) /\ IsDocument(k.document)
  <2> HIDE DEF final
  <2> QED
    BY <1>1, TaskRunsOn
<1> HIDE DEF k
<1>3. /\ k.at = p.at /\ k.scripts = p.scripts /\ k.beyond = p.beyond /\ k.first = p.first /\ k.runtime = p.runtime
      /\ k.worker = p.worker /\ k.ran = p.ran /\ k.summary = p.summary
  BY <1>2 DEF Same, PassFields
<1>4. Going(k, 0)
  BY <1>2, <1>3 DEF Going
<1> QED
  BY <1>3, <1>4 DEF k

\* The microtasks are run, and the next script may have its turn.
LEMMA MicrotasksGoOn ==
  ASSUME NEW p, Going(p, 0), p.tasks = <<>>
  PROVE  LET k == Looped([p EXCEPT !.microtasks = <<>>, !.at = "scripts"], "microtasksRun", Len(p.microtasks)) IN
         Going(k, 0) /\ Idle(k) /\ k.at = "scripts"
<1> DEFINE none == <<>>
           final == AppliedInOrder(p.first, p.ran)
           n == Len(p.microtasks)
           q == [p EXCEPT !.microtasks = none]
           r == [q EXCEPT !.at = "scripts"]
           k == Looped(r, "microtasksRun", n)
<1>1. Looped([p EXCEPT !.microtasks = <<>>, !.at = "scripts"], "microtasksRun", n) = k
  OBVIOUS
<1>2. /\ DOMAIN p = PassFields /\ IsList(p.tasks) /\ IsList(p.microtasks) /\ p.loop \in [LoopCounters -> Nat]
      /\ p.runtime.executed \in Nat
      /\ p.loop["tasksQueued"] = p.loop["tasksRun"] + Len(p.tasks)
      /\ p.loop["microtasksQueued"] = p.loop["microtasksRun"] + n
      /\ p.loop["microtasksQueued"] = p.loop["listeners"]
      /\ Ledger(p.tasks, p.document, Balance(p), p.loop["dispatched"], final)
  BY DEF Going, ComesTo, Queued
<1>3. n \in Nat
  BY <1>2, ListFacts
<1>4. IsList(none) /\ Len(none) = 0
  BY EmptyList
<1>5. p.tasks = none
  OBVIOUS
<1> HIDE DEF none, n
<1>6. q.microtasks = none /\ DOMAIN q = PassFields /\ \A x \in PassFields \ {"microtasks"} : q[x] = p[x]
  BY <1>2 DEF PassFields
<1> HIDE DEF q
<1>7. r.at = "scripts" /\ DOMAIN r = PassFields /\ \A x \in PassFields \ {"at"} : r[x] = q[x]
  BY <1>6 DEF PassFields
<1> HIDE DEF r
<1>8. r.loop = p.loop /\ r.loop \in [LoopCounters -> Nat] /\ "microtasksRun" \in LoopCounters
  BY <1>2, <1>6, <1>7 DEF PassFields, LoopCounters
<1>9. /\ Same(r, k, {"loop"}) /\ k.loop \in [LoopCounters -> Nat]
      /\ \A x \in LoopCounters : k.loop[x] = IF x = "microtasksRun" THEN r.loop[x] + n ELSE r.loop[x]
  BY <1>3, <1>7, <1>8, LoopedIs
<1> HIDE DEF k
<1>10. /\ DOMAIN k = PassFields /\ k.at = "scripts" /\ k.microtasks = none /\ k.tasks = none /\ k.document = p.document
       /\ k.runtime = p.runtime /\ k.scripts = p.scripts /\ k.beyond = p.beyond /\ k.first = p.first
       /\ k.worker = p.worker /\ k.ran = p.ran /\ k.summary = p.summary
  BY <1>5, <1>6, <1>7, <1>9 DEF Same, PassFields
<1>11. /\ k.loop["tasksQueued"] = p.loop["tasksQueued"] /\ k.loop["tasksRun"] = p.loop["tasksRun"]
       /\ k.loop["microtasksQueued"] = p.loop["microtasksQueued"] /\ k.loop["microtasksRun"] = p.loop["microtasksRun"] + n
       /\ k.loop["listeners"] = p.loop["listeners"] /\ k.loop["dispatched"] = p.loop["dispatched"]
       /\ k.loop["mutations"] = p.loop["mutations"] /\ k.loop["ignored"] = p.loop["ignored"]
  BY <1>8, <1>9 DEF LoopCounters
<1>12. p.loop["microtasksRun"] + n = (p.loop["microtasksRun"] + n) + 0
  <2> DEFINE m == p.loop["microtasksRun"]
  <2>1. m \in Nat
    BY <1>2 DEF LoopCounters
  <2> HIDE DEF m
  <2>2. m + n = (m + n) + 0
    BY <1>3, <2>1
  <2> QED
    BY <2>2 DEF m
<1>13. Queued(k)
  BY <1>2, <1>4, <1>5, <1>9, <1>10, <1>11, <1>12 DEF Queued
<1>14. Balance(k) = Balance(p)
  BY <1>10, <1>11 DEF Balance
<1>15. ComesTo(k, final)
  BY <1>2, <1>5, <1>10, <1>11, <1>13, <1>14 DEF ComesTo
<1>16. Going(k, 0)
  BY <1>10, <1>15 DEF Going
<1>17. Idle(k)
  BY <1>10 DEF Idle, none
<1> QED
  BY <1>1, <1>10, <1>16, <1>17 DEF n

\* The scripts beyond the limit are skipped.
LEMMA BeyondSkipped ==
  ASSUME NEW p, DOMAIN p = PassFields, p.summary \in [SummaryCounters -> Nat], p.beyond \in Nat
  PROVE  LET q == Summed(p, "skipped", p.beyond) IN
         /\ Same(p, q, {"summary"}) /\ q.summary \in [SummaryCounters -> Nat]
         /\ \A d \in SummaryCounters : q.summary[d] = IF d = "skipped" THEN p.summary[d] + p.beyond ELSE p.summary[d]
<1> DEFINE f == p.beyond
<1>1. f \in Nat /\ "skipped" \in SummaryCounters
  BY DEF SummaryCounters
<1> HIDE DEF f
<1>2. /\ Same(p, Summed(p, "skipped", f), {"summary"}) /\ Summed(p, "skipped", f).summary \in [SummaryCounters -> Nat]
      /\ \A d \in SummaryCounters : Summed(p, "skipped", f).summary[d] = IF d = "skipped" THEN p.summary[d] + f ELSE p.summary[d]
  BY <1>1, SummedIs
<1> QED
  BY <1>2 DEF f

\* The pass ends when no script is left.
LEMMA PassEndsWell ==
  ASSUME NEW p, Going(p, 0), Idle(p), p.scripts = <<>>,
         NEW k, k = [Summed(p, "skipped", p.beyond) EXCEPT
                       !.at = "ended",
                       !.document.title = IF p.runtime.titles = <<>> THEN @ ELSE Last(p.runtime.titles)]
  PROVE  EndedWell(k) /\ k.at = "ended"
<1> DEFINE q == Summed(p, "skipped", p.beyond)
           r == [q EXCEPT !.at = "ended"]
           title == IF p.runtime.titles = <<>> THEN p.document.title ELSE Last(p.runtime.titles)
           shown == [p.document EXCEPT !.title = title]
           final == AppliedInOrder(p.first, p.ran)
           a == p.summary["inline"]
           b == p.summary["external"]
           c == p.summary["skipped"]
           d == p.summary["failed"]
           f == p.beyond
           g == p.runtime.executed
           h == p.loop["mutations"]
           i == p.loop["ignored"]
           j == p.loop["dispatched"]
           l == p.loop["tasksRun"]
           m == p.loop["microtasksRun"]
<1>1. /\ DOMAIN p = PassFields /\ p.loop \in [LoopCounters -> Nat] /\ p.summary \in [SummaryCounters -> Nat]
      /\ g \in Nat /\ f \in Nat /\ g = a + b /\ Len(p.tasks) = 0 /\ Len(p.microtasks) = 0 /\ Len(p.scripts) = 0
      /\ p.loop["tasksQueued"] = l + Len(p.tasks)
      /\ p.loop["microtasksQueued"] = m + Len(p.microtasks)
      /\ p.loop["microtasksQueued"] = p.loop["listeners"]
      /\ p.summary["discovered"] = a + b + c + d + Len(p.scripts) + f + 0
      /\ Ledger(p.tasks, p.document, Balance(p), j, final)
      /\ IsDocument(p.document) /\ HostIsSound(p.worker)
  BY EmptyList DEF Going, ComesTo, Queued, Idle
<1>2. p.document = final /\ Balance(p) = 0 /\ j \in Nat /\ j % 2 = 0
  <2>1. Ledger(p.tasks, p.document, Balance(p), j, final) /\ Len(p.tasks) = 0
    BY <1>1
  <2> HIDE DEF j, final
  <2> QED
    BY <2>1, LedgerOfNone
<1>3. /\ "skipped" \in SummaryCounters
      /\ a \in Nat /\ b \in Nat /\ c \in Nat /\ d \in Nat /\ h \in Nat /\ i \in Nat /\ l \in Nat /\ m \in Nat
  BY <1>1 DEF SummaryCounters, LoopCounters
<1>4. /\ Same(p, q, {"summary"}) /\ q.summary \in [SummaryCounters -> Nat]
      /\ \A x \in SummaryCounters : q.summary[x] = IF x = "skipped" THEN p.summary[x] + f ELSE p.summary[x]
  BY <1>1, BeyondSkipped
<1>5. k = [q EXCEPT !.at = "ended",
                    !.document.title = IF p.runtime.titles = <<>> THEN @ ELSE Last(p.runtime.titles)]
  OBVIOUS
<1> HIDE DEF q
<1>6. q.document = p.document /\ DOMAIN q = PassFields
  BY <1>4 DEF Same, PassFields
<1>7. r.at = "ended" /\ DOMAIN r = PassFields /\ \A x \in PassFields \ {"at"} : r[x] = q[x]
  BY <1>6 DEF PassFields
<1>8. k = [r EXCEPT !.document.title = IF p.runtime.titles = <<>> THEN @ ELSE Last(p.runtime.titles)]
  BY <1>5
<1> HIDE DEF r
<1>9. r.document = p.document
  BY <1>6, <1>7 DEF PassFields
<1>10. k = [r EXCEPT !.document = shown]
  BY <1>8, <1>9
<1> HIDE DEF shown
<1>11. k.document = shown /\ DOMAIN k = PassFields /\ \A x \in PassFields \ {"document"} : k[x] = r[x]
  BY <1>7, <1>10 DEF PassFields
<1>12. /\ k.at = "ended" /\ k.summary = q.summary /\ k.loop = p.loop /\ k.runtime = p.runtime /\ k.worker = p.worker
       /\ k.first = p.first /\ k.ran = p.ran
  BY <1>4, <1>7, <1>11 DEF Same, PassFields
<1>13. /\ k.summary["discovered"] = p.summary["discovered"] /\ k.summary["inline"] = a /\ k.summary["external"] = b
       /\ k.summary["skipped"] = c + f /\ k.summary["failed"] = d
  BY <1>4, <1>12 DEF SummaryCounters
<1>14. Balance(p) = g + h + i + j - l
  BY DEF Balance
<1>15. /\ p.summary["discovered"] = a + b + (c + f) + d
       /\ l = g + h + i + j /\ p.loop["tasksQueued"] = l /\ p.loop["microtasksQueued"] = m
  <2> DEFINE e == p.summary["discovered"]
             o == p.loop["tasksQueued"]
             u == p.loop["microtasksQueued"]
  <2>1. e = a + b + c + d + 0 + f + 0 /\ o = l + 0 /\ u = m + 0
    BY <1>1
  <2> HIDE DEF a, b, c, d, e, f, g, h, i, j, l, m, o, u
  <2>2. f \in Nat /\ g \in Nat
    BY <1>1
  <2>3. e = a + b + (c + f) + d
    BY <1>3, <2>1, <2>2
  <2>4. l = g + h + i + j
    BY SMTT(30), <1>2, <1>3, <1>14, <2>2
  <2>5. o = l /\ u = m
    BY <1>3, <2>1
  <2> QED
    BY <2>3, <2>4, <2>5 DEF e, o, u
<1>16. shown = [AppliedInOrder(k.first, k.ran) EXCEPT !.title = IF k.runtime.titles /= <<>> THEN Last(k.runtime.titles) ELSE @]
  BY <1>2, <1>12 DEF shown
<1>17. IsDocument(shown)
  BY <1>1, TitleKept DEF shown
<1> QED
  BY <1>1, <1>2, <1>11, <1>12, <1>13, <1>15, <1>16, <1>17 DEF EndedWell

\* A script is taken in hand while nothing waits.
LEMMA DroppedIsSame ==
  ASSUME PassInv, Chosen
  PROVE  /\ Going(WithoutFirst, 1) /\ WithoutFirst.tasks = pass.tasks /\ WithoutFirst.microtasks = pass.microtasks
         /\ WithoutFirst.at = "scripts" /\ Idle(pass) /\ Tag.code \in Seq(Statement)
<1>1. Going(pass, 0) /\ Idle(pass) /\ pass.scripts # <<>> /\ pass.at = "scripts"
  BY DEF PassInv, Chosen
<1>2. Same(pass, Dropped(pass), {"scripts"}) /\ Going(Dropped(pass), 1)
  BY <1>1, DroppedGoesOn
<1>3. Dropped(pass) = WithoutFirst
  BY DEF Dropped, WithoutFirst
<1>4. Tag.code \in Seq(Statement)
  BY <1>1, ListFacts DEF Going, IsList, Tag
<1> QED
  BY <1>1, <1>2, <1>3, <1>4 DEF Same, PassFields

\* Counting a script leaves the queues as they are.
LEMMA ScriptCounted ==
  ASSUME NEW p, Going(p, 1), p.at = "scripts", Idle(p), NEW counter \in {"skipped", "failed"}
  PROVE  Going(Summed(p, counter, 1), 0) /\ Idle(Summed(p, counter, 1)) /\ Summed(p, counter, 1).at = "scripts"
<1> DEFINE k == Summed(p, counter, 1)
<1>1. Same(p, k, {"summary"}) /\ Going(k, 0)
  BY CountedOff
<1> HIDE DEF k
<1> QED
  BY <1>1 DEF Same, PassFields, Idle, k

\* So does counting it as one that may run.
LEMMA ScriptMayRun ==
  ASSUME NEW p, Going(p, 1), p.at = "scripts", Idle(p)
  PROVE  /\ Going(Summed(p, "executable", 1), 1) /\ Idle(Summed(p, "executable", 1))
         /\ Summed(p, "executable", 1).at = "scripts"
<1> DEFINE k == Summed(p, "executable", 1)
<1>1. Same(p, k, {"summary"}) /\ Going(k, 1)
  BY ExecutableCounted
<1> HIDE DEF k
<1> QED
  BY <1>1 DEF Same, PassFields, Idle, k

\* Every step of a pass keeps the invariant.
LEMMA PassGoesOn ==
  ASSUME PassInv, [ScriptsNext]_pass
  PROVE  PassInv'
<1>1. CASE ScriptSkipped
  BY <1>1, DroppedIsSame, ScriptCounted DEF ScriptSkipped, Idle, PassInv
<1>2. CASE OversizedSkipped
  <2> DEFINE q == Summed(WithoutFirst, "executable", 1)
  <2>1. Going(WithoutFirst, 1) /\ WithoutFirst.at = "scripts" /\ Idle(WithoutFirst)
    BY <1>2, DroppedIsSame DEF OversizedSkipped, Idle
  <2>2. Going(q, 1) /\ q.at = "scripts" /\ Idle(q)
    BY <2>1, ScriptMayRun
  <2>3. pass' = Summed(q, "skipped", 1)
    BY <1>2 DEF OversizedSkipped
  <2> HIDE DEF q
  <2> QED
    BY <2>2, <2>3, ScriptCounted DEF PassInv
<1>3. CASE ScriptExecuted
  <2> DEFINE q == Summed(WithoutFirst, "executable", 1)
  <2>1. Going(WithoutFirst, 1) /\ WithoutFirst.at = "scripts" /\ Idle(WithoutFirst) /\ Tag.code \in Seq(Statement)
    BY <1>3, DroppedIsSame DEF ScriptExecuted, Idle
  <2>2. Going(q, 1)
    BY <2>1, ScriptMayRun
  <2>3. PICK text \in TextsToRun : pass' \in Executed(q, text.source, text.kind)
    BY <1>3 DEF ScriptExecuted
  <2>4. text.source \in Seq(Statement) /\ text.kind \in {"inline", "external"}
    BY <2>1, PassAssumption DEF TextsToRun
  <2> HIDE DEF q
  <2>5. Going(pass', 0) /\ pass'.at = "tasks"
    BY <2>2, <2>3, <2>4, ScriptIsRun
  <2> QED
    BY <2>5 DEF PassInv
<1>4. CASE ExternalFails
  <2> DEFINE q == Summed(WithoutFirst, "executable", 1)
  <2>1. Going(WithoutFirst, 1) /\ WithoutFirst.at = "scripts" /\ Idle(WithoutFirst)
    BY <1>4, DroppedIsSame DEF ExternalFails, External, Idle
  <2>2. Going(q, 1) /\ q.at = "scripts" /\ Idle(q)
    BY <2>1, ScriptMayRun
  <2>3. pass' = Summed(q, "failed", 1)
    BY <1>4 DEF ExternalFails
  <2> HIDE DEF q
  <2> QED
    BY <2>2, <2>3, ScriptCounted DEF PassInv
<1>5. CASE TaskRuns
  BY <1>5, TaskRunGoesOn DEF TaskRuns, TaskRun, Popped, TasksWait, PassInv
<1>6. CASE MicrotasksRun
  BY <1>6, MicrotasksGoOn DEF MicrotasksRun, PassInv
<1>7. CASE PassEnds
  BY <1>7, PassEndsWell DEF PassEnds, PassInv
<1>8. CASE UNCHANGED pass
  BY <1>8 DEF PassInv
<1> QED
  BY <1>1, <1>2, <1>3, <1>4, <1>5, <1>6, <1>7, <1>8 DEF ScriptsNext

\* In every pass the scripts, tasks, microtasks and events are accounted
\* for so far, and the page comes to what its scripts make of it.
THEOREM PassInvariance == ScriptsSpec => []PassInv
BY PassStarts, PassGoesOn, PTL DEF ScriptsSpec

\* Whatever the scripts of a page do, each of its blocks has its element.
THEOREM BlocksHaveElements == ScriptsSpec => []BlocksKeepTheirElements
BY PassInvariance, InvariantMeans, PTL

\* At the end of a pass every script, task, microtask and event is
\* accounted for; the page is what the scripts make of it in turn; and the
\* registrations of workers are those their calls made.
THEOREM PassIsSound == ScriptsSpec => []ScriptPassIsSound
BY PassInvariance, InvariantMeans, PTL
=============================================================================

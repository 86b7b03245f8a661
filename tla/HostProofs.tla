----------------------------- MODULE HostProofs -----------------------------
(***************************************************************************)
(* What holds of the hosts SylJS gives a script for every number of        *)
(* scripts, caches and invalidations: each host behind its own             *)
(* specification, as the hosts share no state.                             *)
(***************************************************************************)
EXTENDS ScriptPipeline, Invalidation, CacheStorage, ScriptStores, CollectionsProofs

-----------------------------------------------------------------------------
(* ScriptPipeline                                                          *)

FoundScripts == 1 .. Len(modes)
Logged == {log[i].script : i \in 1 .. Len(log)}
Waiting == In(immediate) \cup In(asyncQueue) \cup In(deferQueue)

\* Where a script may run.
Running == {"discover", "asyncBeforeDefer", "defer", "asyncAfterDcl"}

PhaseOf ==
  [discover |-> "Loading", asyncBeforeDefer |-> "Interactive", defer |-> "Interactive",
   asyncAfterDcl |-> "DomContentLoaded", parsed |-> "DomContentLoaded", done |-> "Complete"]

QueueOK(line, kinds) ==
  /\ line \in Seq(FoundScripts) /\ Rising(line)
  /\ \A s \in In(line) : modes[s] \in kinds

QueuesOK ==
  /\ QueueOK(immediate, {"ParserBlocking", "Dynamic"})
  /\ QueueOK(asyncQueue, {"Async"})
  /\ QueueOK(deferQueue, {"Defer"})

Entries == [script : FoundScripts, phase : Phases, finished : BOOLEAN]

TypesOK ==
  /\ policy \in AsyncPolicies /\ continueOnError \in BOOLEAN
  /\ modes \in Seq(ScriptLoadModes) /\ Len(modes) <= MaxScripts
  /\ log \in Seq(Entries)
  /\ running \in FoundScripts \cup {NoScript} /\ currentScript = running
  /\ stage \in Stages /\ phase \in Phases

\* What each stage leaves behind it.
StagesOK ==
  /\ IF stage = "aborted" THEN phase # "Complete" ELSE phase = PhaseOf[stage]
  /\ stage \in Stages \ {"discover", "aborted"} =>
       /\ immediate = <<>>
       /\ policy = "AsSoonAsDiscovered" => asyncQueue = <<>>
  /\ stage \in {"defer", "asyncAfterDcl", "parsed", "done"} =>
       (policy = "AfterParsingBeforeDefer" => asyncQueue = <<>>)
  /\ stage \in {"asyncAfterDcl", "parsed", "done"} => deferQueue = <<>>
  /\ stage \in {"parsed", "done"} => asyncQueue = <<>>
  /\ running # NoScript => stage \in Running /\ (modes[running] = "Defer" => stage = "defer")

\* Every script is at one place.
ScriptsOK ==
  /\ FoundScripts = Logged \cup Waiting \cup ({running} \ {NoScript})
  /\ Logged \cap Waiting = {}
  /\ running \notin Logged \cup Waiting
  /\ \A i, j \in 1 .. Len(log) : log[i].script = log[j].script => i = j

\* Deferred scripts that ran, before the one that runs, before those that wait.
DefersOK ==
  /\ \A i \in 1 .. Len(log) : modes[log[i].script] = "Defer" =>
       /\ log[i].phase = "Interactive"
       /\ \A j \in 1 .. Len(log) :
            i < j /\ modes[log[j].script] = "Defer" => log[i].script < log[j].script
       /\ running # NoScript /\ modes[running] = "Defer" => log[i].script < running
       /\ \A s \in In(deferQueue) : log[i].script < s
  /\ running # NoScript /\ modes[running] = "Defer" =>
       \A s \in In(deferQueue) : running < s

PipelineInv == TypesOK /\ QueuesOK /\ StagesOK /\ ScriptsOK /\ DefersOK

\* The script that TakeNext takes, and what it leaves.
Took(s) ==
  /\ s \in FoundScripts /\ s \in Waiting /\ s \notin Logged
  /\ stage \in Running /\ (modes[s] = "Defer" => stage = "defer")
  /\ modes[s] = "Defer" => \A t \in In(deferQueue') : s < t
  /\ In(deferQueue') \subseteq In(deferQueue)
  /\ Waiting' = Waiting \ {s}
  /\ immediate = <<>> => immediate' = <<>>
  /\ asyncQueue = <<>> => asyncQueue' = <<>>
  /\ deferQueue = <<>> => deferQueue' = <<>>
  /\ immediate' \in Seq(FoundScripts) /\ asyncQueue' \in Seq(FoundScripts) /\ deferQueue' \in Seq(FoundScripts)
  /\ Rising(immediate') /\ Rising(asyncQueue') /\ Rising(deferQueue')
  /\ In(immediate') \subseteq In(immediate) /\ In(asyncQueue') \subseteq In(asyncQueue)

\* A queue after the step: its first script is gone if it is the one taken.
LEMMA PoppedFacts ==
  ASSUME NEW kinds, NEW line, QueueOK(line, kinds), NEW s, s = Head(Due),
         s \in In(line) => line # <<>> /\ s = Head(line)
  PROVE  /\ Popped(line) \in Seq(FoundScripts) /\ Rising(Popped(line))
         /\ In(Popped(line)) = In(line) \ {s}
         /\ line = <<>> => Popped(line) = <<>>
         /\ s \in In(line) => \A t \in In(Popped(line)) : s < t
<1>1. line \in Seq(FoundScripts) /\ Rising(line) /\ FoundScripts \in SUBSET Nat
  BY DEF QueueOK, FoundScripts
<1>2. CASE line # <<>> /\ Head(line) = s
  BY <1>1, <1>2, PopFacts DEF Popped
<1>3. CASE ~(line # <<>> /\ Head(line) = s)
  BY <1>1, <1>3 DEF Popped
<1> QED
  BY <1>2, <1>3

\* Scripts of other kinds wait in other queues.
LEMMA QueuesApart ==
  ASSUME QueuesOK
  PROVE  /\ In(immediate) \cap In(asyncQueue) = {} /\ In(immediate) \cap In(deferQueue) = {}
         /\ In(asyncQueue) \cap In(deferQueue) = {}
         /\ \A line \in {immediate, asyncQueue, deferQueue} :
              line # <<>> => Head(line) \in In(line) /\ In(line) \subseteq FoundScripts
<1>1. /\ In(immediate) \cap In(asyncQueue) = {} /\ In(immediate) \cap In(deferQueue) = {}
      /\ In(asyncQueue) \cap In(deferQueue) = {}
  BY DEF QueuesOK, QueueOK
<1>2. ASSUME NEW line \in {immediate, asyncQueue, deferQueue}, line # <<>>
      PROVE  Head(line) \in In(line) /\ In(line) \subseteq FoundScripts
  BY <1>2, ElementOfSeq, PopFacts DEF QueuesOK, QueueOK, FoundScripts, In
<1> QED
  BY <1>1, <1>2

LEMMA DueFacts ==
  ASSUME PipelineInv, Due # <<>>
  PROVE  LET s == Head(Due)
         IN  \/ stage = "discover" /\ immediate # <<>> /\ s = Head(immediate)
             \/ /\ stage \in Running \ {"defer"} /\ asyncQueue # <<>> /\ s = Head(asyncQueue)
             \/ stage = "defer" /\ deferQueue # <<>> /\ s = Head(deferQueue)
<1>1. immediate \in Seq(FoundScripts) /\ asyncQueue \in Seq(FoundScripts)
  BY DEF PipelineInv, QueuesOK, QueueOK
<1>2. CASE stage = "discover"
  <2>1. Due = immediate \o AsyncDue("AsSoonAsDiscovered")
    BY <1>2 DEF Due
  <2>2. AsyncDue("AsSoonAsDiscovered") \in {asyncQueue, <<>>}
    BY DEF AsyncDue
  <2>3. AsyncDue("AsSoonAsDiscovered") \in Seq(FoundScripts)
    BY <1>1, <2>2, EmptySeq
  <2>4. CASE immediate = <<>>
    BY <1>2, <2>1, <2>2, <2>3, <2>4, ConcatEmptySeq DEF Running
  <2>5. CASE immediate # <<>>
    <3> DEFINE rest == AsyncDue("AsSoonAsDiscovered")
    <3> HIDE DEF rest
    <3>1. Due = immediate \o rest /\ rest \in Seq(FoundScripts)
      BY <2>1, <2>3 DEF rest
    <3>2. Len(immediate) \in Nat \ {0} /\ Len(rest) \in Nat
      BY <1>1, <2>5, <3>1, EmptySeq, LenProperties
    <3>3. Due[1] = immediate[1] /\ Due \in Seq(FoundScripts)
      BY <1>1, <3>1, <3>2, ConcatProperties
    <3>4. Head(Due) = Due[1] /\ Head(immediate) = immediate[1]
      OBVIOUS
    <3> QED
      BY <1>2, <2>5, <3>3, <3>4
  <2> QED
    BY <2>4, <2>5
<1>3. CASE stage \in {"asyncBeforeDefer", "asyncAfterDcl"}
  BY <1>3 DEF Due, AsyncDue, Running
<1>4. CASE stage = "defer"
  BY <1>4 DEF Due
<1>5. CASE stage \in {"parsed", "done", "aborted"}
  BY <1>5 DEF Due
<1> QED
  BY <1>2, <1>3, <1>4, <1>5 DEF PipelineInv, TypesOK, Stages

LEMMA TakeNextTakes ==
  ASSUME PipelineInv, TakeNext, UNCHANGED <<modes>>
  PROVE  Took(Head(Due))
<1> DEFINE s == Head(Due)
<1>1. Due # <<>> /\ QueuesOK
  BY DEF TakeNext, PipelineInv
<1>2. \/ stage = "discover" /\ immediate # <<>> /\ s = Head(immediate)
      \/ /\ stage \in Running \ {"defer"} /\ asyncQueue # <<>> /\ s = Head(asyncQueue)
      \/ stage = "defer" /\ deferQueue # <<>> /\ s = Head(deferQueue)
  BY <1>1, DueFacts
<1>3. /\ QueueOK(immediate, {"ParserBlocking", "Dynamic"}) /\ QueueOK(asyncQueue, {"Async"})
      /\ QueueOK(deferQueue, {"Defer"})
  BY <1>1 DEF QueuesOK
<1> HIDE DEF s
<1>4. /\ s \in Waiting /\ s \in FoundScripts
      /\ s \in In(immediate) => immediate # <<>> /\ s = Head(immediate)
      /\ s \in In(asyncQueue) => asyncQueue # <<>> /\ s = Head(asyncQueue)
      /\ s \in In(deferQueue) => deferQueue # <<>> /\ s = Head(deferQueue)
  BY <1>1, <1>2, QueuesApart DEF Waiting
<1>5. /\ immediate' = Popped(immediate) /\ asyncQueue' = Popped(asyncQueue)
      /\ deferQueue' = Popped(deferQueue)
  BY DEF TakeNext
<1>6. s = Head(Due)
  BY DEF s
<1>7. /\ immediate' \in Seq(FoundScripts) /\ Rising(immediate') /\ In(immediate') = In(immediate) \ {s}
      /\ immediate = <<>> => immediate' = <<>>
  BY <1>3, <1>4, <1>5, <1>6, PoppedFacts
<1>8. /\ asyncQueue' \in Seq(FoundScripts) /\ Rising(asyncQueue') /\ In(asyncQueue') = In(asyncQueue) \ {s}
      /\ asyncQueue = <<>> => asyncQueue' = <<>>
  BY <1>3, <1>4, <1>5, <1>6, PoppedFacts
<1>9. /\ deferQueue' \in Seq(FoundScripts) /\ Rising(deferQueue') /\ In(deferQueue') = In(deferQueue) \ {s}
      /\ deferQueue = <<>> => deferQueue' = <<>>
      /\ s \in In(deferQueue) => \A t \in In(deferQueue') : s < t
  BY <1>3, <1>4, <1>5, <1>6, PoppedFacts
<1>10. Waiting' = Waiting \ {s}
  BY <1>7, <1>8, <1>9 DEF Waiting, In
<1>11. s \notin Logged
  BY <1>4 DEF PipelineInv, ScriptsOK
<1>12. modes[s] = "Defer" => s \in In(deferQueue) /\ stage = "defer"
  BY <1>2, <1>3, <1>4, QueuesApart, <1>1 DEF QueueOK, Waiting
<1>13. stage \in Running
  BY <1>2 DEF Running
<1> QED
  BY <1>4, <1>6, <1>7, <1>8, <1>9, <1>10, <1>11, <1>12, <1>13 DEF Took

\* What a queue still holds after a script was taken has its mode.
LEMMA TakenQueues ==
  ASSUME QueuesOK, NEW s, Took(s), UNCHANGED modes
  PROVE  QueuesOK'
<1>1. FoundScripts' = FoundScripts
  BY DEF FoundScripts
<1>2. /\ \A t \in In(immediate') : modes[t] \in {"ParserBlocking", "Dynamic"}
      /\ \A t \in In(asyncQueue') : modes[t] \in {"Async"}
      /\ \A t \in In(deferQueue') : modes[t] \in {"Defer"}
  BY DEF Took, QueuesOK, QueueOK
<1>3. /\ QueueOK(immediate, {"ParserBlocking", "Dynamic"})'
      /\ QueueOK(asyncQueue, {"Async"})' /\ QueueOK(deferQueue, {"Defer"})'
  BY <1>1, <1>2 DEF Took, QueueOK, In, Rising
<1> QED
  BY <1>3 DEF QueuesOK

\* A script goes to the log, from the queue or from where it ran.
LEMMA LogFacts ==
  ASSUME TypesOK, NEW s \in FoundScripts, NEW finished \in BOOLEAN, UNCHANGED modes,
         log' = Append(log, [script |-> s, phase |-> phase, finished |-> finished])
  PROVE  /\ log' \in Seq(Entries) /\ Logged' = Logged \cup {s}
         /\ Len(log) \in Nat /\ Len(log') = Len(log) + 1
         /\ \A i \in 1 .. Len(log) : log'[i] = log[i] /\ log[i].script \in Logged
         /\ log'[Len(log')].script = s /\ log'[Len(log')].phase = phase
         /\ \A i \in 1 .. Len(log') : i \in 1 .. Len(log) \/ i = Len(log')
<1> DEFINE entry == [script |-> s, phase |-> phase, finished |-> finished]
           n == Len(log)
<1>1. entry \in Entries /\ entry.script = s /\ entry.phase = phase
  BY DEF Entries, TypesOK
<1> HIDE DEF entry
<1>2. /\ log' \in Seq(Entries) /\ Len(log') = n + 1 /\ n \in Nat
      /\ \A i \in 1 .. n : log'[i] = log[i]
      /\ log'[n + 1] = entry
  BY <1>1, AppendProperties, LenProperties DEF TypesOK, entry
<1>3. \A i \in 1 .. Len(log') : i \in 1 .. n \/ i = n + 1
  BY <1>2
<1>4. Logged' = Logged \cup {s}
  BY <1>1, <1>2, <1>3 DEF Logged
<1> QED
  BY <1>1, <1>2, <1>3, <1>4 DEF Logged

\* What DefersOK needs of a script that goes to the log.
LEMMA LogDefers ==
  ASSUME PipelineInv, NEW s \in FoundScripts, NEW finished \in BOOLEAN, UNCHANGED modes,
         log' = Append(log, [script |-> s, phase |-> phase, finished |-> finished]),
         s \notin Logged, running' = NoScript,
         In(deferQueue') \subseteq In(deferQueue),
         modes[s] = "Defer" =>
           /\ phase = "Interactive"
           /\ \A t \in In(deferQueue') : s < t
           /\ \A i \in 1 .. Len(log) : modes[log[i].script] = "Defer" => log[i].script < s
  PROVE  DefersOK' /\ (\A i, j \in 1 .. Len(log) : log[i].script = log[j].script => i = j)'
<1>1. /\ Len(log) \in Nat /\ Len(log') = Len(log) + 1
      /\ \A i \in 1 .. Len(log) : log'[i] = log[i] /\ log[i].script \in Logged
      /\ log'[Len(log')].script = s /\ log'[Len(log')].phase = phase
      /\ \A i \in 1 .. Len(log') : i \in 1 .. Len(log) \/ i = Len(log')
  BY LogFacts DEF PipelineInv
<1>2. \A i, j \in 1 .. Len(log') : log'[i].script = log'[j].script => i = j
  BY <1>1 DEF PipelineInv, ScriptsOK
<1>3. ASSUME NEW i \in 1 .. Len(log'), modes[log'[i].script] = "Defer"
      PROVE  /\ log'[i].phase = "Interactive"
             /\ \A j \in 1 .. Len(log') :
                  i < j /\ modes[log'[j].script] = "Defer" => log'[i].script < log'[j].script
             /\ \A t \in In(deferQueue') : log'[i].script < t
  BY <1>1, <1>3 DEF PipelineInv, DefersOK
<1> QED
  BY <1>2, <1>3 DEF DefersOK

LEMMA StartInv ==
  ASSUME PipelineInv, StartScript
  PROVE  PipelineInv'
<1> DEFINE s == Head(Due)
<1>1. /\ running = NoScript /\ TakeNext /\ running' = s /\ currentScript' = s
      /\ UNCHANGED <<policy, continueOnError, stage, phase, modes, log>>
  BY DEF StartScript
<1>2. Took(s)
  BY <1>1, TakeNextTakes
<1> HIDE DEF s
<1>3. FoundScripts' = FoundScripts /\ Logged' = Logged /\ s # NoScript
  BY <1>1, <1>2 DEF FoundScripts, Logged, Took, NoScript
<1>4. TypesOK'
  BY <1>1, <1>2, <1>3 DEF PipelineInv, TypesOK, Took, Entries
<1>5. QueuesOK'
  BY <1>1, <1>2, TakenQueues DEF PipelineInv
<1>6. StagesOK'
  BY <1>1, <1>2 DEF PipelineInv, StagesOK, Took, PhaseOf
<1>7. ScriptsOK'
  BY <1>1, <1>2, <1>3 DEF PipelineInv, ScriptsOK, Took
<1>8. DefersOK'
  BY <1>1, <1>2, <1>3 DEF PipelineInv, DefersOK, QueuesOK, QueueOK, Took, Waiting
<1> QED
  BY <1>4, <1>5, <1>6, <1>7, <1>8 DEF PipelineInv

LEMMA LoadFailsInv ==
  ASSUME PipelineInv, LoadFails
  PROVE  PipelineInv'
<1> DEFINE s == Head(Due)
<1>1. /\ running = NoScript /\ TakeNext /\ RecordFailure(s)
      /\ UNCHANGED <<policy, continueOnError, phase, modes, running, currentScript>>
  BY DEF LoadFails
<1>2. Took(s)
  BY <1>1, TakeNextTakes
<1> HIDE DEF s
<1>3. /\ log' = Append(log, [script |-> s, phase |-> phase, finished |-> FALSE])
      /\ stage' \in {stage, "aborted"} /\ s \in FoundScripts /\ FoundScripts' = FoundScripts
  BY <1>1, <1>2 DEF RecordFailure, Took, FoundScripts
<1>4. log' \in Seq(Entries) /\ Logged' = Logged \cup {s} /\ Entries' = Entries
  BY <1>1, <1>3, LogFacts DEF PipelineInv, Entries
<1>5. TypesOK'
  BY <1>1, <1>3, <1>4 DEF PipelineInv, TypesOK, Stages
<1>6. QueuesOK'
  BY <1>1, <1>2, TakenQueues DEF PipelineInv
<1>7. stage \in Running /\ phase = PhaseOf[stage] /\ phase # "Complete"
  BY <1>2 DEF PipelineInv, StagesOK, Took, Running, PhaseOf
<1>8. StagesOK'
  BY <1>1, <1>2, <1>3, <1>7 DEF PipelineInv, StagesOK, Took, Running, PhaseOf
<1>9. DefersOK' /\ (\A i, j \in 1 .. Len(log) : log[i].script = log[j].script => i = j)'
  <2>1. \A i \in 1 .. Len(log) : modes[log[i].script] = "Defer" =>
          (modes[s] = "Defer" => log[i].script < s)
    BY <1>2 DEF PipelineInv, DefersOK, QueuesOK, QueueOK, Took, Waiting
  <2>2. modes[s] = "Defer" => phase = "Interactive"
    BY <1>2, <1>7 DEF Took, PhaseOf
  <2> QED
    BY <1>1, <1>2, <1>3, <2>1, <2>2, LogDefers DEF Took
<1>10. ScriptsOK'
  BY <1>1, <1>2, <1>3, <1>4, <1>9 DEF PipelineInv, ScriptsOK, Took
<1> QED
  BY <1>5, <1>6, <1>8, <1>9, <1>10 DEF PipelineInv

LEMMA EndsInv ==
  ASSUME PipelineInv, ScriptReturns \/ ScriptThrows
  PROVE  PipelineInv'
<1> DEFINE s == running
<1>1. /\ s # NoScript /\ running' = NoScript /\ currentScript' = NoScript
      /\ UNCHANGED <<policy, continueOnError, phase, modes, immediate, asyncQueue, deferQueue>>
      /\ stage' \in {stage, "aborted"}
  BY DEF ScriptReturns, ScriptThrows, RecordFailure
<1>2. PICK finished \in BOOLEAN :
        log' = Append(log, [script |-> s, phase |-> phase, finished |-> finished])
  BY DEF ScriptReturns, ScriptThrows, RecordFailure
<1>3. s \in FoundScripts /\ s \notin Logged \cup Waiting /\ FoundScripts' = FoundScripts /\ Waiting' = Waiting
  BY <1>1 DEF PipelineInv, TypesOK, ScriptsOK, FoundScripts, Waiting, In
<1>4. log' \in Seq(Entries) /\ Logged' = Logged \cup {s} /\ Entries' = Entries
  BY <1>1, <1>2, <1>3, LogFacts DEF PipelineInv, Entries
<1>5. TypesOK'
  BY <1>1, <1>3, <1>4 DEF PipelineInv, TypesOK, Stages
<1>6. QueuesOK'
  BY <1>1 DEF PipelineInv, QueuesOK, QueueOK, FoundScripts, Rising, In
<1>7. /\ stage \in Running /\ phase = PhaseOf[stage] /\ phase # "Complete"
      /\ modes[s] = "Defer" => stage = "defer"
  BY <1>1 DEF PipelineInv, StagesOK, Running, PhaseOf
<1>8. StagesOK'
  BY <1>1, <1>7 DEF PipelineInv, StagesOK, Running, PhaseOf
<1>9. DefersOK' /\ (\A i, j \in 1 .. Len(log) : log[i].script = log[j].script => i = j)'
  <2>1. modes[s] = "Defer" =>
          /\ phase = "Interactive"
          /\ \A t \in In(deferQueue') : s < t
          /\ \A i \in 1 .. Len(log) : modes[log[i].script] = "Defer" => log[i].script < s
    BY <1>1, <1>7 DEF PipelineInv, DefersOK, PhaseOf
  <2>2. In(deferQueue') \subseteq In(deferQueue)
    BY <1>1
  <2> HIDE DEF s
  <2> QED
    BY <1>1, <1>2, <1>3, <2>1, <2>2, LogDefers
<1>10. ScriptsOK'
  BY <1>1, <1>3, <1>4, <1>9 DEF PipelineInv, ScriptsOK, NoScript, FoundScripts
<1> QED
  BY <1>5, <1>6, <1>8, <1>9, <1>10 DEF PipelineInv

\* When nothing is due, the queue that the stage flushes is empty.
LEMMA QuietFacts ==
  ASSUME PipelineInv, Quiet
  PROVE  /\ running = NoScript
         /\ stage = "discover" =>
              /\ immediate = <<>>
              /\ policy = "AsSoonAsDiscovered" => asyncQueue = <<>>
         /\ stage = "asyncBeforeDefer" =>
              (policy = "AfterParsingBeforeDefer" => asyncQueue = <<>>)
         /\ stage = "defer" => deferQueue = <<>>
         /\ stage = "asyncAfterDcl" => (policy = "AfterDomContentLoaded" => asyncQueue = <<>>)
<1>1. running = NoScript /\ Due = <<>>
  BY DEF Quiet
<1>2. ASSUME stage = "discover"
      PROVE  immediate = <<>> /\ (policy = "AsSoonAsDiscovered" => asyncQueue = <<>>)
  <2>1. immediate \in Seq(FoundScripts) /\ asyncQueue \in Seq(FoundScripts)
    BY DEF PipelineInv, QueuesOK, QueueOK
  <2> DEFINE rest == AsyncDue("AsSoonAsDiscovered")
  <2>2. rest \in Seq(FoundScripts) /\ (policy = "AsSoonAsDiscovered" => rest = asyncQueue)
    BY <2>1, EmptySeq DEF AsyncDue
  <2>3. immediate \o rest = <<>>
    BY <1>1, <1>2 DEF Due
  <2> HIDE DEF rest
  <2>4. Len(immediate) + Len(rest) = 0 /\ Len(immediate) \in Nat /\ Len(rest) \in Nat
    BY <2>1, <2>2, <2>3, ConcatProperties, EmptySeq, LenProperties
  <2>5. Len(immediate) = 0 /\ Len(rest) = 0
    BY <2>4
  <2> QED
    BY <2>1, <2>2, <2>5, EmptySeq
<1>3. stage = "asyncBeforeDefer" => (policy = "AfterParsingBeforeDefer" => asyncQueue = <<>>)
  BY <1>1 DEF Due, AsyncDue
<1>4. stage = "defer" => deferQueue = <<>>
  BY <1>1 DEF Due
<1>5. stage = "asyncAfterDcl" => (policy = "AfterDomContentLoaded" => asyncQueue = <<>>)
  BY <1>1 DEF Due, AsyncDue
<1> QED
  BY <1>1, <1>2, <1>3, <1>4, <1>5

\* The scripts found, one more of them.
LEMMA FoundFacts ==
  ASSUME NEW mode \in ScriptLoadModes, TypesOK, modes' = Append(modes, mode),
         NEW script, script = Len(modes) + 1
  PROVE  /\ modes' \in Seq(ScriptLoadModes) /\ Len(modes) \in Nat /\ Len(modes') = script
         /\ \A s \in FoundScripts : modes'[s] = modes[s]
         /\ modes'[script] = mode
         /\ FoundScripts' = FoundScripts \cup {script} /\ script \in Nat \ {0} /\ \A t \in FoundScripts : t < script
         /\ script \notin FoundScripts /\ FoundScripts \in SUBSET Nat
<1>1. /\ modes' \in Seq(ScriptLoadModes) /\ Len(modes) \in Nat /\ Len(modes') = script
      /\ \A s \in FoundScripts : modes'[s] = modes[s]
      /\ modes'[script] = mode
  BY AppendProperties, LenProperties DEF TypesOK, FoundScripts
<1>2. /\ FoundScripts' = FoundScripts \cup {script} /\ script \in Nat \ {0} /\ \A t \in FoundScripts : t < script
      /\ script \notin FoundScripts /\ FoundScripts \in SUBSET Nat
  BY <1>1 DEF FoundScripts
<1> QED
  BY <1>1, <1>2

LEMMA InFound ==
  ASSUME NEW kinds, NEW line, QueueOK(line, kinds)
  PROVE  In(line) \subseteq FoundScripts /\ line \in Seq(FoundScripts) /\ Rising(line)
<1>1. \A i \in 1 .. Len(line) : line[i] \in FoundScripts
  BY ElementOfSeq DEF QueueOK
<1> QED
  BY <1>1 DEF In, QueueOK

\* A queue that gets the new script, and one that does not.
LEMMA LongerFacts ==
  ASSUME NEW script \in Nat, FoundScripts' = FoundScripts \cup {script}, \A t \in FoundScripts : t < script,
         \A s \in FoundScripts : modes'[s] = modes[s],
         NEW kinds, modes'[script] \in kinds, NEW line, QueueOK(line, kinds)
  PROVE  /\ Append(line, script) \in Seq(FoundScripts') /\ Rising(Append(line, script))
         /\ \A s \in In(Append(line, script)) : modes'[s] \in kinds
         /\ In(Append(line, script)) = In(line) \cup {script}
<1> DEFINE longer == Append(line, script)
<1>1. line \in Seq(FoundScripts) /\ Rising(line) /\ In(line) \subseteq FoundScripts /\ FoundScripts \in SUBSET Nat
  BY InFound DEF FoundScripts
<1>2. /\ longer \in Seq(FoundScripts \cup {script}) /\ Rising(longer)
      /\ In(longer) = In(line) \cup {script}
  BY <1>1, PushFacts
<1> HIDE DEF longer
<1>3. \A s \in In(longer) : modes'[s] \in kinds
  BY <1>1, <1>2 DEF QueueOK
<1> QED
  BY <1>2, <1>3 DEF longer

LEMMA SameFacts ==
  ASSUME NEW mode \in ScriptLoadModes, TypesOK, modes' = Append(modes, mode),
         NEW kinds, NEW line, QueueOK(line, kinds)
  PROVE  /\ line \in Seq(FoundScripts') /\ Rising(line)
         /\ \A s \in In(line) : modes'[s] \in kinds
<1> DEFINE script == Len(modes) + 1
<1>1. script = Len(modes) + 1
  OBVIOUS
<1> HIDE DEF script
<1>2. /\ \A s \in FoundScripts : modes'[s] = modes[s]
      /\ FoundScripts \subseteq FoundScripts'
  BY <1>1, FoundFacts
<1>3. line \in Seq(FoundScripts) /\ Rising(line) /\ In(line) \subseteq FoundScripts
  BY InFound
<1>4. line \in Seq(FoundScripts')
  BY <1>2, <1>3, SeqMonotonic
<1> QED
  BY <1>2, <1>3, <1>4 DEF QueueOK

LEMMA DiscoverInv ==
  ASSUME PipelineInv, NEW mode \in ScriptLoadModes, DiscoverScript(mode)
  PROVE  PipelineInv'
<1> USE PipelineAssumption
<1> DEFINE script == Len(modes) + 1
<1>1. /\ stage = "discover" /\ Quiet /\ Len(modes) < MaxScripts
      /\ modes' = Append(modes, mode)
      /\ immediate' = IF mode \in {"ParserBlocking", "Dynamic"} THEN <<script>> ELSE immediate
      /\ asyncQueue' = IF mode = "Async" THEN Append(asyncQueue, script) ELSE asyncQueue
      /\ deferQueue' = IF mode = "Defer" THEN Append(deferQueue, script) ELSE deferQueue
      /\ UNCHANGED <<policy, continueOnError, stage, phase, running, currentScript, log>>
  BY DEF DiscoverScript, Enqueue
<1>2. running = NoScript /\ immediate = <<>> /\ immediate' \in {immediate, <<script>>}
  BY <1>1, QuietFacts
<1>3. TypesOK /\ QueuesOK /\ StagesOK /\ ScriptsOK /\ DefersOK
  BY DEF PipelineInv
<1>s. script = Len(modes) + 1
  OBVIOUS
<1> HIDE DEF script
<1>4. /\ modes' \in Seq(ScriptLoadModes) /\ Len(modes) \in Nat /\ Len(modes') = script
      /\ \A s \in FoundScripts : modes'[s] = modes[s]
      /\ modes'[script] = mode
  BY <1>1, <1>3, <1>s, FoundFacts
<1>5. /\ FoundScripts' = FoundScripts \cup {script} /\ script \notin FoundScripts /\ script # NoScript
      /\ script \in Nat /\ \A t \in FoundScripts : t < script
  BY <1>1, <1>3, <1>s, FoundFacts DEF NoScript
<1>6. /\ immediate' \in Seq(FoundScripts') /\ Rising(immediate')
      /\ \A s \in In(immediate') : modes'[s] \in {"ParserBlocking", "Dynamic"}
      /\ IF mode \in {"ParserBlocking", "Dynamic"} THEN In(immediate') = In(immediate) \cup {script} ELSE immediate' = immediate
  <2>1. QueueOK(immediate, {"ParserBlocking", "Dynamic"})
    BY <1>3 DEF QueuesOK
  <2>2. CASE mode \in {"ParserBlocking", "Dynamic"}
    <3>1. immediate' = Append(immediate, script)
      BY <1>1, <1>2, <2>2
    <3> DEFINE kinds == {"ParserBlocking", "Dynamic"}
    <3>2. modes'[script] \in kinds /\ QueueOK(immediate, kinds)
      BY <1>4, <2>1, <2>2
    <3> HIDE DEF kinds
    <3>3. /\ immediate' \in Seq(FoundScripts') /\ Rising(immediate')
          /\ \A s \in In(immediate') : modes'[s] \in kinds
          /\ In(immediate') = In(immediate) \cup {script}
      BY <1>4, <1>5, <3>1, <3>2, LongerFacts
    <3> QED
      BY <2>2, <3>3 DEF kinds
  <2>3. CASE mode \notin {"ParserBlocking", "Dynamic"}
    BY <1>1, <1>3, <2>1, <2>3, SameFacts
  <2> QED
    BY <2>2, <2>3
<1>7. /\ asyncQueue' \in Seq(FoundScripts') /\ Rising(asyncQueue')
      /\ \A s \in In(asyncQueue') : modes'[s] \in {"Async"}
      /\ IF mode = "Async" THEN In(asyncQueue') = In(asyncQueue) \cup {script} ELSE asyncQueue' = asyncQueue
  <2>1. QueueOK(asyncQueue, {"Async"})
    BY <1>3 DEF QueuesOK
  <2>2. CASE mode \in {"Async"}
    <3>1. asyncQueue' = Append(asyncQueue, script)
      BY <1>1, <1>2, <2>2
    <3> DEFINE kinds == {"Async"}
    <3>2. modes'[script] \in kinds /\ QueueOK(asyncQueue, kinds)
      BY <1>4, <2>1, <2>2
    <3> HIDE DEF kinds
    <3>3. /\ asyncQueue' \in Seq(FoundScripts') /\ Rising(asyncQueue')
          /\ \A s \in In(asyncQueue') : modes'[s] \in kinds
          /\ In(asyncQueue') = In(asyncQueue) \cup {script}
      BY <1>4, <1>5, <3>1, <3>2, LongerFacts
    <3> QED
      BY <2>2, <3>3 DEF kinds
  <2>3. CASE mode \notin {"Async"}
    BY <1>1, <1>3, <2>1, <2>3, SameFacts
  <2> QED
    BY <2>2, <2>3
<1>8. /\ deferQueue' \in Seq(FoundScripts') /\ Rising(deferQueue')
      /\ \A s \in In(deferQueue') : modes'[s] \in {"Defer"}
      /\ IF mode = "Defer" THEN In(deferQueue') = In(deferQueue) \cup {script} ELSE deferQueue' = deferQueue
  <2>1. QueueOK(deferQueue, {"Defer"})
    BY <1>3 DEF QueuesOK
  <2>2. CASE mode \in {"Defer"}
    <3>1. deferQueue' = Append(deferQueue, script)
      BY <1>1, <1>2, <2>2
    <3> DEFINE kinds == {"Defer"}
    <3>2. modes'[script] \in kinds /\ QueueOK(deferQueue, kinds)
      BY <1>4, <2>1, <2>2
    <3> HIDE DEF kinds
    <3>3. /\ deferQueue' \in Seq(FoundScripts') /\ Rising(deferQueue')
          /\ \A s \in In(deferQueue') : modes'[s] \in kinds
          /\ In(deferQueue') = In(deferQueue) \cup {script}
      BY <1>4, <1>5, <3>1, <3>2, LongerFacts
    <3> QED
      BY <2>2, <3>3 DEF kinds
  <2>3. CASE mode \notin {"Defer"}
    BY <1>1, <1>3, <2>1, <2>3, SameFacts
  <2> QED
    BY <2>2, <2>3
<1>9. Waiting' = Waiting \cup {script} /\ Logged' = Logged
  <2>1. \/ /\ In(immediate') = In(immediate) \cup {script}
           /\ asyncQueue' = asyncQueue /\ deferQueue' = deferQueue
        \/ /\ In(asyncQueue') = In(asyncQueue) \cup {script}
           /\ immediate' = immediate /\ deferQueue' = deferQueue
        \/ /\ In(deferQueue') = In(deferQueue) \cup {script}
           /\ immediate' = immediate /\ asyncQueue' = asyncQueue
    BY <1>6, <1>7, <1>8 DEF ScriptLoadModes
  <2>2. Waiting' = Waiting \cup {script}
    BY <2>1 DEF Waiting, In
  <2> QED
    BY <1>1, <2>2 DEF Logged
<1>10. \A i \in 1 .. Len(log) : log[i].script \in FoundScripts /\ modes'[log[i].script] = modes[log[i].script]
  <2>1. \A i \in 1 .. Len(log) : log[i] \in Entries
    BY <1>3, ElementOfSeq DEF TypesOK
  <2> QED
    BY <1>4, <2>1 DEF Entries
<1>11. TypesOK'
  <2>1. Entries \subseteq Entries'
    BY <1>5 DEF Entries
  <2>2. log' \in Seq(Entries')
    BY <1>1, <1>3, <2>1, SeqMonotonic DEF TypesOK
  <2>3. Len(modes') <= MaxScripts
    BY <1>1, <1>4, <1>s
  <2> QED
    BY <1>1, <1>2, <1>3, <1>4, <1>5, <2>2, <2>3 DEF TypesOK
<1>12. QueuesOK'
  BY <1>6, <1>7, <1>8 DEF QueueOK, In, Rising, QueuesOK
<1>13. StagesOK'
  BY <1>1, <1>2, <1>3 DEF StagesOK, PhaseOf
<1>14. ScriptsOK'
  <2>1. Logged \subseteq FoundScripts
    BY <1>10 DEF Logged
  <2> QED
    BY <1>1, <1>2, <1>3, <1>5, <1>9, <2>1 DEF ScriptsOK
<1>15. DefersOK'
  <2>1. \A i \in 1 .. Len(log) : \A s \in In(deferQueue') :
          modes[log[i].script] = "Defer" => log[i].script < s
    BY <1>3, <1>5, <1>8, <1>10 DEF DefersOK
  <2>2. /\ log' = log /\ running' = running
        /\ running # NoScript => modes'[running] = modes[running]
    BY <1>1, <1>2, <1>3, <1>5 DEF ScriptsOK
  <2>3. \A i \in 1 .. Len(log) : modes[log[i].script] = "Defer" =>
          /\ log[i].phase = "Interactive"
          /\ \A j \in 1 .. Len(log) :
               i < j /\ modes[log[j].script] = "Defer" => log[i].script < log[j].script
          /\ running # NoScript /\ modes[running] = "Defer" => log[i].script < running
    BY <1>3 DEF DefersOK
  <2>4. running # NoScript /\ modes[running] = "Defer" =>
          \A s \in In(deferQueue') : running < s
    BY <1>1, <1>2, <1>3, <1>5, <1>8 DEF DefersOK
  <2> QED
    BY <1>10, <2>1, <2>2, <2>3, <2>4 DEF DefersOK
<1> QED
  BY <1>11, <1>12, <1>13, <1>14, <1>15 DEF PipelineInv

LEMMA MoveInv ==
  ASSUME PipelineInv, ParsingEnds \/ AsyncFlushed \/ DomContentLoaded \/ FinishParsing \/ FinishDocument
  PROVE  PipelineInv'
<1>1. /\ Quiet /\ stage' \in Stages /\ stage' \notin {"discover", "aborted"}
      /\ phase' = PhaseOf[stage'] /\ phase' \in Phases
      /\ UNCHANGED <<policy, continueOnError, modes, immediate, asyncQueue, deferQueue, running,
                     currentScript, log>>
  BY DEF ParsingEnds, AsyncFlushed, DomContentLoaded, FinishParsing, FinishDocument, MoveOn,
         Stages, Phases, PhaseOf
<1>2. running = NoScript
  BY <1>1, QuietFacts
<1>3. TypesOK'
  BY <1>1 DEF PipelineInv, TypesOK, FoundScripts, Entries
<1>4. QueuesOK'
  BY <1>1 DEF PipelineInv, QueuesOK, QueueOK, FoundScripts, Rising, In
<1>5. StagesOK'
  <2>1. policy \in AsyncPolicies /\ StagesOK
    BY DEF PipelineInv, TypesOK
  <2>2. CASE ParsingEnds
    BY <1>1, <1>2, <2>2, QuietFacts DEF ParsingEnds, MoveOn, StagesOK
  <2>3. CASE AsyncFlushed
    BY <1>1, <1>2, <2>1, <2>3, QuietFacts DEF AsyncFlushed, MoveOn, StagesOK, Stages
  <2>4. CASE DomContentLoaded
    BY <1>1, <1>2, <2>1, <2>4, QuietFacts DEF DomContentLoaded, MoveOn, StagesOK, Stages
  <2>5. CASE FinishParsing
    BY <1>1, <1>2, <2>1, <2>5, QuietFacts DEF FinishParsing, MoveOn, StagesOK, Stages, AsyncPolicies
  <2>6. CASE FinishDocument
    BY <1>1, <1>2, <2>1, <2>6 DEF FinishDocument, MoveOn, StagesOK, Stages
  <2> QED
    BY <2>2, <2>3, <2>4, <2>5, <2>6
<1>6. ScriptsOK' /\ DefersOK'
  <2>1. FoundScripts' = FoundScripts /\ Logged' = Logged /\ Waiting' = Waiting
    BY <1>1 DEF FoundScripts, Logged, Waiting, In
  <2>2. ScriptsOK'
    BY <1>1, <2>1 DEF PipelineInv, ScriptsOK
  <2>3. DefersOK'
    BY <1>1 DEF PipelineInv, DefersOK, In
  <2> QED
    BY <2>2, <2>3
<1> QED
  BY <1>3, <1>4, <1>5, <1>6 DEF PipelineInv

LEMMA PipelineInitInv ==
  PipelineInit => PipelineInv
<1> SUFFICES ASSUME PipelineInit PROVE PipelineInv
  OBVIOUS
<1>1. /\ modes = <<>> /\ immediate = <<>> /\ asyncQueue = <<>> /\ deferQueue = <<>> /\ log = <<>>
      /\ running = NoScript /\ currentScript = NoScript /\ stage = "discover" /\ phase = "Loading"
      /\ policy \in AsyncPolicies /\ continueOnError \in BOOLEAN
  BY DEF PipelineInit
<1>2. \A S : <<>> \in Seq(S) /\ Len(<<>>) = 0
  BY EmptySeq
<1>3. In(<<>>) = {} /\ Rising(<<>>)
  BY <1>2 DEF In, Rising
<1>4. TypesOK
  BY <1>1, <1>2, PipelineAssumption DEF TypesOK, Stages, Phases
<1>5. QueuesOK
  BY <1>1, <1>2, <1>3 DEF QueuesOK, QueueOK
<1>6. StagesOK
  BY <1>1 DEF StagesOK, PhaseOf
<1>7. ScriptsOK
  BY <1>1, <1>2, <1>3 DEF ScriptsOK, FoundScripts, Logged, Waiting
<1>8. DefersOK
  BY <1>1, <1>2 DEF DefersOK
<1> QED
  BY <1>4, <1>5, <1>6, <1>7, <1>8 DEF PipelineInv

\* Of every document, however many scripts it has: every script found is at
\* one place, waiting in the queue of its mode, running, or over; each queue
\* holds its scripts in the order they were found; and each stage leaves
\* empty the queues it flushes (discover_script, flush_async_scripts,
\* flush_defer_scripts and finish_parsing of script_pipeline.rs).
THEOREM PipelineInvariance ==
  PipelineSpec => []PipelineInv
<1>1. ASSUME PipelineInv, [PipelineNext]_pipelineVars
      PROVE  PipelineInv'
  <2>1. ASSUME NEW mode \in ScriptLoadModes, DiscoverScript(mode) PROVE PipelineInv'
    BY <1>1, <2>1, DiscoverInv
  <2>2. CASE StartScript
    BY <1>1, <2>2, StartInv
  <2>3. CASE LoadFails
    BY <1>1, <2>3, LoadFailsInv
  <2>4. CASE ScriptReturns \/ ScriptThrows
    BY <1>1, <2>4, EndsInv
  <2>5. CASE ParsingEnds \/ AsyncFlushed \/ DomContentLoaded \/ FinishParsing \/ FinishDocument
    BY <1>1, <2>5, MoveInv
  <2>6. CASE UNCHANGED pipelineVars
    <3>1. UNCHANGED <<policy, continueOnError, stage, phase, modes, immediate, asyncQueue,
                      deferQueue, running, currentScript, log>>
      BY <2>6 DEF pipelineVars
    <3>2. FoundScripts' = FoundScripts /\ Logged' = Logged /\ Waiting' = Waiting
      BY <3>1 DEF FoundScripts, Logged, Waiting, In
    <3>3. TypesOK'
      BY <1>1, <3>1, <3>2 DEF PipelineInv, TypesOK, Entries
    <3>4. QueuesOK'
      BY <1>1, <3>1, <3>2 DEF PipelineInv, QueuesOK, QueueOK, In, Rising
    <3>5. StagesOK' /\ ScriptsOK'
      BY <1>1, <3>1, <3>2 DEF PipelineInv, StagesOK, ScriptsOK
    <3>6. DefersOK'
      BY <1>1, <3>1 DEF PipelineInv, DefersOK, In
    <3> QED
      BY <3>3, <3>4, <3>5, <3>6 DEF PipelineInv
  <2> QED
    BY <1>1, <2>1, <2>2, <2>3, <2>4, <2>5, <2>6 DEF PipelineNext
<1> QED
  BY <1>1, PipelineInitInv, PTL DEF PipelineSpec

LEMMA OnceInOrder ==
  ASSUME PipelineInv
  PROVE  ScriptsRunOnceInOrder
<1>1. TypesOK /\ QueuesOK /\ StagesOK /\ ScriptsOK /\ DefersOK
  BY DEF PipelineInv
<1>2. Len(modes) \in Nat /\ DOMAIN modes = FoundScripts /\ DOMAIN log = 1 .. Len(log)
  BY <1>1, LenProperties DEF TypesOK, FoundScripts
<1>3. PipelineTypeOK
  BY <1>1, <1>2, PipelineAssumption, SeqMonotonic DEF TypesOK, FoundScripts, ScriptId, QueuesOK, QueueOK, PipelineTypeOK
<1>4. IsInjective([i \in DOMAIN log |-> log[i].script])
  BY <1>1, <1>2 DEF ScriptsOK, IsInjective
<1>5. phase = "Complete" => {log[i].script : i \in DOMAIN log} = DOMAIN modes
  BY <1>1, <1>2, EmptySeq DEF Logged, TypesOK, StagesOK, Stages, PhaseOf, Running, Waiting, In, ScriptsOK
<1>6. \A i \in DOMAIN log : ModeAt(i) = "Defer" =>
        /\ log[i].phase = "Interactive"
        /\ \A j \in DOMAIN log : i < j /\ ModeAt(j) = "Defer" => log[i].script < log[j].script
  BY <1>1, <1>2 DEF DefersOK, ModeAt
<1>7. currentScript = running
  BY <1>1 DEF TypesOK
<1> QED
  BY <1>3, <1>4, <1>5, <1>6, <1>7 DEF ScriptsRunOnceInOrder

\* ScriptsRunOnceInOrder, of documents of any number of scripts, under each
\* policy for async scripts and whichever of them fail: no script runs twice
\* and none is left when the document is complete, deferred scripts run in
\* the order they were found, after parsing and before DOMContentLoaded, and
\* document.currentScript is the script that runs.
THEOREM ScriptsRunAsQueued ==
  PipelineSpec => []ScriptsRunOnceInOrder
<1> QED
  BY PipelineInvariance, OnceInOrder, PTL

-----------------------------------------------------------------------------
(* Invalidation                                                            *)

KindLists == {StyleKinds, LayoutKinds, PaintKinds, Hints, Priorities}

LEMMA KindListFacts ==
  ASSUME NEW kinds \in KindLists
  PROVE  /\ Len(kinds) \in Nat \ {0} /\ DOMAIN kinds = 1 .. Len(kinds)
         /\ \A i, j \in 1 .. Len(kinds) : kinds[i] = kinds[j] => i = j
<1>1. CASE kinds = StyleKinds
  BY <1>1 DEF StyleKinds
<1>2. CASE kinds = LayoutKinds
  BY <1>2 DEF LayoutKinds
<1>3. CASE kinds = PaintKinds
  BY <1>3 DEF PaintKinds
<1>4. CASE kinds = Hints
  BY <1>4 DEF Hints
<1>5. CASE kinds = Priorities
  BY <1>5 DEF Priorities
<1> QED
  BY <1>1, <1>2, <1>3, <1>4, <1>5 DEF KindLists

\* The rank of a kind is its place in the list.
LEMMA LevelFacts ==
  ASSUME NEW kinds \in KindLists, NEW kind \in In(kinds)
  PROVE  /\ Level(kinds, kind) \in 1 .. Len(kinds) /\ kinds[Level(kinds, kind)] = kind
         /\ Level(kinds, kind) \in Nat /\ Level(kinds, kind) >= 1 /\ Level(kinds, kind) <= Len(kinds)
<1>1. DOMAIN kinds = 1 .. Len(kinds) /\ Len(kinds) \in Nat
  BY KindListFacts
<1>2. \E i \in DOMAIN kinds : kinds[i] = kind
  BY <1>1 DEF In
<1> QED
  BY <1>1, <1>2 DEF Level

LEMMA LevelOfPlace ==
  ASSUME NEW kinds \in KindLists, NEW i \in 1 .. Len(kinds)
  PROVE  kinds[i] \in In(kinds) /\ Level(kinds, kinds[i]) = i
<1>1. kinds[i] \in In(kinds)
  BY DEF In
<1>2. /\ Level(kinds, kinds[i]) \in 1 .. Len(kinds)
      /\ kinds[Level(kinds, kinds[i])] = kinds[i]
  BY <1>1, LevelFacts
<1> QED
  BY <1>1, <1>2, KindListFacts

LEMMA StrongerFacts ==
  ASSUME NEW kinds \in KindLists, NEW a \in In(kinds), NEW b \in In(kinds)
  PROVE  /\ Stronger(kinds, a, b) \in In(kinds)
         /\ AtLeast(kinds, Stronger(kinds, a, b), a) /\ AtLeast(kinds, Stronger(kinds, a, b), b)
<1>1. Level(kinds, a) \in Nat /\ Level(kinds, b) \in Nat
  BY LevelFacts
<1>2. CASE AtLeast(kinds, a, b)
  BY <1>1, <1>2 DEF Stronger, AtLeast
<1>3. CASE ~AtLeast(kinds, a, b)
  BY <1>1, <1>3 DEF Stronger, AtLeast
<1> QED
  BY <1>2, <1>3

LEMMA AtLeastOrders ==
  ASSUME NEW kinds \in KindLists, NEW a \in In(kinds), NEW b \in In(kinds), NEW c \in In(kinds)
  PROVE  /\ AtLeast(kinds, a, a)
         /\ AtLeast(kinds, a, b) /\ AtLeast(kinds, b, c) => AtLeast(kinds, a, c)
         /\ AtLeast(kinds, a, b) /\ a = kinds[1] => b = kinds[1]
         /\ AtLeast(kinds, a, kinds[Len(kinds)]) => a = kinds[Len(kinds)]
<1> DEFINE n == Len(kinds)
<1>1. /\ Level(kinds, a) \in 1 .. n /\ Level(kinds, b) \in 1 .. n /\ Level(kinds, c) \in 1 .. n
      /\ kinds[Level(kinds, a)] = a /\ kinds[Level(kinds, b)] = b /\ n \in Nat \ {0}
  BY LevelFacts, KindListFacts
<1>2. Level(kinds, kinds[1]) = 1 /\ Level(kinds, kinds[n]) = n
  BY <1>1, LevelOfPlace
<1> HIDE DEF n
<1>3. AtLeast(kinds, a, a) /\ (AtLeast(kinds, a, b) /\ AtLeast(kinds, b, c) => AtLeast(kinds, a, c))
  BY <1>1 DEF AtLeast
<1>4. ASSUME AtLeast(kinds, a, b), a = kinds[1] PROVE b = kinds[1]
  BY <1>1, <1>2, <1>4 DEF AtLeast
<1>5. ASSUME AtLeast(kinds, a, kinds[n]) PROVE a = kinds[n]
  BY <1>1, <1>2, <1>5 DEF AtLeast
<1> QED
  BY <1>3, <1>4, <1>5 DEF n

Impacts ==
  [style : In(StyleKinds), layout : In(LayoutKinds), paint : In(PaintKinds), rebuild : In(Hints)]

DirtyScopes ==
  {Document, Viewport, Unknown} \cup {AtNode(n) : n \in DirtyNodes}
  \cup {UnderNode(n) : n \in DirtyNodes}

Batches == [priority : In(Priorities), scope : DirtyScopes, impact : Impacts]

\* One impact does all that another asks for.
Dominates(a, b) ==
  /\ AtLeast(StyleKinds, a.style, b.style) /\ AtLeast(LayoutKinds, a.layout, b.layout)
  /\ AtLeast(PaintKinds, a.paint, b.paint) /\ AtLeast(Hints, a.rebuild, b.rebuild)

\* One scope holds all that another does.
Reaches(a, b) ==
  \/ WholeDocument(a)
  \/ /\ HasNode(a) /\ HasNode(b) /\ a.node = b.node
     /\ b.kind = "Subtree" => a.kind = "Subtree"

Covers(batch, input) ==
  /\ AtLeast(Priorities, batch.priority, input.priority)
  /\ Reaches(batch.scope, input.scope)
  /\ Dominates(batch.impact, input.impact)

LEMMA MergedFacts ==
  ASSUME NEW a \in Impacts, NEW b \in Impacts
  PROVE  Merged(a, b) \in Impacts /\ Dominates(Merged(a, b), a) /\ Dominates(Merged(a, b), b)
<1>1. /\ a.style \in In(StyleKinds) /\ b.style \in In(StyleKinds)
      /\ a.layout \in In(LayoutKinds) /\ b.layout \in In(LayoutKinds)
      /\ a.paint \in In(PaintKinds) /\ b.paint \in In(PaintKinds)
      /\ a.rebuild \in In(Hints) /\ b.rebuild \in In(Hints)
  BY DEF Impacts
<1>2. {StyleKinds, LayoutKinds, PaintKinds, Hints} \subseteq KindLists
  BY DEF KindLists
<1> DEFINE style == Stronger(StyleKinds, a.style, b.style)
           layout == Stronger(LayoutKinds, a.layout, b.layout)
           paint == Stronger(PaintKinds, a.paint, b.paint)
           rebuild == Stronger(Hints, a.rebuild, b.rebuild)
<1>3. /\ style \in In(StyleKinds) /\ AtLeast(StyleKinds, style, a.style)
      /\ AtLeast(StyleKinds, style, b.style)
  BY <1>1, <1>2, StrongerFacts
<1>4. /\ layout \in In(LayoutKinds) /\ AtLeast(LayoutKinds, layout, a.layout)
      /\ AtLeast(LayoutKinds, layout, b.layout)
  BY <1>1, <1>2, StrongerFacts
<1>5. /\ paint \in In(PaintKinds) /\ AtLeast(PaintKinds, paint, a.paint)
      /\ AtLeast(PaintKinds, paint, b.paint)
  BY <1>1, <1>2, StrongerFacts
<1>6. /\ rebuild \in In(Hints) /\ AtLeast(Hints, rebuild, a.rebuild)
      /\ AtLeast(Hints, rebuild, b.rebuild)
  BY <1>1, <1>2, StrongerFacts
<1>7. Merged(a, b) = [style |-> style, layout |-> layout, paint |-> paint, rebuild |-> rebuild]
  BY DEF Merged
<1> HIDE DEF style, layout, paint, rebuild
<1>8. Merged(a, b) \in Impacts
  BY <1>3, <1>4, <1>5, <1>6, <1>7 DEF Impacts
<1>9. /\ Merged(a, b).style = style /\ Merged(a, b).layout = layout
      /\ Merged(a, b).paint = paint /\ Merged(a, b).rebuild = rebuild
  BY <1>7
<1> QED
  BY <1>3, <1>4, <1>5, <1>6, <1>8, <1>9 DEF Dominates

LEMMA DominatesOrders ==
  ASSUME NEW a \in Impacts, NEW b \in Impacts, NEW c \in Impacts
  PROVE  Dominates(a, a) /\ (Dominates(a, b) /\ Dominates(b, c) => Dominates(a, c))
<1>1. /\ {a.style, b.style, c.style} \subseteq In(StyleKinds)
      /\ {a.layout, b.layout, c.layout} \subseteq In(LayoutKinds)
      /\ {a.paint, b.paint, c.paint} \subseteq In(PaintKinds)
      /\ {a.rebuild, b.rebuild, c.rebuild} \subseteq In(Hints)
  BY DEF Impacts
<1>2. {StyleKinds, LayoutKinds, PaintKinds, Hints} \subseteq KindLists
  BY DEF KindLists
<1> QED
  BY <1>1, <1>2, AtLeastOrders DEF Dominates

LEMMA ReachesOrders ==
  ASSUME NEW a, NEW b, NEW c, Reaches(a, b), Reaches(b, c)
  PROVE  Reaches(a, c)
BY DEF Reaches, WholeDocument, HasNode, Document, Viewport

\* merge_scope reaches both, under the configuration's defaults.
LEMMA MergeScopeFacts ==
  ASSUME CoalesceDocumentScope, NEW a \in DirtyScopes \ {Unknown}, NEW b \in DirtyScopes \ {Unknown}
  PROVE  /\ MergeScope(a, b) \in DirtyScopes \ {Unknown}
         /\ Reaches(MergeScope(a, b), a) /\ Reaches(MergeScope(a, b), b)
<1>1. \A s \in DirtyScopes \ {Unknown} : WholeDocument(s) \/ HasNode(s)
  BY DEF DirtyScopes, WholeDocument, HasNode, AtNode, UnderNode
<1>2. /\ Document \in DirtyScopes \ {Unknown} /\ Viewport \in DirtyScopes \ {Unknown}
      /\ WholeDocument(Document) /\ WholeDocument(Viewport)
  BY DEF DirtyScopes, Document, Viewport, Unknown, WholeDocument
<1>3. CASE a = b
  BY <1>1, <1>3 DEF MergeScope, Reaches
<1>4. CASE a # b /\ Document \in {a, b}
  BY <1>2, <1>4 DEF MergeScope, Reaches
<1>5. CASE a # b /\ Document \notin {a, b} /\ Viewport \in {a, b}
  BY <1>2, <1>5 DEF MergeScope, Reaches
<1>6. CASE /\ a # b /\ Document \notin {a, b} /\ Viewport \notin {a, b}
           /\ HasNode(a) /\ HasNode(b) /\ a.node = b.node
  BY <1>6 DEF MergeScope, DirtyScopes, AtNode, UnderNode, HasNode, Document, Viewport, Unknown, Reaches
<1>7. CASE /\ a # b /\ Document \notin {a, b} /\ Viewport \notin {a, b}
           /\ ~(HasNode(a) /\ HasNode(b) /\ a.node = b.node)
  BY <1>2, <1>7 DEF MergeScope, Reaches
<1> QED
  BY <1>3, <1>4, <1>5, <1>6, <1>7

LEMMA NormalizeFacts ==
  ASSUME UnknownScopeIsDocument, NEW scope \in DirtyScopes
  PROVE  /\ NormalizeScope(scope) \in DirtyScopes \ {Unknown}
         /\ Reaches(NormalizeScope(scope), scope)
<1>1. CASE scope = Unknown
  BY <1>1 DEF NormalizeScope, DirtyScopes, Document, Unknown, Reaches, WholeDocument
<1>2. CASE scope # Unknown
  BY <1>2 DEF NormalizeScope, Reaches, DirtyScopes, WholeDocument, HasNode, AtNode, UnderNode
<1> QED
  BY <1>1, <1>2

LEMMA CoversOrders ==
  ASSUME NEW a \in Batches, NEW b \in Batches, NEW c \in Batches, Covers(a, b), Covers(b, c)
  PROVE  Covers(a, c)
<1>1. /\ a.impact \in Impacts /\ b.impact \in Impacts /\ c.impact \in Impacts
      /\ a.priority \in In(Priorities) /\ b.priority \in In(Priorities)
      /\ c.priority \in In(Priorities)
  BY DEF Batches
<1>2. Dominates(a.impact, c.impact)
  BY <1>1, DominatesOrders DEF Covers
<1>3. Reaches(a.scope, c.scope)
  BY ReachesOrders DEF Covers
<1>4. AtLeast(Priorities, a.priority, c.priority)
  BY <1>1, AtLeastOrders DEF Covers, KindLists
<1> QED
  BY <1>2, <1>3, <1>4 DEF Covers

\* A batch whose scope is known.
KnownBatches == {batch \in Batches : batch.scope # Unknown}

LEMMA InputParts ==
  ASSUME NEW p, NEW s, NEW i
  PROVE  /\ Input(p, s, i).priority = p /\ Input(p, s, i).scope = s /\ Input(p, s, i).impact = i
         /\ Input(p, s, i) \in Batches <=>
              p \in In(Priorities) /\ s \in DirtyScopes /\ i \in Impacts
BY DEF Input, Batches

LEMMA FirstBatchFacts ==
  ASSUME UnknownScopeIsDocument, NEW input \in Batches
  PROVE  FirstBatch(input) \in KnownBatches /\ Covers(FirstBatch(input), input)
<1> DEFINE scope == NormalizeScope(input.scope)
<1>1. /\ input.priority \in In(Priorities) /\ input.scope \in DirtyScopes /\ input.impact \in Impacts
  BY DEF Batches
<1>2. scope \in DirtyScopes \ {Unknown} /\ Reaches(scope, input.scope)
  BY <1>1, NormalizeFacts
<1>3. FirstBatch(input) = Input(input.priority, scope, input.impact)
  BY DEF FirstBatch
<1> HIDE DEF scope
<1>4. /\ FirstBatch(input) \in Batches /\ FirstBatch(input).scope = scope
      /\ FirstBatch(input).priority = input.priority /\ FirstBatch(input).impact = input.impact
  BY <1>1, <1>2, <1>3, InputParts
<1>5. Dominates(input.impact, input.impact) /\ AtLeast(Priorities, input.priority, input.priority)
  BY <1>1, DominatesOrders, AtLeastOrders DEF KindLists
<1> QED
  BY <1>2, <1>4, <1>5 DEF Covers, KnownBatches

\* Another input joins: the batch covers it, and what it covered.
LEMMA JoinedFacts ==
  ASSUME UnknownScopeIsDocument, CoalesceDocumentScope,
         NEW batch \in KnownBatches, NEW input \in Batches
  PROVE  /\ Joined(batch, input) \in KnownBatches
         /\ Covers(Joined(batch, input), batch) /\ Covers(Joined(batch, input), input)
<1> DEFINE priority == Stronger(Priorities, batch.priority, input.priority)
           known == NormalizeScope(input.scope)
           scope == MergeScope(batch.scope, known)
           impact == Merged(batch.impact, input.impact)
<1>1. /\ input.priority \in In(Priorities) /\ input.scope \in DirtyScopes /\ input.impact \in Impacts
      /\ batch.priority \in In(Priorities) /\ batch.scope \in DirtyScopes \ {Unknown}
      /\ batch.impact \in Impacts
  BY DEF Batches, KnownBatches
<1>2. known \in DirtyScopes \ {Unknown} /\ Reaches(known, input.scope)
  BY <1>1, NormalizeFacts
<1>3. /\ scope \in DirtyScopes \ {Unknown} /\ Reaches(scope, batch.scope)
      /\ Reaches(scope, known)
  BY <1>1, <1>2, MergeScopeFacts
<1>4. Reaches(scope, input.scope)
  BY <1>2, <1>3, ReachesOrders
<1>5. /\ priority \in In(Priorities) /\ AtLeast(Priorities, priority, batch.priority)
      /\ AtLeast(Priorities, priority, input.priority)
  BY <1>1, StrongerFacts DEF KindLists
<1>6. /\ impact \in Impacts /\ Dominates(impact, batch.impact) /\ Dominates(impact, input.impact)
  BY <1>1, MergedFacts
<1>7. Joined(batch, input) = Input(priority, scope, impact)
  BY DEF Joined
<1> HIDE DEF priority, known, scope, impact
<1>8. /\ Joined(batch, input) \in Batches /\ Joined(batch, input).scope = scope
      /\ Joined(batch, input).priority = priority /\ Joined(batch, input).impact = impact
  BY <1>3, <1>5, <1>6, <1>7, InputParts
<1> QED
  BY <1>3, <1>4, <1>5, <1>6, <1>8 DEF Covers, KnownBatches

\* The batch a queue coalesces to covers every input of it.
LEMMA CoalesceCovers ==
  ASSUME UnknownScopeIsDocument, CoalesceDocumentScope,
         NEW inputs \in Seq(Batches), inputs # <<>>
  PROVE  /\ Coalesce(inputs) \in KnownBatches
         /\ \A i \in 1 .. Len(inputs) : Covers(Coalesce(inputs), inputs[i])
<1> DEFINE n == Len(inputs)
           Batch(f) == [i \in 1 .. n |-> IF i = 1 THEN FirstBatch(inputs[1])
                                         ELSE Joined(f[i - 1], inputs[i])]
           f == CHOOSE g : g = Batch(g)
<1>1. n \in Nat /\ n >= 1 /\ 1 \in 1 .. n /\ \A i \in 1 .. n : inputs[i] \in Batches
  BY EmptySeq, LenProperties, ElementOfSeq
<1>2. Coalesce(inputs) = f[n]
  BY DEF Coalesce
<1> HIDE DEF n
<1>3. f = Batch(f)
  <2> DEFINE first == FirstBatch(inputs[1])
             step == [i \in 2 .. n |-> [batch \in KnownBatches |-> Joined(batch, inputs[i])]]
             m == 1
  <2>1. m = 1
    OBVIOUS
  <2>2. m \in Nat /\ n \in Nat /\ m <= n
    BY <1>1
  <2>3. first \in KnownBatches
    BY <1>1, FirstBatchFacts
  <2>4. step \in [m + 1 .. n -> [KnownBatches -> KnownBatches]]
    <3>1. ASSUME NEW i \in m + 1 .. n, NEW batch \in KnownBatches
          PROVE  Joined(batch, inputs[i]) \in KnownBatches
      BY <1>1, <2>1, JoinedFacts
    <3> QED
      BY <3>1
  <2>5. \A i \in m + 1 .. n : \A batch \in KnownBatches : step[i][batch] = Joined(batch, inputs[i])
    OBVIOUS
  <2> HIDE DEF first, step, m
  <2>6. Loop(KnownBatches, m, n, first, step)
    BY <2>2, <2>3, <2>4 DEF Loop
  <2>7. Turns(KnownBatches, m, n, first, step) # {}
    BY <2>6, Iterates
  <2>8. PICK g \in [m .. n -> KnownBatches] :
          g[m] = first /\ \A i \in m + 1 .. n : g[i] = step[i][g[i - 1]]
    BY <2>7 DEF Turns
  <2>9. ASSUME NEW i \in 1 .. n
        PROVE  g[i] = IF i = 1 THEN FirstBatch(inputs[1]) ELSE Joined(g[i - 1], inputs[i])
    <3>1. CASE i = 1
      BY <2>1, <2>8, <3>1 DEF first
    <3>2. CASE i # 1
      BY <1>1, <2>1, <2>5, <2>8, <3>2
    <3> QED
      BY <3>1, <3>2
  <2>10. g = Batch(g)
    BY <2>1, <2>8, <2>9
  <2> QED
    BY <2>10
<1> HIDE DEF f
<1>4. /\ f[1] = FirstBatch(inputs[1])
      /\ \A i \in 1 .. n : i # 1 => f[i] = Joined(f[i - 1], inputs[i])
  BY <1>1, <1>3
<1> DEFINE Good == {i \in 1 .. n : /\ f[i] \in KnownBatches
                                   /\ \A j \in 1 .. i : Covers(f[i], inputs[j])}
<1>5. 1 \in Good
  BY <1>1, <1>4, FirstBatchFacts
<1>6. ASSUME NEW i \in 1 .. n - 1, i \in Good
      PROVE  i + 1 \in Good
  <2>1. i + 1 \in 1 .. n /\ i + 1 # 1 /\ (i + 1) - 1 = i /\ inputs[i + 1] \in Batches
    BY <1>1
  <2>2. f[i + 1] = Joined(f[i], inputs[i + 1])
    BY <1>4, <2>1
  <2>3. f[i] \in KnownBatches /\ \A j \in 1 .. i : Covers(f[i], inputs[j])
    BY <1>6
  <2>4. /\ f[i + 1] \in KnownBatches /\ Covers(f[i + 1], f[i])
        /\ Covers(f[i + 1], inputs[i + 1])
    BY <2>1, <2>2, <2>3, JoinedFacts
  <2>5. ASSUME NEW j \in 1 .. i + 1 PROVE Covers(f[i + 1], inputs[j])
    <3>1. CASE j = i + 1
      BY <2>4, <3>1
    <3>2. CASE j \in 1 .. i
      BY <1>1, <2>3, <2>4, <3>2, CoversOrders DEF KnownBatches
    <3> QED
      BY <3>1, <3>2
  <2> QED
    BY <2>1, <2>4, <2>5
<1> HIDE DEF Good
<1>7. n \in Good
  <2>1. 1 .. n \subseteq Good
    BY <1>1, <1>5, <1>6, CountingUp
  <2> QED
    BY <1>1, <2>1
<1> QED
  BY <1>2, <1>7 DEF Good, n

\* A plan made of a batch does what the inputs the batch covers ask for.
Serves(plan, input) ==
  LET impact == input.impact
      At(listed) == HasNode(input.scope) /\ input.scope.node \in listed
  IN /\ impact.style # "None" => plan.restyle_document \/ At(plan.style_nodes)
     /\ impact.style = "Cascade" => plan.restyle_document
     /\ impact.layout # "None" => plan.rebuild_layout_tree \/ At(plan.layout_nodes)
     /\ impact.layout = "Subtree" /\ input.scope.kind = "Subtree" => plan.rebuild_layout_tree
     /\ impact.paint # "None" => plan.rebuild_paint_plan \/ At(plan.paint_nodes)
     /\ impact.rebuild = "FullPipeline" => plan.full_viewport_paint
     /\ AtLeast(Priorities, plan.priority, input.priority)

LEMMA PlanServes ==
  ASSUME NEW batch \in KnownBatches, NEW input \in Batches, Covers(batch, input)
  PROVE  Serves(PlanFromBatch(batch), input)
<1> DEFINE b == batch.impact
           i == input.impact
           scope == batch.scope
           At(there) == IF HasNode(scope) /\ there THEN {scope.node} ELSE {}
           plan == PlanFromBatch(batch)
<1>1. /\ b \in Impacts /\ i \in Impacts /\ Dominates(b, i) /\ Reaches(scope, input.scope)
      /\ scope \in DirtyScopes \ {Unknown}
  BY DEF Batches, KnownBatches, Covers
<1>2. /\ plan.priority = batch.priority
      /\ plan.style_nodes = At(b.style # "None") /\ plan.layout_nodes = At(b.layout # "None")
      /\ plan.paint_nodes = At(b.paint # "None")
      /\ plan.restyle_document = (WholeDocument(scope) \/ b.style = "Cascade")
      /\ plan.full_viewport_paint =
           (WholeDocument(scope) \/ b.paint = "Viewport" \/ b.rebuild = "FullPipeline")
  BY DEF PlanFromBatch
<1>3. plan.rebuild_layout_tree =
        (\/ b.layout \in {"Tree", "Viewport"}
         \/ b.rebuild \in {"LayoutTree", "FullPipeline"}
         \/ b.layout # "None" /\ scope.kind \notin {"Node", "Subtree"}
         \/ scope.kind = "Subtree" /\ AtLeast(LayoutKinds, b.layout, "Subtree"))
  BY DEF PlanFromBatch
<1>4. (b.layout # "None" \/ (b.paint # "None" /\ ~HasNode(scope))) => plan.rebuild_paint_plan
  BY DEF PlanFromBatch
<1>5. /\ b.style \in In(StyleKinds) /\ i.style \in In(StyleKinds)
      /\ b.layout \in In(LayoutKinds) /\ i.layout \in In(LayoutKinds)
      /\ b.paint \in In(PaintKinds) /\ i.paint \in In(PaintKinds)
      /\ b.rebuild \in In(Hints) /\ i.rebuild \in In(Hints)
      /\ AtLeast(StyleKinds, b.style, i.style) /\ AtLeast(LayoutKinds, b.layout, i.layout)
      /\ AtLeast(PaintKinds, b.paint, i.paint) /\ AtLeast(Hints, b.rebuild, i.rebuild)
  BY <1>1 DEF Impacts, Dominates
<1>6. /\ StyleKinds[1] = "None" /\ LayoutKinds[1] = "None" /\ PaintKinds[1] = "None"
      /\ StyleKinds[Len(StyleKinds)] = "Cascade" /\ Hints[Len(Hints)] = "FullPipeline"
  BY DEF StyleKinds, LayoutKinds, PaintKinds, Hints
<1>7. {StyleKinds, LayoutKinds, PaintKinds, Hints} \subseteq KindLists
  BY DEF KindLists
<1>8. WholeDocument(scope) \/ (HasNode(scope) /\ ~WholeDocument(scope))
  BY <1>1 DEF DirtyScopes, WholeDocument, HasNode, AtNode, UnderNode, Document, Viewport
<1>9. /\ WholeDocument(scope) => ~HasNode(scope) /\ scope.kind \notin {"Node", "Subtree"}
  BY DEF WholeDocument, HasNode, Document, Viewport
<1> HIDE DEF plan, b, i, scope
<1>10. ~WholeDocument(scope) =>
         /\ HasNode(input.scope) /\ HasNode(scope) /\ scope.node = input.scope.node
         /\ input.scope.kind = "Subtree" => scope.kind = "Subtree"
  BY <1>1 DEF Reaches
<1>11. i.style # "None" => b.style # "None"
  BY <1>5, <1>6, <1>7, AtLeastOrders
<1>12. i.layout # "None" => b.layout # "None"
  BY <1>5, <1>6, <1>7, AtLeastOrders
<1>13. i.paint # "None" => b.paint # "None"
  BY <1>5, <1>6, <1>7, AtLeastOrders
<1>14. (i.style = "Cascade" => b.style = "Cascade") /\ (i.rebuild = "FullPipeline" => b.rebuild = "FullPipeline")
  BY <1>5, <1>6, <1>7, AtLeastOrders
<1>15. AtLeast(Priorities, plan.priority, input.priority)
  BY <1>2 DEF Covers
<1>16. /\ i.style # "None" => plan.restyle_document \/ (HasNode(input.scope) /\ input.scope.node \in plan.style_nodes)
       /\ i.style = "Cascade" => plan.restyle_document
  BY <1>2, <1>8, <1>10, <1>11, <1>14
<1>17. i.layout # "None" => plan.rebuild_layout_tree \/ (HasNode(input.scope) /\ input.scope.node \in plan.layout_nodes)
  BY <1>2, <1>3, <1>8, <1>9, <1>10, <1>12
<1>18. i.layout = "Subtree" /\ input.scope.kind = "Subtree" => plan.rebuild_layout_tree
  BY <1>3, <1>5, <1>8, <1>9, <1>10, <1>12
<1>19. i.paint # "None" => plan.rebuild_paint_plan \/ (HasNode(input.scope) /\ input.scope.node \in plan.paint_nodes)
  BY <1>2, <1>4, <1>8, <1>9, <1>10, <1>13
<1>20. i.rebuild = "FullPipeline" => plan.full_viewport_paint
  BY <1>2, <1>14
<1> QED
  BY <1>15, <1>16, <1>17, <1>18, <1>19, <1>20 DEF Serves, plan, i

LEMMA InputsAreBatches ==
  Inputs \subseteq Batches
<1>1. /\ {"None", "Inline", "SelectorMatch", "Cascade"} \subseteq In(StyleKinds)
  BY DEF StyleKinds, In
<1>2. {"None", "IntrinsicSize", "Node", "Subtree", "Tree", "Viewport"} \subseteq In(LayoutKinds)
  BY DEF LayoutKinds, In
<1>3. {"None", "Node", "Subtree", "PaintPlan", "Viewport"} \subseteq In(PaintKinds)
  BY DEF PaintKinds, In
<1>4. {"None", "StyleOnly", "LayoutTree", "PaintPlan", "FullPipeline"} \subseteq In(Hints)
  BY DEF Hints, In
<1>5. {"Low", "Normal", "High", "Critical"} \subseteq In(Priorities)
  BY DEF Priorities, In
<1>6. ASSUME NEW s \in {"None", "Inline", "SelectorMatch", "Cascade"},
             NEW l \in {"None", "IntrinsicSize", "Node", "Subtree", "Tree", "Viewport"},
             NEW p \in {"None", "Node", "Subtree", "PaintPlan", "Viewport"},
             NEW r \in {"None", "StyleOnly", "LayoutTree", "PaintPlan", "FullPipeline"}
      PROVE  Impact(s, l, p, r) \in Impacts
  BY <1>1, <1>2, <1>3, <1>4 DEF Impact, Impacts
<1>7. /\ NoImpact \in Impacts /\ PaintImpact \in Impacts /\ StylePaintImpact \in Impacts
      /\ LayoutPaintImpact \in Impacts /\ FullPipelineImpact \in Impacts /\ RecalcImpact \in Impacts
      /\ Impact("None", "IntrinsicSize", "Subtree", "LayoutTree") \in Impacts
  BY <1>6 DEF NoImpact, PaintImpact, StylePaintImpact, LayoutPaintImpact, FullPipelineImpact,
              RecalcImpact
<1>8. /\ DirtyFlagImpact["Dom"] \in Impacts /\ DirtyFlagImpact["Style"] \in Impacts
      /\ DirtyFlagImpact["Layout"] \in Impacts /\ DirtyFlagImpact["Paint"] \in Impacts
      /\ DirtyFlagImpact["Lifecycle"] \in Impacts
  BY <1>6, <1>7 DEF DirtyFlagImpact
<1>9. ASSUME NEW impact \in Impacts, NEW flags,
             NEW flag \in {"Dom", "Style", "Layout", "Paint", "Lifecycle"}
      PROVE  MergeFlag(impact, flags, flag) \in Impacts
  BY <1>8, MergedFacts DEF MergeFlag
<1>10. \A flags : ImpactOfFlags(flags) \in Impacts
  BY <1>7, <1>9 DEF ImpactOfFlags
<1>11. /\ {Document, Viewport, Unknown} \subseteq DirtyScopes
       /\ \A n \in DirtyNodes : AtNode(n) \in DirtyScopes /\ UnderNode(n) \in DirtyScopes
  BY DEF DirtyScopes
<1>12. ReflowRequests \subseteq Batches
  BY <1>5, <1>10, <1>11, InputParts DEF ReflowRequests
<1>13. CssomMutations \subseteq Batches
  BY <1>5, <1>7, <1>11, InputParts DEF CssomMutations
<1>14. DomSnapshots \subseteq Batches
  BY <1>5, <1>7, <1>11, InputParts DEF DomSnapshots
<1>15. RawInputs \subseteq Batches
  BY <1>5, <1>7, <1>11, InputParts DEF RawInputs
<1> QED
  BY <1>12, <1>13, <1>14, <1>15 DEF Inputs

\* The plan of a flush serves all that is queued: PlanCoversInputs, for a
\* queue of any length and whatever nodes are in it, under the defaults of
\* the configuration (unknown_scope_is_document and coalesce_document_scope).
\* Without them it does not hold, as a scope of the document is then dropped.
THEOREM PlansServeEveryInput ==
  ASSUME UnknownScopeIsDocument, CoalesceDocumentScope
  PROVE  InvalidationSpec => []PlanCoversInputs
<1> DEFINE Queued == queue \in Seq(Batches)
<1>1. InvalidationInit => Queued
  BY EmptySeq DEF InvalidationInit
<1>2. ASSUME Queued, [InvalidationNext]_queue PROVE Queued'
  <2>1. ASSUME NEW input \in Inputs, Submit(input) PROVE Queued'
    BY <1>2, <2>1, InputsAreBatches, AppendProperties DEF Submit
  <2>2. CASE FlushPlan
    BY <2>2, EmptySeq DEF FlushPlan
  <2>3. CASE UNCHANGED queue
    BY <1>2, <2>3
  <2> QED
    BY <1>2, <2>1, <2>2, <2>3 DEF InvalidationNext
<1>3. Queued => PlanCoversInputs
  <2> SUFFICES ASSUME Queued PROVE PlanCoversInputs
    OBVIOUS
  <2>1. DOMAIN queue = 1 .. Len(queue) /\ \A i \in 1 .. Len(queue) : queue[i] \in Batches
    BY LenProperties, ElementOfSeq
  <2>2. ASSUME NEW i \in 1 .. Len(queue) PROVE Serves(FlushedPlan, queue[i])
    BY <2>1, EmptySeq, CoalesceCovers, PlanServes DEF FlushedPlan
  <2> QED
    BY <2>1, <2>2 DEF PlanCoversInputs, Serves
<1> QED
  BY <1>1, <1>2, <1>3, PTL DEF InvalidationSpec

-----------------------------------------------------------------------------
(* CacheStorage                                                            *)

\* What a cache may hold when the storage has given out rev revisions.
GoodEntries(rev) ==
  {entries \in UNION {[D -> 1 .. rev] : D \in SUBSET UrlSet} :
     IsFiniteSet(DOMAIN entries) /\ Cardinality(DOMAIN entries) <= MaxEntries}

GoodCaches(cs, rev) == \A name \in DOMAIN cs : cs[name] \in GoodEntries(rev)

CachesOK == revision \in Nat /\ GoodCaches(caches, revision)

RegistrationsOK ==
  /\ nextRegistration \in Nat /\ DOMAIN registrations \subseteq Scopes
  /\ \A s \in DOMAIN registrations :
       registrations[s] \in Registration /\ registrations[s].id < nextRegistration
  /\ \A s, t \in DOMAIN registrations : s # t => registrations[s].id # registrations[t].id

StorageInv == CachesOK /\ RegistrationsOK

LEMMA GoodEntriesFacts ==
  ASSUME NEW rev \in Nat, NEW entries
  PROVE  entries \in GoodEntries(rev) <=>
           /\ entries = [u \in DOMAIN entries |-> entries[u]]
           /\ DOMAIN entries \subseteq UrlSet
           /\ \A u \in DOMAIN entries : entries[u] \in 1 .. rev
           /\ IsFiniteSet(DOMAIN entries) /\ Cardinality(DOMAIN entries) <= MaxEntries
<1>1. ASSUME entries \in GoodEntries(rev)
      PROVE  /\ entries = [u \in DOMAIN entries |-> entries[u]]
             /\ DOMAIN entries \subseteq UrlSet
             /\ \A u \in DOMAIN entries : entries[u] \in 1 .. rev
             /\ IsFiniteSet(DOMAIN entries) /\ Cardinality(DOMAIN entries) <= MaxEntries
  BY <1>1 DEF GoodEntries
<1>2. ASSUME entries = [u \in DOMAIN entries |-> entries[u]],
             DOMAIN entries \subseteq UrlSet,
             \A u \in DOMAIN entries : entries[u] \in 1 .. rev,
             IsFiniteSet(DOMAIN entries), Cardinality(DOMAIN entries) <= MaxEntries
      PROVE  entries \in GoodEntries(rev)
  BY <1>2 DEF GoodEntries
<1> QED
  BY <1>1, <1>2

\* The first key is one of the keys.
LEMMA FirstKeyFacts ==
  ASSUME NEW entries, DOMAIN entries \subseteq UrlSet, DOMAIN entries # {}
  PROVE  FirstKey(entries) \in DOMAIN entries
<1> DEFINE places == {i \in DOMAIN Urls : Urls[i] \in DOMAIN entries}
<1>1. places \in SUBSET Nat /\ places # {}
  BY CacheStorageAssumption DEF UrlSet
<1>2. \E x \in places : \A y \in places : x <= y
  BY <1>1, LeastNatural
<1>3. Min(places) \in places
  BY <1>2 DEF Min
<1> QED
  BY <1>3 DEF FirstKey

LEMMA WithoutKeyFacts ==
  ASSUME NEW rev \in Nat, NEW entries \in GoodEntries(rev), NEW url \in DOMAIN entries
  PROVE  /\ WithoutKey(entries, url) \in GoodEntries(rev)
         /\ DOMAIN WithoutKey(entries, url) = DOMAIN entries \ {url}
         /\ Cardinality(DOMAIN WithoutKey(entries, url)) < MaxEntries
<1> DEFINE fewer == WithoutKey(entries, url)
<1>1. /\ fewer = [u \in DOMAIN fewer |-> fewer[u]] /\ DOMAIN fewer = DOMAIN entries \ {url}
      /\ \A u \in DOMAIN fewer : fewer[u] = entries[u] /\ u \in DOMAIN entries
  BY DEF WithoutKey
<1>2. /\ DOMAIN entries \subseteq UrlSet /\ IsFiniteSet(DOMAIN entries)
      /\ \A u \in DOMAIN entries : entries[u] \in 1 .. rev
      /\ Cardinality(DOMAIN entries) <= MaxEntries
  BY GoodEntriesFacts
<1> HIDE DEF fewer
<1>3. /\ IsFiniteSet(DOMAIN fewer) /\ Cardinality(DOMAIN fewer) = Cardinality(DOMAIN entries) - 1
      /\ Cardinality(DOMAIN entries) \in Nat
  BY <1>1, <1>2, FS_RemoveElement, FS_CardinalityType
<1>4. Cardinality(DOMAIN fewer) < MaxEntries
  BY <1>2, <1>3, CacheStorageAssumption
<1>5. Cardinality(DOMAIN fewer) <= MaxEntries /\ DOMAIN fewer \subseteq UrlSet
  BY <1>1, <1>2, <1>3, CacheStorageAssumption
<1>6. fewer \in GoodEntries(rev)
  BY <1>1, <1>2, <1>3, <1>5, GoodEntriesFacts
<1> QED
  BY <1>1, <1>4, <1>6 DEF fewer

LEMMA WithKeyFacts ==
  ASSUME NEW rev \in Nat, NEW entries \in GoodEntries(rev), NEW url \in UrlSet,
         NEW later \in 1 .. rev,
         url \in DOMAIN entries \/ Cardinality(DOMAIN entries) < MaxEntries
  PROVE  /\ WithKey(entries, url, later) \in GoodEntries(rev)
         /\ url \in DOMAIN WithKey(entries, url, later)
         /\ WithKey(entries, url, later)[url] = later
<1> DEFINE more == WithKey(entries, url, later)
<1>1. /\ more = [u \in DOMAIN more |-> more[u]] /\ DOMAIN more = DOMAIN entries \cup {url}
      /\ more[url] = later
      /\ \A u \in DOMAIN more : u # url => more[u] = entries[u] /\ u \in DOMAIN entries
  BY DEF WithKey
<1>2. /\ DOMAIN entries \subseteq UrlSet /\ IsFiniteSet(DOMAIN entries)
      /\ \A u \in DOMAIN entries : entries[u] \in 1 .. rev
      /\ Cardinality(DOMAIN entries) <= MaxEntries
  BY GoodEntriesFacts
<1> HIDE DEF more
<1>3. /\ IsFiniteSet(DOMAIN more) /\ Cardinality(DOMAIN entries) \in Nat
      /\ Cardinality(DOMAIN more) = IF url \in DOMAIN entries THEN Cardinality(DOMAIN entries)
                                    ELSE Cardinality(DOMAIN entries) + 1
  BY <1>1, <1>2, FS_AddElement, FS_CardinalityType
<1>4. Cardinality(DOMAIN more) <= MaxEntries
  BY <1>2, <1>3, CacheStorageAssumption
<1>5. DOMAIN more \subseteq UrlSet
  BY <1>1, <1>2
<1>6. \A u \in DOMAIN more : more[u] \in 1 .. rev
  BY <1>1, <1>2
<1>7. more \in GoodEntries(rev)
  BY <1>1, <1>3, <1>4, <1>5, <1>6, GoodEntriesFacts
<1> QED
  BY <1>1, <1>7 DEF more

LEMMA PutEntryFacts ==
  ASSUME NEW rev \in Nat, NEW entries \in GoodEntries(rev), NEW url \in UrlSet,
         NEW later \in 1 .. rev
  PROVE  /\ PutEntry(entries, url, later) \in GoodEntries(rev)
         /\ url \in DOMAIN PutEntry(entries, url, later)
         /\ PutEntry(entries, url, later)[url] = later
<1>1. /\ DOMAIN entries \subseteq UrlSet /\ IsFiniteSet(DOMAIN entries)
      /\ Cardinality(DOMAIN entries) \in Nat
  BY GoodEntriesFacts, FS_CardinalityType
<1>2. CASE Cardinality(DOMAIN entries) >= MaxEntries /\ url \notin DOMAIN entries
  <2> DEFINE key == FirstKey(entries)
             room == WithoutKey(entries, key)
  <2>1. DOMAIN entries # {}
    BY <1>1, <1>2, FS_EmptySet, CacheStorageAssumption
  <2>2. key \in DOMAIN entries
    BY <1>1, <2>1, FirstKeyFacts
  <2>3. PutEntry(entries, url, later) = WithKey(room, url, later)
    BY <1>2 DEF PutEntry
  <2> HIDE DEF key
  <2>4. room \in GoodEntries(rev) /\ Cardinality(DOMAIN room) < MaxEntries
    BY <2>2, WithoutKeyFacts
  <2> HIDE DEF room
  <2> QED
    BY <2>3, <2>4, WithKeyFacts
<1>3. CASE ~(Cardinality(DOMAIN entries) >= MaxEntries /\ url \notin DOMAIN entries)
  BY <1>1, <1>3, CacheStorageAssumption, WithKeyFacts DEF PutEntry
<1> QED
  BY <1>2, <1>3

LEMMA EntriesOfFacts ==
  ASSUME NEW cs, NEW rev \in Nat, GoodCaches(cs, rev), NEW name
  PROVE  EntriesOf(cs, name) \in GoodEntries(rev)
<1>1. <<>> \in GoodEntries(rev)
  <2> DEFINE none == <<>>
  <2>1. DOMAIN none = {} /\ none = [u \in DOMAIN none |-> none[u]]
    OBVIOUS
  <2> HIDE DEF none
  <2>2. IsFiniteSet(DOMAIN none) /\ Cardinality(DOMAIN none) = 0
    BY <2>1, FS_EmptySet
  <2>3. /\ DOMAIN none \subseteq UrlSet /\ Cardinality(DOMAIN none) <= MaxEntries
        /\ \A u \in DOMAIN none : none[u] \in 1 .. rev
    BY <2>1, <2>2, CacheStorageAssumption
  <2>4. none \in GoodEntries(rev)
    BY <2>1, <2>2, <2>3, GoodEntriesFacts
  <2> QED
    BY <2>4 DEF none
<1> QED
  BY <1>1 DEF EntriesOf, GoodCaches

LEMMA LaterRevisions ==
  ASSUME NEW rev \in Nat, NEW later \in Nat, rev <= later
  PROVE  /\ GoodEntries(rev) \subseteq GoodEntries(later)
         /\ \A cs : GoodCaches(cs, rev) => GoodCaches(cs, later)
<1>1. \A r \in 1 .. rev : r \in 1 .. later
  OBVIOUS
<1>2. ASSUME NEW entries \in GoodEntries(rev) PROVE entries \in GoodEntries(later)
  BY <1>1, GoodEntriesFacts
<1> QED
  BY <1>2 DEF GoodCaches

\* The puts of a list of URLs: the cache stays within its limit, and holds
\* the entry that was put last.
LEMMA PutAllFacts ==
  ASSUME NEW cs, NEW rev \in Nat, GoodCaches(cs, rev), NEW name, NEW urls \in Seq(UrlSet)
  PROVE  LET later == rev + Len(urls)
             after == PutAll(cs, name, urls, rev)
         IN  /\ later \in Nat /\ GoodCaches(after, later) /\ name \in DOMAIN after
             /\ later # rev => \E url \in DOMAIN after[name] : after[name][url] = later
<1> DEFINE n == Len(urls)
           later == rev + n
           T == GoodEntries(later)
           Put(f) == [i \in 0 .. n |-> IF i = 0 THEN EntriesOf(cs, name)
                                       ELSE PutEntry(f[i - 1], urls[i], rev + i)]
           f == CHOOSE g : g = Put(g)
           after == PutAll(cs, name, urls, rev)
           opened == Opened(cs, name)
<1>1. /\ n \in Nat /\ later \in Nat /\ rev <= later
      /\ \A i \in 1 .. n : urls[i] \in UrlSet /\ rev + i \in 1 .. later
  <2>1. n \in Nat /\ \A i \in 1 .. n : urls[i] \in UrlSet
    BY LenProperties, ElementOfSeq
  <2> HIDE DEF n
  <2> QED
    BY <2>1
<1>2. after = [opened EXCEPT ![name] = f[n]]
  BY DEF PutAll
<1> HIDE DEF n
<1>3. EntriesOf(cs, name) \in T
  BY <1>1, EntriesOfFacts, LaterRevisions
<1>4. \A i \in 1 .. n : \A entries \in T :
        /\ PutEntry(entries, urls[i], rev + i) \in T
        /\ urls[i] \in DOMAIN PutEntry(entries, urls[i], rev + i)
        /\ PutEntry(entries, urls[i], rev + i)[urls[i]] = rev + i
  <2> HIDE DEF later
  <2> SUFFICES ASSUME NEW i \in 1 .. n, NEW entries \in T
               PROVE  /\ PutEntry(entries, urls[i], rev + i) \in T
                      /\ urls[i] \in DOMAIN PutEntry(entries, urls[i], rev + i)
                      /\ PutEntry(entries, urls[i], rev + i)[urls[i]] = rev + i
    OBVIOUS
  <2> DEFINE url == urls[i]
             at == rev + i
  <2>1. url \in UrlSet /\ at \in 1 .. later
    BY <1>1
  <2> HIDE DEF url, at
  <2>2. /\ PutEntry(entries, url, at) \in T /\ url \in DOMAIN PutEntry(entries, url, at)
        /\ PutEntry(entries, url, at)[url] = at
    BY <1>1, <2>1, PutEntryFacts
  <2> QED
    BY <2>2 DEF url, at
<1> HIDE DEF T, later
<1>5. f = Put(f)
  <2> DEFINE first == EntriesOf(cs, name)
             step == [i \in 1 .. n |-> [entries \in T |-> PutEntry(entries, urls[i], rev + i)]]
             m == 0
  <2>1. m = 0 /\ m \in Nat /\ m <= n /\ m + 1 .. n = 1 .. n
    BY <1>1
  <2>2. step \in [1 .. n -> [T -> T]]
    BY <1>4
  <2>3. \A i \in 1 .. n : \A entries \in T :
          step[i][entries] = PutEntry(entries, urls[i], rev + i)
    OBVIOUS
  <2> HIDE DEF first, step, m
  <2>4. first \in T
    BY <1>3 DEF first
  <2>5. Loop(T, m, n, first, step)
    BY <1>1, <2>1, <2>2, <2>4 DEF Loop
  <2>6. Turns(T, m, n, first, step) # {}
    BY <2>5, Iterates
  <2>7. PICK g \in [m .. n -> T] :
          g[m] = first /\ \A i \in m + 1 .. n : g[i] = step[i][g[i - 1]]
    BY <2>6 DEF Turns
  <2>8. ASSUME NEW i \in 0 .. n
        PROVE  g[i] = IF i = 0 THEN EntriesOf(cs, name) ELSE PutEntry(g[i - 1], urls[i], rev + i)
    <3>1. CASE i = 0
      BY <2>1, <2>7, <3>1 DEF first
    <3>2. CASE i # 0
      <4>1. i \in 1 .. n /\ i - 1 \in 0 .. n
        BY <1>1, <3>2
      <4>2. g[i - 1] \in T
        BY <2>1, <2>7, <4>1
      <4> QED
        BY <2>1, <2>3, <2>7, <3>2, <4>1, <4>2
    <3> QED
      BY <3>1, <3>2
  <2>9. g = Put(g)
    BY <2>1, <2>7, <2>8
  <2> QED
    BY <2>9
<1> HIDE DEF f
<1>6. /\ f[0] = EntriesOf(cs, name)
      /\ \A i \in 1 .. n : f[i] = PutEntry(f[i - 1], urls[i], rev + i)
  BY <1>1, <1>5
<1>7. \A i \in 0 .. n : f[i] \in T
  <2> DEFINE Good == {i \in 0 .. n : f[i] \in T}
  <2>1. 0 \in Good
    BY <1>1, <1>3, <1>6
  <2>2. ASSUME NEW i \in 0 .. n - 1, i \in Good PROVE i + 1 \in Good
    BY <1>1, <1>4, <1>6, <2>2
  <2> HIDE DEF Good
  <2>3. 0 .. n \subseteq Good
    BY <1>1, <2>1, <2>2, CountingUp
  <2> QED
    BY <2>3 DEF Good
<1>8. f[n] \in T /\ (n # 0 => urls[n] \in DOMAIN f[n] /\ f[n][urls[n]] = later)
  <2>1. n \in 0 .. n /\ (n # 0 => n \in 1 .. n /\ n - 1 \in 0 .. n)
    BY <1>1
  <2>2. f[n] \in T
    BY <1>7, <2>1
  <2>3. ASSUME n # 0 PROVE urls[n] \in DOMAIN f[n] /\ f[n][urls[n]] = rev + n
    BY <1>4, <1>6, <1>7, <2>1, <2>3
  <2> QED
    BY <2>2, <2>3 DEF later
<1>9. /\ DOMAIN opened = DOMAIN cs \cup {name}
      /\ \A x \in DOMAIN opened : opened[x] = EntriesOf(cs, x)
  BY DEF Opened
<1> HIDE DEF opened, after
<1>10. /\ DOMAIN after = DOMAIN opened /\ name \in DOMAIN after /\ after[name] = f[n]
       /\ \A x \in DOMAIN after : x # name => after[x] = opened[x]
  BY <1>2, <1>9
<1>11. GoodCaches(after, later)
  BY <1>1, <1>8, <1>9, <1>10, EntriesOfFacts, LaterRevisions DEF T, GoodCaches
<1>12. ASSUME later # rev PROVE \E url \in DOMAIN after[name] : after[name][url] = later
  BY <1>1, <1>8, <1>10, <1>12 DEF later
<1> QED
  BY <1>1, <1>10, <1>11, <1>12 DEF after, later, n

\* What a step promises of the caches.
CachesKept(cs, rev, csAfter, revAfter) ==
  /\ revAfter \in Nat /\ GoodCaches(csAfter, revAfter)
  /\ revAfter # rev => \E name \in DOMAIN csAfter : \E url \in DOMAIN csAfter[name] :
                         csAfter[name][url] = revAfter

LEMMA UrlListsFacts ==
  ASSUME NEW max \in Nat, NEW urls \in UrlLists(max)
  PROVE  urls \in Seq(UrlSet)
BY DEF UrlLists

LEMMA PuttingKeeps ==
  ASSUME CachesOK, NEW name, NEW urls \in Seq(UrlSet),
         caches' = PutAll(caches, name, urls, revision), revision' = revision + Len(urls)
  PROVE  CachesKept(caches, revision, caches', revision')
<1> DEFINE later == revision + Len(urls)
           after == PutAll(caches, name, urls, revision)
<1>1. /\ later \in Nat /\ GoodCaches(after, later) /\ name \in DOMAIN after
      /\ later # revision => \E url \in DOMAIN after[name] : after[name][url] = later
  BY PutAllFacts DEF CachesOK
<1>2. caches' = after /\ revision' = later
  OBVIOUS
<1> HIDE DEF after, later
<1> QED
  BY <1>1, <1>2 DEF CachesKept

LEMMA OpeningKeeps ==
  ASSUME CachesOK, NEW name, OpenCache(name)
  PROVE  CachesKept(caches, revision, caches', revision')
<1>1. \A x \in DOMAIN caches' : caches'[x] = EntriesOf(caches, x)
  BY DEF OpenCache, Opened
<1>2. \A x : EntriesOf(caches, x) \in GoodEntries(revision)
  BY EntriesOfFacts DEF CachesOK
<1> QED
  BY <1>1, <1>2 DEF CachesKept, GoodCaches, CachesOK, OpenCache

LEMMA DeletingKeeps ==
  ASSUME CachesOK, NEW name, DeleteCache(name) \/ \E url \in UrlSet : DeleteEntry(name, url)
  PROVE  CachesKept(caches, revision, caches', revision')
<1>1. CASE DeleteCache(name)
  BY <1>1 DEF DeleteCache, CachesOK, GoodCaches, CachesKept
<1>2. ASSUME NEW url \in UrlSet, DeleteEntry(name, url)
      PROVE  CachesKept(caches, revision, caches', revision')
  <2> DEFINE fewer == WithoutKey(caches[name], url)
  <2>1. /\ url \in DOMAIN EntriesOf(caches, name) /\ revision' = revision
        /\ caches' = [caches EXCEPT ![name] = fewer]
    BY <1>2 DEF DeleteEntry
  <2>2. name \in DOMAIN caches
    BY <2>1 DEF EntriesOf
  <2>3. fewer \in GoodEntries(revision)
    BY <2>1, <2>2, WithoutKeyFacts DEF EntriesOf, CachesOK, GoodCaches
  <2> HIDE DEF fewer
  <2>4. \A x \in DOMAIN caches' : caches'[x] = (IF x = name THEN fewer ELSE caches[x]) /\ x \in DOMAIN caches
    BY <2>1
  <2> QED
    BY <2>1, <2>3, <2>4 DEF CachesKept, CachesOK, GoodCaches
<1> QED
  BY <1>1, <1>2

LEMMA CachesStep ==
  ASSUME CachesOK, [StorageNext]_storageVars
  PROVE  CachesOK' /\ CachesKept(caches, revision, caches', revision')
<1> SUFFICES CachesKept(caches, revision, caches', revision')
  BY DEF CachesKept, CachesOK
<1> USE CacheStorageAssumption
<1>1. ASSUME NEW name \in CacheNames, OpenCache(name)
      PROVE  CachesKept(caches, revision, caches', revision')
  BY <1>1, OpeningKeeps
<1>2. ASSUME NEW name \in CacheNames, DeleteCache(name) \/ \E url \in UrlSet : DeleteEntry(name, url)
      PROVE  CachesKept(caches, revision, caches', revision')
  BY <1>2, DeletingKeeps
<1>3. ASSUME NEW name \in CacheNames, NEW urls \in UrlLists(MaxAdded), AddAll(name, urls)
      PROVE  CachesKept(caches, revision, caches', revision')
  BY <1>3, UrlListsFacts, PuttingKeeps DEF AddAll
<1>4. ASSUME NEW name \in CacheNames, NEW scope \in Scopes, NEW analysis \in ScriptAnalysis,
             NEW urls \in UrlLists(MaxPrecache),
             RegisterServiceWorker(scope, analysis, name, urls)
      PROVE  CachesKept(caches, revision, caches', revision')
  BY <1>4, UrlListsFacts, PuttingKeeps DEF RegisterServiceWorker
<1>5. CASE UNCHANGED <<caches, revision>>
  BY <1>5 DEF CachesKept, CachesOK
<1>6. ASSUME NEW scope \in Scopes, UnregisterScope(scope)
      PROVE  CachesKept(caches, revision, caches', revision')
  BY <1>5, <1>6 DEF UnregisterScope
<1>7. CASE UNCHANGED storageVars
  BY <1>5, <1>7 DEF storageVars
<1> QED
  BY <1>1, <1>2, <1>3, <1>4, <1>6, <1>7 DEF StorageNext

\* Registering: the scope's own id, or the next.
LEMMA RegisteringKeepsIds ==
  ASSUME RegistrationsOK, NEW scope \in Scopes, NEW analysis \in ScriptAnalysis, NEW name, NEW urls,
         RegisterServiceWorker(scope, analysis, name, urls)
  PROVE  RegistrationsOK' /\ IdsNameRegistrations
<1> DEFINE new == [id |-> IdFor(scope), analysis |-> analysis]
<1>1. /\ registrations' = [s \in DOMAIN registrations \cup {scope} |->
                             IF s = scope THEN new ELSE registrations[s]]
      /\ nextRegistration' = IF IdFor(scope) = nextRegistration THEN nextRegistration + 1
                             ELSE nextRegistration
  BY DEF RegisterServiceWorker
<1>2. /\ nextRegistration \in Nat /\ DOMAIN registrations \subseteq Scopes
      /\ \A s \in DOMAIN registrations :
           /\ registrations[s] \in Registration /\ registrations[s].id \in Nat
           /\ registrations[s].id < nextRegistration
      /\ \A s, t \in DOMAIN registrations : s # t => registrations[s].id # registrations[t].id
  BY DEF RegistrationsOK, Registration
<1>3. /\ IdFor(scope) \in Nat
      /\ IF scope \in DOMAIN registrations
         THEN IdFor(scope) = registrations[scope].id /\ IdFor(scope) < nextRegistration
         ELSE IdFor(scope) = nextRegistration
  BY <1>2 DEF IdFor
<1>4. new \in Registration /\ new.id = IdFor(scope)
  BY <1>3 DEF Registration
<1> HIDE DEF new
<1>5. /\ DOMAIN registrations' = DOMAIN registrations \cup {scope}
      /\ registrations'[scope] = new
      /\ \A s \in DOMAIN registrations' : s # scope =>
           s \in DOMAIN registrations /\ registrations'[s] = registrations[s]
  BY <1>1
<1>10. DOMAIN registrations' \subseteq Scopes
  BY <1>2, <1>5
<1>6. /\ nextRegistration' \in Nat /\ nextRegistration <= nextRegistration'
      /\ IdFor(scope) < nextRegistration'
  BY <1>1, <1>2, <1>3
<1>7. \A s \in DOMAIN registrations' :
        registrations'[s] \in Registration /\ registrations'[s].id < nextRegistration'
  BY <1>2, <1>4, <1>5, <1>6
<1>8. \A s, t \in DOMAIN registrations' : s # t => registrations'[s].id # registrations'[t].id
  BY <1>2, <1>3, <1>4, <1>5
<1>9. \A s \in DOMAIN registrations' :
        IF s \in DOMAIN registrations THEN registrations'[s].id = registrations[s].id
        ELSE registrations'[s].id >= nextRegistration
  BY <1>2, <1>3, <1>4, <1>5
<1> QED
  BY <1>10, <1>6, <1>7, <1>8, <1>9 DEF RegistrationsOK, IdsNameRegistrations

LEMMA RegistrationsStep ==
  ASSUME RegistrationsOK, [StorageNext]_storageVars
  PROVE  RegistrationsOK' /\ IdsNameRegistrations
<1>1. ASSUME NEW scope \in Scopes, NEW analysis \in ScriptAnalysis, NEW name, NEW urls,
             RegisterServiceWorker(scope, analysis, name, urls)
      PROVE  RegistrationsOK' /\ IdsNameRegistrations
  BY <1>1, RegisteringKeepsIds
<1>2. ASSUME NEW scope \in Scopes, UnregisterScope(scope) PROVE RegistrationsOK' /\ IdsNameRegistrations
  BY <1>2 DEF UnregisterScope, RegistrationsOK, IdsNameRegistrations
<1>3. CASE UNCHANGED <<registrations, nextRegistration>>
  BY <1>3 DEF RegistrationsOK, IdsNameRegistrations
<1>4. CASE UNCHANGED storageVars
  BY <1>3, <1>4 DEF storageVars
<1>5. ASSUME NEW name, \/ OpenCache(name) \/ DeleteCache(name)
                       \/ \E urls \in UrlLists(MaxAdded) : AddAll(name, urls)
                       \/ \E url \in UrlSet : DeleteEntry(name, url)
      PROVE  RegistrationsOK' /\ IdsNameRegistrations
  BY <1>3, <1>5 DEF OpenCache, DeleteCache, AddAll, DeleteEntry
<1> QED
  BY <1>1, <1>2, <1>4, <1>5 DEF StorageNext

\* The longest of the scopes of a URL is one of them.
LEMMA ControllerFacts ==
  ASSUME DOMAIN registrations \subseteq Scopes, NEW url \in UrlSet, ControllerScopes(url) # {}
  PROVE  ControllerForUrl(url) \in ControllerScopes(url)
<1> DEFINE above == ControllerScopes(url)
           rest == {Len(url) - Len(s) : s \in above}
<1>1. Len(url) \in Nat
  BY CacheStorageAssumption, ElementOfSeq, LenProperties DEF UrlSet
<1>2. \A s \in above : Len(s) \in Nat /\ Len(s) <= Len(url)
  BY CacheStorageAssumption, LenProperties DEF ControllerScopes, IsPrefix
<1> HIDE DEF above
<1>3. rest \in SUBSET Nat /\ rest # {}
  BY <1>1, <1>2 DEF above
<1>4. PICK x \in rest : \A y \in rest : x <= y
  BY <1>3, LeastNatural
<1>5. PICK s \in above : x = Len(url) - Len(s)
  BY <1>4
<1>6. ASSUME NEW t \in above PROVE Len(t) <= Len(s)
  <2>1. Len(url) - Len(t) \in rest
    OBVIOUS
  <2>2. Len(url) - Len(s) <= Len(url) - Len(t)
    BY <1>4, <1>5, <2>1
  <2> QED
    BY <1>1, <1>2, <2>2
<1> QED
  BY <1>6 DEF ControllerForUrl, above

\* No scope above a URL changes, and the caches do not: the URL is answered
\* as before.
LEMMA SeparateScopes ==
  ASSUME DOMAIN registrations \subseteq Scopes
  PROVE  ScopesAreSeparate
<1> SUFFICES ASSUME NEW url \in UrlSet, caches' = caches,
                    \A s \in DOMAIN registrations \cup DOMAIN registrations' :
                      IsPrefix(s, url) =>
                        /\ s \in DOMAIN registrations /\ s \in DOMAIN registrations'
                        /\ registrations[s] = registrations'[s]
             PROVE  Intercepts(url)' = Intercepts(url)
  BY DEF ScopesAreSeparate
<1>1. ControllerScopes(url)' = ControllerScopes(url)
  BY DEF ControllerScopes, Controls
<1>2. ControllerForUrl(url)' = ControllerForUrl(url)
  BY <1>1 DEF ControllerForUrl
<1>3. MatchAny(url)' = MatchAny(url)
  BY DEF MatchAny
<1>4. CASE ControllerScopes(url) = {}
  BY <1>1, <1>4 DEF Intercepts
<1>5. CASE ControllerScopes(url) # {}
  <2> DEFINE s == ControllerForUrl(url)
  <2>1. s \in ControllerScopes(url)
    BY <1>5, ControllerFacts
  <2>2. registrations'[s] = registrations[s]
    BY <2>1 DEF ControllerScopes
  <2> HIDE DEF s
  <2> DEFINE Answers(analysis) == analysis.fetchListener \/ analysis.cacheFirst
  <2>3. /\ Intercepts(url) = (Answers(registrations[s].analysis) /\ MatchAny(url) # {})
        /\ Intercepts(url)' = (Answers(registrations'[s].analysis) /\ MatchAny(url)' # {})
    BY <1>1, <1>2, <1>5 DEF Intercepts, s
  <2> QED
    BY <1>3, <2>2, <2>3
<1> QED
  BY <1>4, <1>5

LEMMA StorageTypes ==
  StorageInv => StorageTypeOK
<1> SUFFICES ASSUME StorageInv PROVE StorageTypeOK
  OBVIOUS
<1>1. ASSUME NEW name \in DOMAIN caches
      PROVE  /\ Cardinality(DOMAIN caches[name]) <= MaxEntries
             /\ \A u \in DOMAIN caches[name] : caches[name][u] <= revision
  BY GoodEntriesFacts DEF StorageInv, CachesOK, GoodCaches
<1> QED
  BY <1>1 DEF StorageTypeOK, StorageInv, RegistrationsOK

\* No cache holds more than its limit, each entry has a revision that was
\* given out, and no two scopes share an id (ResearchCacheStorage and
\* ResearchServiceWorkerHost of cache_api.rs).
THEOREM StorageInvariance ==
  StorageSpec => []StorageInv
<1>1. StorageInit => StorageInv
  BY DEF StorageInit, StorageInv, CachesOK, GoodCaches, RegistrationsOK
<1>2. StorageInv /\ [StorageNext]_storageVars => StorageInv'
  BY CachesStep, RegistrationsStep DEF StorageInv
<1> QED
  BY <1>1, <1>2, PTL DEF StorageSpec

\* PutIsKept, of caches of any size and any number of them: what put, add,
\* addAll or a precache stored last is there when it returns, as the entry
\* that makes room is chosen before the new one is put in.
THEOREM PutsAreKept ==
  StorageSpec => PutIsKept
<1>1. ASSUME StorageInv, [StorageNext]_storageVars
      PROVE  /\ \A name \in DOMAIN caches' : Cardinality(DOMAIN caches'[name]) <= MaxEntries
             /\ revision' # revision =>
                  \E name \in DOMAIN caches' : \E url \in DOMAIN caches'[name] :
                    caches'[name][url] = revision'
  BY <1>1, CachesStep, GoodEntriesFacts DEF StorageInv, CachesKept, GoodCaches
<1> QED
  BY <1>1, StorageInvariance, PTL DEF StorageSpec, PutIsKept

\* RegistrationsAreSeparate, of any number of scopes: an id is of one scope
\* for good, and who answers a request changes only with the caches or with
\* a registration whose scope the request lies in.
THEOREM RegistrationsStaySeparate ==
  StorageSpec => RegistrationsAreSeparate
<1>1. ASSUME StorageInv, StorageInv', [StorageNext]_storageVars
      PROVE  StorageTypeOK' /\ IdsNameRegistrations /\ ScopesAreSeparate
  <2>1. StorageTypeOK'
    BY <1>1, StorageTypes, PTL
  <2>2. IdsNameRegistrations
    BY <1>1, RegistrationsStep DEF StorageInv
  <2> QED
    BY <1>1, <2>1, <2>2, SeparateScopes DEF StorageInv, RegistrationsOK
<1> QED
  BY <1>1, StorageInvariance, PTL DEF StorageSpec, RegistrationsAreSeparate

-----------------------------------------------------------------------------
(* ScriptStores                                                            *)

PageFields ==
  {"at", "opened", "url", "scripts", "effects", "fetches", "jar", "jarDirty", "local", "localDirty", "session",
   "entries", "current", "navigations"}

JarOK(jar) == IsList(jar) /\ JarIsSound(jar)

ItemsOf(items, origin) == \A k \in DOMAIN items : items[k].by = origin

HistoryOf(entries, url) == IsList(entries) /\ \A i \in 1 .. Len(entries) : SameOrigin(entries[i].url, url)

\* What a page holds of the stores is its origin's.
HeldOK(page) ==
  /\ DOMAIN page = PageFields
  /\ JarOK(page.jar)
  /\ ItemsOf(page.local, OriginKey(page.opened)) /\ ItemsOf(page.session, OriginKey(page.opened))
  /\ SameOrigin(page.url, page.opened)
  /\ HistoryOf(page.entries, page.opened) /\ page.current \in 1 .. Len(page.entries)

\* What an effect leaves alone.
Fixed(page, next) ==
  next.opened = page.opened /\ next.effects = page.effects /\ next.scripts = page.scripts

\* What an effect makes of a page.
Keeps(page, next) == HeldOK(next) /\ Fixed(page, next)

LEMMA OriginFacts ==
  ASSUME NEW a, NEW b, NEW c
  PROVE  /\ SameOrigin(a, a)
         /\ SameOrigin(a, b) => SameOrigin(b, a) /\ OriginKey(a) = OriginKey(b)
         /\ SameOrigin(a, b) /\ SameOrigin(b, c) => SameOrigin(a, c)
BY DEF SameOrigin, OriginKey

LEMMA StaysAsItIs ==
  ASSUME NEW page, HeldOK(page)
  PROVE  Keeps(page, page)
BY DEF Keeps, Fixed

LEMMA EmptyJar ==
  JarOK(<<>>)
<1> DEFINE none == <<>>
<1>1. IsList(none) /\ Len(none) = 0 /\ DOMAIN none = 1 .. Len(none)
  BY EmptyList, ListFacts
<1> HIDE DEF none
<1>2. JarIsSound(none)
  BY <1>1, StoresAssumption DEF JarIsSound
<1> QED
  BY <1>1, <1>2 DEF JarOK, none

\* retain, and the cookies left without one, are a jar.
LEMMA PickedJar ==
  ASSUME NEW jar, JarOK(jar), NEW S \in SUBSET DOMAIN jar
  PROVE  /\ JarOK(Picked(jar, S)) /\ Len(Picked(jar, S)) <= Len(jar)
         /\ \A i \in 1 .. Len(Picked(jar, S)) : \E j \in S : Picked(jar, S)[i] = jar[j]
<1> DEFINE kept == Picked(jar, S)
<1>1. /\ IsList(jar) /\ DOMAIN jar = 1 .. Len(jar) /\ Len(jar) \in Nat /\ Len(jar) <= MaxCookies
      /\ \A i, j \in DOMAIN jar : i # j => ~SameCookie(jar[i], jar[j])
      /\ \A i \in DOMAIN jar : AtOrBelow(jar[i].by, jar[i].domain)
  BY ListFacts DEF JarOK, JarIsSound
<1>2. IsList(kept) /\ Len(kept) <= Len(jar) /\ \E places : PicksFrom(jar, S, kept, places)
  BY <1>1, PickedList
<1>3. PICK places : PicksFrom(jar, S, kept, places)
  BY <1>2
<1>4. Len(kept) \in Nat /\ DOMAIN kept = 1 .. Len(kept)
  BY <1>2, ListFacts
<1> HIDE DEF kept
<1>5. /\ \A n \in 1 .. Len(kept) : places[n] \in S /\ kept[n] = jar[places[n]] /\ places[n] \in 1 .. Len(jar)
      /\ \A n, m \in 1 .. Len(kept) : n < m => places[n] < places[m]
  BY <1>1, <1>3 DEF PicksFrom
<1>6. ASSUME NEW i \in 1 .. Len(kept), NEW j \in 1 .. Len(kept), i # j
      PROVE  ~SameCookie(kept[i], kept[j])
  <2>1. places[i] # places[j]
    BY <1>4, <1>5, <1>6
  <2> QED
    BY <1>1, <1>5, <2>1
<1>7. \A i \in 1 .. Len(kept) : AtOrBelow(kept[i].by, kept[i].domain)
  BY <1>1, <1>5
<1>8. Len(kept) <= MaxCookies
  BY <1>1, <1>2, <1>4, StoresAssumption
<1>9. JarOK(kept)
  BY <1>2, <1>4, <1>6, <1>7, <1>8 DEF JarOK, JarIsSound
<1> QED
  BY <1>2, <1>5, <1>9 DEF kept

\* The oldest cookie of a jar is taken out.
LEMMA TailJar ==
  ASSUME NEW jar, JarOK(jar), Len(jar) > 0
  PROVE  /\ JarOK(Tail(jar)) /\ Len(Tail(jar)) = Len(jar) - 1
         /\ \A i \in 1 .. Len(jar) - 1 : Tail(jar)[i] = jar[i + 1]
<1> DEFINE rest == Tail(jar)
<1>1. /\ IsList(jar) /\ DOMAIN jar = 1 .. Len(jar) /\ Len(jar) \in Nat /\ Len(jar) <= MaxCookies
      /\ \A i, j \in DOMAIN jar : i # j => ~SameCookie(jar[i], jar[j])
      /\ \A i \in DOMAIN jar : AtOrBelow(jar[i].by, jar[i].domain)
  BY ListFacts DEF JarOK, JarIsSound
<1>2. IsList(rest) /\ Len(rest) = Len(jar) - 1 /\ \A i \in 1 .. Len(jar) - 1 : rest[i] = jar[i + 1]
  BY <1>1, TailList
<1>3. DOMAIN rest = 1 .. Len(rest)
  BY <1>2, ListFacts
<1> HIDE DEF rest
<1>4. \A i \in 1 .. Len(rest) : rest[i] = jar[i + 1] /\ i + 1 \in 1 .. Len(jar)
  BY <1>1, <1>2
<1>5. ASSUME NEW i \in 1 .. Len(rest), NEW j \in 1 .. Len(rest), i # j
      PROVE  ~SameCookie(rest[i], rest[j])
  BY <1>1, <1>2, <1>4, <1>5
<1>6. \A i \in 1 .. Len(rest) : AtOrBelow(rest[i].by, rest[i].domain)
  BY <1>1, <1>4
<1>7. Len(rest) <= MaxCookies
  BY <1>1, <1>2, StoresAssumption
<1>8. JarIsSound(rest)
  BY <1>3, <1>5, <1>6, <1>7 DEF JarIsSound
<1> QED
  BY <1>2, <1>8 DEF JarOK, rest

\* A cookie that is not yet in a jar with room is put at its end.
LEMMA AppendJar ==
  ASSUME NEW jar, JarOK(jar), Len(jar) < MaxCookies, NEW cookie,
         AtOrBelow(cookie.by, cookie.domain),
         \A i \in 1 .. Len(jar) : ~SameCookie(jar[i], cookie)
  PROVE  JarOK(Append(jar, cookie))
<1> DEFINE more == Append(jar, cookie)
<1>1. /\ IsList(jar) /\ DOMAIN jar = 1 .. Len(jar) /\ Len(jar) \in Nat
      /\ \A i, j \in DOMAIN jar : i # j => ~SameCookie(jar[i], jar[j])
      /\ \A i \in DOMAIN jar : AtOrBelow(jar[i].by, jar[i].domain)
  BY ListFacts DEF JarOK, JarIsSound
<1>2. /\ IsList(more) /\ Len(more) = Len(jar) + 1
      /\ \A i \in 1 .. Len(jar) : more[i] = jar[i]
      /\ more[Len(jar) + 1] = cookie
  BY <1>1, AppendList
<1>3. DOMAIN more = 1 .. Len(more)
  BY <1>2, ListFacts
<1> HIDE DEF more
<1>4. \A i \in 1 .. Len(more) : i \in 1 .. Len(jar) \/ i = Len(jar) + 1
  BY <1>1, <1>2
<1>5. \A a, b : SameCookie(a, b) => SameCookie(b, a)
  BY DEF SameCookie
<1>6. ASSUME NEW i \in 1 .. Len(more), NEW j \in 1 .. Len(more), i # j
      PROVE  ~SameCookie(more[i], more[j])
  BY <1>1, <1>2, <1>4, <1>5, <1>6
<1>7. \A i \in 1 .. Len(more) : AtOrBelow(more[i].by, more[i].domain)
  BY <1>1, <1>2, <1>4
<1>8. Len(more) <= MaxCookies
  BY <1>1, <1>2, StoresAssumption
<1>9. JarIsSound(more)
  BY <1>3, <1>6, <1>7, <1>8 DEF JarIsSound
<1> QED
  BY <1>2, <1>9 DEF JarOK, more

LEMMA WithoutCookieFacts ==
  ASSUME NEW jar, JarOK(jar), NEW cookie
  PROVE  /\ JarOK(WithoutCookie(jar, cookie)) /\ Len(WithoutCookie(jar, cookie)) <= MaxCookies
         /\ \A i \in 1 .. Len(WithoutCookie(jar, cookie)) : ~SameCookie(WithoutCookie(jar, cookie)[i], cookie)
<1> DEFINE S == {i \in DOMAIN jar : ~SameCookie(jar[i], cookie)}
           left == Picked(jar, S)
<1>1. WithoutCookie(jar, cookie) = left
  BY DEF WithoutCookie
<1>2. S \in SUBSET DOMAIN jar /\ \A j \in S : ~SameCookie(jar[j], cookie)
  OBVIOUS
<1> HIDE DEF S
<1>3. /\ JarOK(left) /\ Len(left) <= Len(jar)
      /\ \A i \in 1 .. Len(left) : \E j \in S : left[i] = jar[j]
  BY <1>2, PickedJar
<1> HIDE DEF left
<1>4. Len(left) <= MaxCookies
  BY <1>3 DEF JarOK, JarIsSound
<1> QED
  BY <1>1, <1>2, <1>3, <1>4

\* A page whose jar alone changes.
LEMMA JarChanges ==
  ASSUME NEW page, HeldOK(page), NEW jar, JarOK(jar), NEW dirty
  PROVE  Keeps(page, [page EXCEPT !.jar = jar, !.jarDirty = dirty])
BY DEF HeldOK, PageFields, Keeps, Fixed

\* document.cookie = ... leaves a sound jar.
LEMMA SetFromScriptKeeps ==
  ASSUME NEW page, HeldOK(page), NEW literal
  PROVE  Keeps(page, SetFromScript(page, literal))
<1> DEFINE cookie == ParseCookieAssignment(page.url, literal)
           normal == NormalizeCookieDomain(page.url, cookie)
           left == WithoutCookie(page.jar, cookie)
           others == WithoutCookie(page.jar, normal)
           room == IF Len(others) >= MaxCookies THEN Tail(others) ELSE others
           more == Append(room, normal)
<1>1. JarOK(page.jar)
  BY DEF HeldOK
<1>2. JarOK(left)
  BY <1>1, WithoutCookieFacts
<1>3. /\ JarOK(others) /\ Len(others) <= MaxCookies
      /\ \A i \in 1 .. Len(others) : ~SameCookie(others[i], normal)
  BY <1>1, WithoutCookieFacts
<1>4. ASSUME DomainMatches(page.url, cookie)
      PROVE  AtOrBelow(normal.by, normal.domain)
  <2>1. cookie.by = page.url.host /\ DOMAIN cookie = {"name", "value", "secure", "by", "domain", "path", "expires"}
    BY DEF ParseCookieAssignment
  <2> HIDE DEF cookie
  <2>2. CASE cookie.domain = <<>>
    BY <2>1, <2>2 DEF NormalizeCookieDomain, AtOrBelow
  <2>3. CASE cookie.domain # <<>>
    BY <1>4, <2>1, <2>3 DEF NormalizeCookieDomain, DomainMatches
  <2> QED
    BY <2>2, <2>3
<1> HIDE DEF others
<1>5. /\ JarOK(room) /\ Len(room) < MaxCookies
      /\ \A i \in 1 .. Len(room) : ~SameCookie(room[i], normal)
  <2>0. Len(others) \in Nat /\ MaxCookies \in Nat /\ MaxCookies > 0
    BY <1>3, ListFacts, StoresAssumption DEF JarOK
  <2>1. CASE Len(others) >= MaxCookies
    <3>1. room = Tail(others)
      BY <2>1
    <3>2. /\ JarOK(Tail(others)) /\ Len(Tail(others)) = Len(others) - 1
          /\ \A i \in 1 .. Len(others) - 1 : Tail(others)[i] = others[i + 1]
      BY <1>3, <2>0, <2>1, TailJar
    <3> HIDE DEF room
    <3>3. \A i \in 1 .. Len(room) : room[i] = others[i + 1] /\ i + 1 \in 1 .. Len(others)
      BY <2>0, <3>1, <3>2
    <3> QED
      BY <1>3, <2>0, <3>1, <3>2, <3>3
  <2>2. CASE ~(Len(others) >= MaxCookies)
    BY <1>3, <2>0, <2>2
  <2> QED
    BY <2>1, <2>2
<1> HIDE DEF room, normal
<1>6. ASSUME DomainMatches(page.url, cookie)
      PROVE  JarOK(more)
  BY <1>4, <1>5, <1>6, AppendJar
<1> HIDE DEF cookie, left, more
<1>7. \/ SetFromScript(page, literal) = page
      \/ SetFromScript(page, literal) = [page EXCEPT !.jar = left, !.jarDirty = @ \/ left /= page.jar]
      \/ /\ DomainMatches(page.url, cookie)
         /\ SetFromScript(page, literal) = [page EXCEPT !.jar = more, !.jarDirty = TRUE]
  BY DEF SetFromScript, cookie, left, more, room, others, normal
<1>8. Keeps(page, [page EXCEPT !.jar = left, !.jarDirty = page.jarDirty \/ left /= page.jar])
  BY <1>2, JarChanges
<1>9. ASSUME DomainMatches(page.url, cookie)
      PROVE  Keeps(page, [page EXCEPT !.jar = more, !.jarDirty = TRUE])
  BY <1>6, <1>9, JarChanges
<1> QED
  BY <1>7, <1>8, <1>9, StaysAsItIs

\* setItem, removeItem and clear write items of the page's own origin.
LEMMA ItemsChange ==
  ASSUME NEW page, HeldOK(page), NEW area \in {"local", "session"}, NEW items, NEW dirty,
         ItemsOf(items, OriginKey(page.opened))
  PROVE  Keeps(page, [page EXCEPT ![area] = items, !.localDirty = dirty])
<1>1. CASE area = "local"
  BY <1>1 DEF HeldOK, PageFields, Keeps, Fixed
<1>2. CASE area = "session"
  BY <1>2 DEF HeldOK, PageFields, Keeps, Fixed
<1> QED
  BY <1>1, <1>2

LEMMA SetItemKeeps ==
  ASSUME NEW page, HeldOK(page), NEW area \in {"local", "session"}, NEW key, NEW value
  PROVE  Keeps(page, SetItem(page, area, key, value))
<1> DEFINE items == page[area]
           item == [value |-> value, by |-> OriginKey(page.url)]
           more == Insert(items, key, item)
           dirty == page.localDirty \/ (area = "local" /\ (key \notin DOMAIN items \/ items[key].value # value))
           now == page.localDirty
<1>1. \/ SetItem(page, area, key, value) = page
      \/ SetItem(page, area, key, value) = [page EXCEPT ![area] = more, !.localDirty = dirty]
  <2>1. [page EXCEPT ![area] = more,
                     !.localDirty = @ \/ (area = "local" /\ (key \notin DOMAIN items \/ items[key].value # value))]
        = [page EXCEPT ![area] = more, !.localDirty = dirty]
    OBVIOUS
  <2> QED
    BY <2>1 DEF SetItem
<1>2. ItemsOf(items, OriginKey(page.opened))
  BY DEF HeldOK
<1>3. item.by = OriginKey(page.opened)
  BY OriginFacts DEF HeldOK
<1> HIDE DEF items, item
<1>4. ItemsOf(more, OriginKey(page.opened))
  BY <1>2, <1>3 DEF Insert, ItemsOf
<1> HIDE DEF more, dirty
<1>5. Keeps(page, [page EXCEPT ![area] = more, !.localDirty = dirty])
  BY <1>4, ItemsChange
<1> QED
  BY <1>1, <1>5, StaysAsItIs

LEMMA RemoveItemKeeps ==
  ASSUME NEW page, HeldOK(page), NEW area \in {"local", "session"}, NEW key
  PROVE  Keeps(page, RemoveItem(page, area, key))
<1> DEFINE items == page[area]
           less == [k \in DOMAIN items \ {key} |-> items[k]]
           dirty == page.localDirty \/ (area = "local" /\ key \in DOMAIN items)
<1>1. RemoveItem(page, area, key) = [page EXCEPT ![area] = less, !.localDirty = dirty]
  BY DEF HeldOK, PageFields, RemoveItem
<1>2. ItemsOf(items, OriginKey(page.opened))
  BY DEF HeldOK
<1> HIDE DEF items
<1>3. ItemsOf(less, OriginKey(page.opened))
  BY <1>2 DEF ItemsOf
<1> HIDE DEF less, dirty
<1>4. Keeps(page, [page EXCEPT ![area] = less, !.localDirty = dirty])
  BY <1>3, ItemsChange
<1> QED
  BY <1>1, <1>4

LEMMA ClearAreaKeeps ==
  ASSUME NEW page, HeldOK(page), NEW area \in {"local", "session"}
  PROVE  Keeps(page, ClearArea(page, area))
<1> DEFINE none == NoItems
           dirty == page.localDirty \/ (area = "local" /\ DOMAIN page[area] # {})
<1>1. ClearArea(page, area) = [page EXCEPT ![area] = none, !.localDirty = dirty]
  BY DEF ClearArea
<1>2. ItemsOf(none, OriginKey(page.opened))
  BY DEF ItemsOf, NoItems
<1> HIDE DEF none, dirty
<1>3. Keeps(page, [page EXCEPT ![area] = none, !.localDirty = dirty])
  BY <1>2, ItemsChange
<1> QED
  BY <1>1, <1>3

\* The script-made history and the URL of a page stay within its origin.
LEMMA HistoryChanges ==
  ASSUME NEW page, HeldOK(page), NEW entries, NEW current, NEW url,
         SameOrigin(url, page.opened), HistoryOf(entries, page.opened), current \in 1 .. Len(entries)
  PROVE  Keeps(page, [page EXCEPT !.entries = entries, !.current = current, !.url = url])
BY DEF HeldOK, PageFields, Keeps, Fixed

LEMMA PushStateKeeps ==
  ASSUME NEW page, HeldOK(page), NEW url, NEW state
  PROVE  Keeps(page, PushState(page, url, state))
<1> DEFINE entry == HistoryEntry(url, state)
           upTo == SubSeq(page.entries, 1, page.current)
           entries == Append(upTo, entry)
           kept == IF Len(entries) > MaxHistoryEntries THEN Tail(entries) ELSE entries
<1> SUFFICES ASSUME MayEnter(page, url, state)
             PROVE  Keeps(page, PushState(page, url, state))
  BY StaysAsItIs DEF PushState
<1>1. SameOrigin(url, page.opened) /\ entry.url = url
  BY OriginFacts DEF MayEnter, HeldOK, HistoryEntry
<1>2. /\ IsList(page.entries) /\ page.current \in 1 .. Len(page.entries)
      /\ \A i \in 1 .. Len(page.entries) : SameOrigin(page.entries[i].url, page.opened)
      /\ Len(page.entries) \in Nat
  BY ListFacts DEF HeldOK, HistoryOf
<1>3. /\ IsList(upTo) /\ Len(upTo) = page.current
      /\ \A i \in 1 .. page.current : upTo[i] = page.entries[i]
  <2> DEFINE m == 1
             n == page.current
  <2>1. m \in 1 .. Len(page.entries) + 1 /\ n \in m - 1 .. Len(page.entries)
    BY <1>2
  <2>2. n - m + 1 = n /\ \A i \in 1 .. n : m + i - 1 = i
    BY <1>2
  <2>3. /\ IsList(SubSeq(page.entries, m, n)) /\ Len(SubSeq(page.entries, m, n)) = n - m + 1
        /\ \A i \in 1 .. n - m + 1 : SubSeq(page.entries, m, n)[i] = page.entries[m + i - 1]
    <3> HIDE DEF m, n
    <3> QED
      BY <1>2, <2>1, SubList
  <2>4. upTo = SubSeq(page.entries, m, n)
    OBVIOUS
  <2> HIDE DEF m, upTo
  <2>5. IsList(upTo) /\ Len(upTo) = n
    BY <2>2, <2>3, <2>4
  <2>6. \A i \in 1 .. n : upTo[i] = page.entries[i]
    BY <2>2, <2>3, <2>4
  <2> QED
    BY <2>5, <2>6
<1> HIDE DEF upTo, entry
<1>4. /\ IsList(entries) /\ Len(entries) = page.current + 1
      /\ \A i \in 1 .. Len(upTo) : entries[i] = upTo[i]
      /\ entries[Len(upTo) + 1] = entry
  BY <1>3, AppendList
<1>5. \A i \in 1 .. Len(entries) : SameOrigin(entries[i].url, page.opened)
  BY <1>1, <1>2, <1>3, <1>4
<1> HIDE DEF entries
<1>6. IsList(kept) /\ Len(kept) > 0 /\ \A i \in 1 .. Len(kept) : SameOrigin(kept[i].url, page.opened)
  <2>1. CASE Len(entries) > MaxHistoryEntries
    <3>1. kept = Tail(entries)
      BY <2>1
    <3>2. Len(entries) \in Nat /\ Len(entries) > 1
      BY <1>2, <1>4
    <3>3. /\ IsList(Tail(entries)) /\ Len(Tail(entries)) = Len(entries) - 1
          /\ \A i \in 1 .. Len(entries) - 1 : Tail(entries)[i] = entries[i + 1]
      BY <1>4, <3>2, TailList
    <3> HIDE DEF kept
    <3>4. \A i \in 1 .. Len(kept) : kept[i] = entries[i + 1] /\ i + 1 \in 1 .. Len(entries)
      BY <3>1, <3>2, <3>3
    <3> QED
      BY <1>5, <3>1, <3>2, <3>3, <3>4
  <2>2. CASE ~(Len(entries) > MaxHistoryEntries)
    BY <1>2, <1>4, <1>5, <2>2
  <2> QED
    BY <2>1, <2>2
<1>7. PushState(page, url, state) = [page EXCEPT !.entries = kept, !.current = Len(kept), !.url = url]
  BY DEF PushState, entries, upTo, entry
<1> DEFINE last == Len(kept)
<1>8. HistoryOf(kept, page.opened) /\ last \in 1 .. Len(kept)
  <2> HIDE DEF kept
  <2> QED
    BY <1>6, ListFacts DEF HistoryOf
<1>9. PushState(page, url, state) = [page EXCEPT !.entries = kept, !.current = last, !.url = url]
  BY <1>7
<1> HIDE DEF kept, last
<1>10. Keeps(page, [page EXCEPT !.entries = kept, !.current = last, !.url = url])
  BY <1>1, <1>8, HistoryChanges
<1> QED
  BY <1>9, <1>10

LEMMA ReplaceEntryKeeps ==
  ASSUME NEW page, HeldOK(page), NEW url, NEW state
  PROVE  /\ Keeps(page, ReplaceEntry(page, url, state))
         /\ Keeps(page, ReplaceState(page, url, state))
<1> DEFINE entry == HistoryEntry(url, state)
           entries == [page.entries EXCEPT ![page.current] = entry]
           here == page.url
           current == page.current
<1>1. CASE ~MayEnter(page, url, state)
  BY <1>1, StaysAsItIs DEF ReplaceEntry, ReplaceState
<1>2. CASE MayEnter(page, url, state)
  <2>1. SameOrigin(url, page.opened) /\ entry.url = url /\ SameOrigin(here, page.opened)
    BY <1>2, OriginFacts DEF MayEnter, HeldOK, HistoryEntry
  <2> HIDE DEF entry
  <2>2. /\ IsList(page.entries) /\ page.current \in 1 .. Len(page.entries)
        /\ \A i \in 1 .. Len(page.entries) : SameOrigin(page.entries[i].url, page.opened)
    BY DEF HeldOK, HistoryOf
  <2>3. IsList(entries) /\ Len(entries) = Len(page.entries)
    <3>1. PICK T : page.entries \in Seq(T)
      BY <2>2 DEF IsList
    <3>2. page.entries \in Seq(T \cup {entry}) /\ entry \in T \cup {entry}
      BY <3>1, SeqMonotonic
    <3>3. entries \in Seq(T \cup {entry}) /\ Len(entries) = Len(page.entries)
      BY <2>2, <3>2, ExceptSeq
    <3> QED
      BY <3>3 DEF IsList
  <2>4. \A i \in 1 .. Len(entries) : entries[i] = IF i = page.current THEN entry ELSE page.entries[i]
    BY <2>2, <2>3, ListFacts
  <2> HIDE DEF entries
  <2>5. HistoryOf(entries, page.opened) /\ current \in 1 .. Len(entries)
    BY <2>1, <2>2, <2>3, <2>4 DEF HistoryOf
  <2>6. ReplaceEntry(page, url, state) = [page EXCEPT !.entries = entries, !.current = current, !.url = here]
    BY <1>2 DEF ReplaceEntry, HeldOK, PageFields, entries, entry
  <2>7. ReplaceState(page, url, state) = [page EXCEPT !.entries = entries, !.current = current, !.url = url]
    BY <1>2, <2>6 DEF ReplaceState, HeldOK, PageFields
  <2> HIDE DEF here, current
  <2>8. Keeps(page, [page EXCEPT !.entries = entries, !.current = current, !.url = here])
    BY <2>1, <2>5, HistoryChanges
  <2>9. Keeps(page, [page EXCEPT !.entries = entries, !.current = current, !.url = url])
    BY <2>1, <2>5, HistoryChanges
  <2> QED
    BY <2>6, <2>7, <2>8, <2>9
<1> QED
  BY <1>1, <1>2

LEMMA NavigateKeeps ==
  ASSUME NEW page, HeldOK(page), NEW literal, NEW replace
  PROVE  Keeps(page, Navigate(page, literal, replace))
<1> DEFINE target == Join(page.url, literal)
           replaced == IF replace THEN ReplaceEntry(page, target, "") ELSE page
           gone == Append(replaced.navigations, target)
<1>1. Keeps(page, replaced)
  <2> DEFINE none == ""
  <2>1. Keeps(page, ReplaceEntry(page, target, none))
    <3> HIDE DEF target, none
    <3> QED
      BY ReplaceEntryKeeps
  <2> QED
    BY <2>1, StaysAsItIs
<1>2. \/ Navigate(page, literal, replace) = page
      \/ Navigate(page, literal, replace) = [replaced EXCEPT !.navigations = gone]
  BY DEF Navigate
<1> HIDE DEF replaced, gone
<1>3. Keeps(page, [replaced EXCEPT !.navigations = gone])
  BY <1>1 DEF Keeps, Fixed, HeldOK, PageFields
<1> QED
  BY <1>2, <1>3, StaysAsItIs

LEMMA ApplyEffectKeeps ==
  ASSUME NEW page, HeldOK(page), NEW effect
  PROVE  Keeps(page, ApplyEffect(page, effect))
<1> DEFINE a == effect.args
           kind == effect.kind[1]
           area == AreaOf(effect)
           url == HistoryUrl(page, a)
           state == Optional(a, 1)
           first == a[1]
           second == a[2]
<1>1. area \in {"local", "session"}
  BY DEF AreaOf
<1>2. ApplyEffect(page, effect) \in
        {SetItem(page, area, first, second), RemoveItem(page, area, first), ClearArea(page, area),
         SetFromScript(page, first), PushState(page, url, state), ReplaceState(page, url, state),
         Navigate(page, first, FALSE), Navigate(page, first, TRUE), page}
  BY DEF ApplyEffect
<1> HIDE DEF area, url, state, first, second
<1>3. /\ Keeps(page, SetItem(page, area, first, second)) /\ Keeps(page, RemoveItem(page, area, first))
      /\ Keeps(page, ClearArea(page, area)) /\ Keeps(page, SetFromScript(page, first))
  BY <1>1, SetItemKeeps, RemoveItemKeeps, ClearAreaKeeps, SetFromScriptKeeps
<1>4. /\ Keeps(page, PushState(page, url, state)) /\ Keeps(page, ReplaceState(page, url, state))
  BY PushStateKeeps, ReplaceEntryKeeps
<1>5. Keeps(page, Navigate(page, first, FALSE)) /\ Keeps(page, Navigate(page, first, TRUE))
  BY NavigateKeeps
<1> QED
  BY <1>2, <1>3, <1>4, <1>5, StaysAsItIs

\* The loop over a page's effects.
AppliedUpTo(page, k, applied) ==
  applied = [i \in 0 .. k |-> IF i = 0 THEN page ELSE ApplyEffect(applied[i - 1], page.effects[i])]

LEMMA ApplyFirstKeeps ==
  ASSUME NEW page, HeldOK(page), NEW n \in Nat
  PROVE  Keeps(page, ApplyFirst(page, n))
<1> DEFINE S == {k \in 0 .. n : \E applied : AppliedUpTo(page, k, applied) /\ Keeps(page, applied[k])}
           start == 0
<1>1. start \in S
  <2> DEFINE applied == [i \in 0 .. start |-> page]
  <2>1. AppliedUpTo(page, start, applied)
    BY DEF AppliedUpTo
  <2>2. Keeps(page, applied[start])
    BY StaysAsItIs
  <2> QED
    BY <2>1, <2>2
<1>2. ASSUME NEW k \in start .. n - 1, k \in S
      PROVE  k + 1 \in S
  <2>1. PICK applied : AppliedUpTo(page, k, applied) /\ Keeps(page, applied[k])
    BY <1>2
  <2> DEFINE effect == page.effects[k + 1]
             last == ApplyEffect(applied[k], effect)
             more == [i \in 0 .. k + 1 |-> IF i = k + 1 THEN last ELSE applied[i]]
  <2>2. Keeps(applied[k], last)
    <3> HIDE DEF effect
    <3> QED
      BY <2>1, ApplyEffectKeeps DEF Keeps
  <2>3. Keeps(page, last)
    <3> HIDE DEF last
    <3> QED
      BY <2>1, <2>2 DEF Keeps, Fixed
  <2>4. \A i \in 0 .. k : applied[i] = IF i = 0 THEN page ELSE ApplyEffect(applied[i - 1], page.effects[i])
    BY <2>1 DEF AppliedUpTo
  <2>5. ASSUME NEW i \in 0 .. k + 1
        PROVE  more[i] = IF i = 0 THEN page ELSE ApplyEffect(more[i - 1], page.effects[i])
    <3>1. CASE i = k + 1
      BY <1>2, <3>1
    <3>2. CASE i # k + 1
      BY <1>2, <2>4, <3>2
    <3> QED
      BY <3>1, <3>2
  <2>6. more = [i \in 0 .. k + 1 |-> more[i]] /\ more[k + 1] = last
    BY <1>2
  <2> HIDE DEF more
  <2>7. AppliedUpTo(page, k + 1, more)
    BY <2>5, <2>6 DEF AppliedUpTo
  <2> QED
    BY <1>2, <2>3, <2>6, <2>7
<1>3. n \in S
  <2>1. start \in Nat /\ n \in start .. n
    OBVIOUS
  <2> HIDE DEF S, start
  <2>2. start .. n \subseteq S
    BY <1>1, <1>2, <2>1, CountingUp
  <2> QED
    BY <2>1, <2>2
<1> DEFINE f == CHOOSE g : g = [i \in 0 .. n |-> IF i = 0 THEN page ELSE ApplyEffect(g[i - 1], page.effects[i])]
<1>4. ApplyFirst(page, n) = f[n]
  BY DEF ApplyFirst
<1>5. AppliedUpTo(page, n, f)
  BY <1>3 DEF AppliedUpTo
<1> HIDE DEF f
<1>6. Keeps(page, f[n])
  <2> DEFINE R == {k \in 0 .. n : Keeps(page, f[k])}
  <2>1. \A i \in 0 .. n : f[i] = IF i = 0 THEN page ELSE ApplyEffect(f[i - 1], page.effects[i])
    BY <1>5 DEF AppliedUpTo
  <2>2. start \in R
    BY <2>1, StaysAsItIs
  <2>3. ASSUME NEW k \in start .. n - 1, k \in R
        PROVE  k + 1 \in R
    <3> DEFINE effect == page.effects[k + 1]
               next == f[k + 1]
    <3>1. next = ApplyEffect(f[k], effect)
      BY <2>1, <2>3
    <3>2. Keeps(page, f[k])
      BY <2>3
    <3> HIDE DEF effect, next
    <3>3. Keeps(f[k], next)
      BY <3>1, <3>2, ApplyEffectKeeps DEF Keeps
    <3>4. Keeps(page, next)
      BY <3>2, <3>3 DEF Keeps, Fixed
    <3> QED
      BY <2>3, <3>4 DEF next
  <2>4. start \in Nat /\ n \in start .. n
    OBVIOUS
  <2> HIDE DEF R, start
  <2>5. start .. n \subseteq R
    BY <2>2, <2>3, <2>4, CountingUp
  <2>6. n \in R
    BY <2>4, <2>5
  <2> QED
    BY <2>6 DEF R
<1> QED
  BY <1>4, <1>6

(* What a scan of a script yields is a list of effects.                    *)

EffectKinds ==
  {<<"Fetch">>, <<"Xhr">>, <<"CookieSet">>, <<"HistoryPush">>, <<"HistoryReplace">>, <<"TimerScheduled">>,
   <<"TimerCleared">>, <<"LocationNavigation">>, <<"LocationReplacement">>, <<"ReadOnlyQuery">>,
   <<"StorageSet", "local">>, <<"StorageRemove", "local">>, <<"StorageClear", "local">>,
   <<"StorageSet", "session">>, <<"StorageRemove", "session">>, <<"StorageClear", "session">>}

EffectRecord == [kind: EffectKinds, args: Seq(STRING)]

LEMMA StatementFields ==
  ASSUME NEW source \in Seq(Statement)
  PROVE  /\ DOMAIN source = 1 .. Len(source) /\ Len(source) \in Nat
         /\ \A i \in 1 .. Len(source) : source[i] \in Statement /\ source[i].args \in Seq(STRING)
<1>1. \A i \in 1 .. Len(source) : source[i] \in Statement
  BY ElementOfSeq
<1>2. \A s \in Statement : s.args \in Seq(STRING)
  BY DEF Statement
<1> QED
  BY <1>1, <1>2, LenProperties

LEMMA ScansAreLists ==
  ASSUME NEW source \in Seq(Statement)
  PROVE  /\ StripJsComments(source) \in Seq(Statement)
         /\ StripLineComments(source) \in Seq(Statement)
         /\ \A needle, form, least : Found(source, needle, form, least) \in Seq(Statement)
<1>1. /\ DOMAIN source = 1 .. Len(source) /\ Len(source) \in Nat
      /\ \A i \in 1 .. Len(source) : source[i] \in Statement
  BY StatementFields
<1>2. StripJsComments(source) \in Seq(Statement)
  <2> DEFINE S == {i \in DOMAIN source : ~source[i].commented}
  <2>1. S \in SUBSET (1 .. Len(source))
    BY <1>1
  <2> HIDE DEF S
  <2>2. Picked(source, S) \in Seq(Statement)
    BY <2>1, PickedFacts
  <2> QED
    BY <2>2 DEF StripJsComments, S
<1>3. ASSUME NEW needle, NEW form, NEW least
      PROVE  Found(source, needle, form, least) \in Seq(Statement)
  <2> DEFINE S == {i \in DOMAIN source : /\ source[i].form = form /\ IsSuffix(needle, source[i].name)
                                         /\ Len(source[i].args) >= least}
  <2>1. S \in SUBSET (1 .. Len(source))
    BY <1>1
  <2>2. Found(source, needle, form, least) = Picked(source, S)
    BY DEF Found
  <2> HIDE DEF S
  <2> QED
    BY <2>1, <2>2, PickedFacts
<1>4. StripLineComments(source) \in Seq(Statement)
  <2> DEFINE line(i) == IF source[i].cut THEN [source[i] EXCEPT !.form = "read", !.args = <<>>] ELSE source[i]
  <2>1. ASSUME NEW i \in 1 .. Len(source)
        PROVE  line(i) \in Statement
    <3> DEFINE s == source[i]
               none == <<>>
    <3>1. s \in Statement /\ none \in Seq(STRING)
      BY <1>1
    <3> HIDE DEF s, none
    <3>2. [s EXCEPT !.form = "read", !.args = none] \in Statement
      BY <3>1 DEF Statement
    <3> QED
      BY <3>1, <3>2 DEF s, none
  <2>2. StripLineComments(source) = [i \in 1 .. Len(source) |-> line(i)]
    BY <1>1 DEF StripLineComments
  <2> HIDE DEF line
  <2> QED
    BY <1>1, <2>1, <2>2
<1> QED
  BY <1>2, <1>3, <1>4

LEMMA EffectsAreEffects ==
  ASSUME NEW kind \in EffectKinds
  PROVE  /\ \A found \in Seq(Statement) : Effects(kind, found) \in Seq(EffectRecord)
         /\ \A literals \in Seq(STRING) : EffectsOfLiterals(kind, literals) \in Seq(EffectRecord)
<1>1. \A args \in Seq(STRING) : Effect(kind, args) \in EffectRecord
  BY DEF Effect, EffectRecord
<1>2. ASSUME NEW found \in Seq(Statement)
      PROVE  Effects(kind, found) \in Seq(EffectRecord)
  BY <1>1, StatementFields DEF Effects
<1>3. ASSUME NEW literals \in Seq(STRING)
      PROVE  EffectsOfLiterals(kind, literals) \in Seq(EffectRecord)
  <2>1. ASSUME NEW i \in 1 .. Len(literals)
        PROVE  Effect(kind, <<literals[i]>>) \in EffectRecord
    <3> DEFINE args == <<literals[i]>>
    <3>1. args \in Seq(STRING)
      BY ElementOfSeq
    <3> HIDE DEF args
    <3> QED
      BY <1>1, <3>1 DEF args
  <2>2. DOMAIN literals = 1 .. Len(literals) /\ Len(literals) \in Nat
    BY LenProperties
  <2> QED
    BY <2>1, <2>2 DEF EffectsOfLiterals
<1> QED
  BY <1>2, <1>3

LEMMA LateAssignmentsAreLiterals ==
  ASSUME NEW source \in Seq(Statement), NEW marker
  PROVE  LateAssignments(source, marker) \in Seq(STRING)
<1> DEFINE S == {i \in TakenFor(source, marker) : source[i].args # <<>>}
           taken == Picked(source, S)
<1>1. /\ DOMAIN source = 1 .. Len(source)
      /\ \A i \in 1 .. Len(source) : source[i].args \in Seq(STRING)
  BY StatementFields
<1>2. S \in SUBSET (1 .. Len(source)) /\ \A i \in S : source[i].args # <<>>
  BY <1>1 DEF TakenFor
<1>3. LateAssignments(source, marker) = [n \in DOMAIN taken |-> taken[n].args[1]]
  BY DEF LateAssignments
<1> HIDE DEF S
<1>4. taken \in Seq(Statement) /\ \E places : PicksFrom(source, S, taken, places)
  BY <1>2, PickedFacts
<1>5. PICK places : PicksFrom(source, S, taken, places)
  BY <1>4
<1>6. DOMAIN taken = 1 .. Len(taken) /\ Len(taken) \in Nat
  BY <1>4, LenProperties
<1> HIDE DEF taken
<1>7. ASSUME NEW n \in 1 .. Len(taken)
      PROVE  taken[n].args[1] \in STRING
  <2> DEFINE args == taken[n].args
             first == 1
  <2>1. places[n] \in S /\ taken[n] = source[places[n]]
    BY <1>5 DEF PicksFrom
  <2>2. args \in Seq(STRING) /\ args # <<>>
    BY <1>1, <1>2, <2>1
  <2> HIDE DEF args
  <2>3. first \in 1 .. Len(args)
    BY <2>2, LenProperties, EmptySeq
  <2> HIDE DEF first
  <2>4. args[first] \in STRING
    BY <2>2, <2>3, ElementOfSeq
  <2> QED
    BY <2>4 DEF args, first
<1> QED
  BY <1>3, <1>6, <1>7

LEMMA ScansOfEachAreEffects ==
  ASSUME NEW source \in Seq(Statement), NEW kind \in EffectKinds, NEW needles, IsList(needles)
  PROVE  /\ \A form, least : EffectsOfEach(kind, source, form, needles, least) \in Seq(EffectRecord)
         /\ LateEffectsOfEach(kind, source, needles) \in Seq(EffectRecord)
<1>1. DOMAIN needles = 1 .. Len(needles) /\ Len(needles) \in Nat
  BY ListFacts
<1>2. ASSUME NEW form, NEW least
      PROVE  EffectsOfEach(kind, source, form, needles, least) \in Seq(EffectRecord)
  <2> DEFINE row(i) == Effects(kind, Found(source, Path(needles[i]), form, least))
             rows == [i \in 1 .. Len(needles) |-> row(i)]
  <2>1. \A i \in 1 .. Len(needles) : row(i) \in Seq(EffectRecord)
    BY ScansAreLists, EffectsAreEffects
  <2>2. EffectsOfEach(kind, source, form, needles, least) = FlattenSeq(rows)
    BY <1>1 DEF EffectsOfEach
  <2> HIDE DEF row
  <2>3. rows \in Seq(Seq(EffectRecord))
    BY <1>1, <2>1
  <2> HIDE DEF rows
  <2> QED
    BY <2>2, <2>3, FlattenHolds
<1>3. LateEffectsOfEach(kind, source, needles) \in Seq(EffectRecord)
  <2> DEFINE row(i) == EffectsOfLiterals(kind, LateAssignments(source, Path(needles[i])))
             rows == [i \in 1 .. Len(needles) |-> row(i)]
  <2>1. \A i \in 1 .. Len(needles) : row(i) \in Seq(EffectRecord)
    BY LateAssignmentsAreLiterals, EffectsAreEffects
  <2>2. LateEffectsOfEach(kind, source, needles) = FlattenSeq(rows)
    BY <1>1 DEF LateEffectsOfEach
  <2> HIDE DEF row
  <2>3. rows \in Seq(Seq(EffectRecord))
    BY <1>1, <2>1
  <2> HIDE DEF rows
  <2> QED
    BY <2>2, <2>3, FlattenHolds
<1> QED
  BY <1>2, <1>3

LEMMA StorageCallsAreEffects ==
  ASSUME NEW source \in Seq(Statement), NEW area \in {"local", "session"}, NEW object
  PROVE  StorageCalls(source, area, object) \in Seq(EffectRecord)
<1> DEFINE of(kind, method, least) == Effects(<<kind, area>>, Calls(source, Path(<<object, method>>), least))
           set == of("StorageSet", "setItem", 2)
           remove == of("StorageRemove", "removeItem", 1)
           clear == of("StorageClear", "clear", 0)
<1>1. ASSUME NEW kind, <<kind, area>> \in EffectKinds, NEW method, NEW least
      PROVE  of(kind, method, least) \in Seq(EffectRecord)
  <2> DEFINE k == <<kind, area>>
             found == Calls(source, Path(<<object, method>>), least)
  <2>1. k \in EffectKinds
    BY <1>1
  <2>2. found \in Seq(Statement)
    BY ScansAreLists DEF Calls
  <2> HIDE DEF k, found
  <2>3. Effects(k, found) \in Seq(EffectRecord)
    BY <2>1, <2>2, EffectsAreEffects
  <2> QED
    BY <2>3 DEF k, found
<1>2. /\ <<"StorageSet", area>> \in EffectKinds /\ <<"StorageRemove", area>> \in EffectKinds
      /\ <<"StorageClear", area>> \in EffectKinds
  BY DEF EffectKinds
<1>3. set \in Seq(EffectRecord) /\ remove \in Seq(EffectRecord) /\ clear \in Seq(EffectRecord)
  <2> HIDE DEF of
  <2> QED
    BY <1>1, <1>2
<1>4. StorageCalls(source, area, object) = set \o remove \o clear
  BY DEF StorageCalls
<1> HIDE DEF set, remove, clear
<1>5. set \o remove \in Seq(EffectRecord)
  BY <1>3, ConcatProperties
<1>6. (set \o remove) \o clear \in Seq(EffectRecord)
  BY <1>3, <1>5, ConcatProperties
<1> QED
  BY <1>4, <1>6

LEMMA CaptureYieldsEffects ==
  ASSUME NEW source \in Seq(Statement)
  PROVE  CaptureWebPlatformEffects(source) \in Seq(EffectRecord)
<1> DEFINE T == Seq(EffectRecord)
           clean == StripLineComments(source)
           calls(kind, needles, least) == EffectsOfEach(<<kind>>, clean, "call", needles, least)
           asked == Picked(Queried, {n \in DOMAIN Queried : \E i \in DOMAIN clean : Names(clean[i].name, Path(Queried[n]))})
           e1 == calls("Fetch", << <<"fetch">> >>, 1)
           e2 == calls("Xhr", << <<"open">> >>, 2)
           e3 == StorageCalls(clean, "local", "localStorage")
           e4 == StorageCalls(clean, "session", "sessionStorage")
           e5 == LateEffectsOfEach(<<"CookieSet">>, clean, << <<"document", "cookie">>, <<"window", "document", "cookie">> >>)
           e6 == calls("HistoryPush", << <<"history", "pushState">> >>, 0)
           e7 == calls("HistoryReplace", << <<"history", "replaceState">> >>, 0)
           e8 == calls("TimerScheduled", << <<"setTimeout">>, <<"setInterval">>, <<"requestAnimationFrame">> >>, 0)
           e9 == calls("TimerCleared", << <<"clearTimeout">>, <<"clearInterval">>, <<"cancelAnimationFrame">> >>, 0)
           e10 == LateEffectsOfEach(<<"LocationNavigation">>, clean,
                                    << <<"location", "href">>, <<"window", "location", "href">> >>)
           e11 == calls("LocationNavigation", << <<"location", "assign">>, <<"window", "location", "assign">> >>, 1)
           e12 == calls("LocationReplacement", << <<"location", "replace">>, <<"window", "location", "replace">> >>, 1)
           e13 == [i \in DOMAIN asked |-> Effect(<<"ReadOnlyQuery">>, <<>>)]
<1>1. clean \in Seq(Statement)
  BY ScansAreLists
<1>2. CaptureWebPlatformEffects(source)
      = e1 \o e2 \o e3 \o e4 \o e5 \o e6 \o e7 \o e8 \o e9 \o e10 \o e11 \o e12 \o e13
  BY DEF CaptureWebPlatformEffects
<1>3. \A a : IsList(<<a>>)
  <2>1. \A a : <<a>> \in Seq({a})
    OBVIOUS
  <2> QED
    BY <2>1 DEF IsList
<1>4. \A a, b : IsList(<<a, b>>)
  <2>1. \A a, b : <<a, b>> \in Seq({a, b})
    OBVIOUS
  <2> QED
    BY <2>1 DEF IsList
<1>5. \A a, b, c : IsList(<<a, b, c>>)
  <2>1. \A a, b, c : <<a, b, c>> \in Seq({a, b, c})
    OBVIOUS
  <2> QED
    BY <2>1 DEF IsList
<1>6. e13 \in T
  <2>1. \A a, b, c, d, e, f, g, h : <<a, b, c, d, e, f, g, h>> \in Seq({a, b, c, d, e, f, g, h})
    OBVIOUS
  <2>2. IsList(Queried)
    BY <2>1 DEF IsList, Queried
  <2> DEFINE S == {n \in DOMAIN Queried : \E i \in DOMAIN clean : Names(clean[i].name, Path(Queried[n]))}
  <2>3. S \in SUBSET DOMAIN Queried
    OBVIOUS
  <2>4. asked = Picked(Queried, S)
    OBVIOUS
  <2> HIDE DEF S, asked
  <2>5. IsList(asked)
    BY <2>2, <2>3, <2>4, PickedList
  <2>6. DOMAIN asked = 1 .. Len(asked) /\ Len(asked) \in Nat
    BY <2>5, ListFacts
  <2>7. Effect(<<"ReadOnlyQuery">>, <<>>) \in EffectRecord
    BY DEF Effect, EffectRecord, EffectKinds
  <2> QED
    BY <2>6, <2>7
<1>7. ASSUME NEW kind, <<kind>> \in EffectKinds, NEW needles, IsList(needles), NEW least
      PROVE  calls(kind, needles, least) \in T
  <2> DEFINE k == <<kind>>
  <2>1. k \in EffectKinds
    BY <1>7
  <2> HIDE DEF k, clean
  <2>2. EffectsOfEach(k, clean, "call", needles, least) \in T
    BY <1>1, <1>7, <2>1, ScansOfEachAreEffects
  <2> QED
    BY <2>2 DEF k
<1>8. ASSUME NEW kind, <<kind>> \in EffectKinds, NEW needles, IsList(needles)
      PROVE  LateEffectsOfEach(<<kind>>, clean, needles) \in T
  <2> DEFINE k == <<kind>>
  <2>1. k \in EffectKinds
    BY <1>8
  <2> HIDE DEF k, clean
  <2>2. LateEffectsOfEach(k, clean, needles) \in T
    BY <1>1, <1>8, <2>1, ScansOfEachAreEffects
  <2> QED
    BY <2>2 DEF k
<1>9. e3 \in T /\ e4 \in T
  <2> DEFINE local == "local"
             session == "session"
  <2>1. local \in {"local", "session"} /\ session \in {"local", "session"}
    OBVIOUS
  <2>2. /\ StorageCalls(clean, local, "localStorage") \in Seq(EffectRecord)
        /\ StorageCalls(clean, session, "sessionStorage") \in Seq(EffectRecord)
    <3> HIDE DEF clean, local, session
    <3> QED
      BY <1>1, <2>1, StorageCallsAreEffects
  <2> QED
    BY <2>2
<1> HIDE DEF clean, calls, T
<1>0. /\ <<"Fetch">> \in EffectKinds /\ <<"Xhr">> \in EffectKinds /\ <<"CookieSet">> \in EffectKinds
      /\ <<"HistoryPush">> \in EffectKinds /\ <<"HistoryReplace">> \in EffectKinds
      /\ <<"TimerScheduled">> \in EffectKinds /\ <<"TimerCleared">> \in EffectKinds
      /\ <<"LocationNavigation">> \in EffectKinds /\ <<"LocationReplacement">> \in EffectKinds
  BY DEF EffectKinds
<1>10. e1 \in T /\ e2 \in T /\ e6 \in T /\ e7 \in T
  BY <1>0, <1>3, <1>7
<1>11. e8 \in T /\ e9 \in T
  BY <1>0, <1>5, <1>7
<1>12. e11 \in T /\ e12 \in T
  BY <1>0, <1>4, <1>7
<1>13. e5 \in T /\ e10 \in T
  BY <1>0, <1>4, <1>8
<1> HIDE DEF e1, e2, e3, e4, e5, e6, e7, e8, e9, e10, e11, e12, e13
<1>14. \A s \in T, t \in T : s \o t \in T
  BY ConcatProperties DEF T
<1>15. e1 \o e2 \o e3 \o e4 \o e5 \in T
  BY <1>9, <1>10, <1>13, <1>14
<1>16. e1 \o e2 \o e3 \o e4 \o e5 \o e6 \o e7 \o e8 \o e9 \in T
  BY <1>10, <1>11, <1>14, <1>15
<1>17. e1 \o e2 \o e3 \o e4 \o e5 \o e6 \o e7 \o e8 \o e9 \o e10 \o e11 \o e12 \o e13 \in T
  BY <1>6, <1>12, <1>13, <1>14, <1>16
<1> QED
  BY <1>2, <1>17 DEF T

(* The life of a page load.                                                *)

WorkOK(page) ==
  /\ page.scripts \in Seq(Seq(Statement)) /\ IsList(page.effects)
  /\ page.at = "fetch" => Len(page.effects) > 0

\* What has been flushed stays flushed until the next script.
DirtyOK(page) ==
  /\ page.at = "scripts" => ~page.jarDirty /\ ~page.localDirty
  /\ page.at \in {"jar", "jar cut"} => ~page.localDirty

LoadOK(page) == HeldOK(page) /\ WorkOK(page) /\ DirtyOK(page)

LoadsOK == DOMAIN pages = PageSlots /\ \A p \in PageSlots : pages[p].at # "none" => LoadOK(pages[p])

FileOK(file) == ~file.torn => ItemsOf(file.content.items, file.content.origin)

FilesOK == JarOK(Contents(cookieFile, <<>>)) /\ \A f \in DOMAIN itemFiles : FileOK(itemFiles[f])

StoresInv == LoadsOK /\ FilesOK

Moves(p, page) == pages' = [pages EXCEPT ![p] = page]

LEMMA PageMoves ==
  ASSUME LoadsOK, NEW p \in PageSlots, NEW page, Moves(p, page), page.at # "none" => LoadOK(page)
  PROVE  LoadsOK'
<1>1. DOMAIN pages' = PageSlots /\ pages'[p] = page /\ \A q \in PageSlots \ {p} : pages'[q] = pages[q]
  BY DEF Moves, LoadsOK
<1>2. ASSUME NEW q \in PageSlots, pages'[q].at # "none"
      PROVE  LoadOK(pages'[q])
  <2>1. CASE q = p
    BY <1>1, <1>2, <2>1
  <2>2. CASE q # p
    BY <1>1, <1>2, <2>2 DEF LoadsOK
  <2> QED
    BY <2>1, <2>2
<1> QED
  BY <1>1, <1>2 DEF LoadsOK

LEMMA NewHostHolds ==
  ASSUME FilesOK, NEW visit \in Visits
  PROVE  LoadOK(NewHost(visit.url, visit.scripts))
<1> DEFINE url == visit.url
           own == OriginKey(url)
           file == SafeFileComponent(own)
           stored == IF file \in DOMAIN itemFiles THEN itemFiles[file] ELSE Cut
           items == IF stored.torn THEN NoItems ELSE IF stored.content.origin # own THEN NoItems ELSE stored.content.items
           page == NewHost(url, visit.scripts)
           entry == HistoryEntry(url, "")
           entries == <<entry>>
           none == <<>>
           jar == Contents(cookieFile, none)
           nothing == NoItems
<1>1. /\ page.opened = url /\ page.url = url /\ page.at = "scripts" /\ page.scripts = visit.scripts
      /\ page.effects = none /\ page.jar = jar /\ page.jarDirty = FALSE /\ page.local = items
      /\ page.localDirty = FALSE /\ page.session = nothing /\ page.entries = entries /\ page.current = 1
      /\ DOMAIN page = PageFields
  BY DEF NewHost, PageFields
<1>2. JarOK(jar)
  BY DEF FilesOK
<1>3. ItemsOf(nothing, own)
  BY DEF ItemsOf, NoItems
<1>4. ItemsOf(items, own)
  <2>1. FileOK(stored)
    <3>1. CASE file \in DOMAIN itemFiles
      <4> HIDE DEF file
      <4> QED
        BY <3>1 DEF FilesOK
    <3>2. CASE file \notin DOMAIN itemFiles
      <4>1. stored = Cut
        BY <3>2
      <4> HIDE DEF stored
      <4> QED
        BY <4>1 DEF Cut, FileOK
    <3> QED
      BY <3>1, <3>2
  <2> HIDE DEF stored, own
  <2> QED
    BY <1>3, <2>1 DEF FileOK
<1>5. HistoryOf(entries, url) /\ Len(entries) = 1
  <2>1. entry.url = url /\ SameOrigin(url, url)
    BY OriginFacts DEF HistoryEntry
  <2> HIDE DEF entry
  <2>2. entries \in Seq({entry}) /\ Len(entries) = 1 /\ entries[1] = entry
    OBVIOUS
  <2> HIDE DEF entries
  <2> QED
    BY <2>1, <2>2 DEF HistoryOf, IsList
<1>6. visit.scripts \in Seq(Seq(Statement))
  BY StoresAssumption
<1>7. IsList(none)
  BY EmptyList
<1>8. SameOrigin(url, url)
  BY OriginFacts
<1> HIDE DEF page, jar, items, nothing, entries, none
<1>9. HeldOK(page)
  BY <1>1, <1>2, <1>3, <1>4, <1>5, <1>8 DEF HeldOK
<1>10. WorkOK(page) /\ DirtyOK(page)
  BY <1>1, <1>6, <1>7 DEF WorkOK, DirtyOK
<1> QED
  BY <1>9, <1>10 DEF LoadOK, page

LEMMA OpenPageHolds ==
  ASSUME StoresInv, NEW p \in PageSlots, OpenPage(p)
  PROVE  StoresInv'
<1>1. PICK visit \in Visits : pages' = [pages EXCEPT ![p] = NewHost(visit.url, visit.scripts)]
  BY DEF OpenPage
<1> DEFINE page == NewHost(visit.url, visit.scripts)
<1>2. LoadsOK /\ FilesOK
  BY DEF StoresInv
<1>3. LoadOK(page)
  BY <1>2, NewHostHolds
<1>4. Moves(p, page)
  BY <1>1 DEF Moves
<1> HIDE DEF page
<1>5. LoadsOK'
  BY <1>2, <1>3, <1>4, PageMoves
<1>6. cookieFile' = cookieFile /\ itemFiles' = itemFiles
  BY DEF OpenPage
<1> QED
  BY <1>2, <1>5, <1>6 DEF StoresInv, FilesOK

\* Between the effects of a page and its files nothing else of it changes.
LEMMA WorkChanges ==
  ASSUME NEW page, HeldOK(page), NEW next, DOMAIN next = PageFields,
         \A f \in {"opened", "url", "jar", "local", "session", "entries", "current"} : next[f] = page[f]
  PROVE  HeldOK(next)
<1>1. /\ next.opened = page.opened /\ next.url = page.url /\ next.jar = page.jar /\ next.local = page.local
      /\ next.session = page.session /\ next.entries = page.entries /\ next.current = page.current
  OBVIOUS
<1> QED
  BY <1>1 DEF HeldOK

LEMMA RunScriptHolds ==
  ASSUME StoresInv, NEW p \in PageSlots, RunScript(p)
  PROVE  StoresInv'
<1> DEFINE page == pages[p]
           effects == CaptureWebPlatformEffects(StripJsComments(Head(page.scripts)))
           n == Min({MaxEffects, Len(effects)})
           taken == SubSeq(effects, 1, n)
           next == [page EXCEPT !.scripts = Tail(@), !.fetches = 0, !.effects = taken,
                                !.at = IF effects = <<>> THEN "scripts" ELSE "effects"]
<1>1. /\ page.at = "scripts" /\ page.scripts # <<>>
      /\ pages' = [pages EXCEPT ![p] = next]
      /\ cookieFile' = cookieFile /\ itemFiles' = itemFiles
  BY DEF RunScript
<1>2. LoadsOK /\ FilesOK /\ HeldOK(page) /\ WorkOK(page) /\ DirtyOK(page)
  BY <1>1 DEF StoresInv, LoadsOK, LoadOK
<1> HIDE DEF page
<1>3. Head(page.scripts) \in Seq(Statement) /\ Tail(page.scripts) \in Seq(Seq(Statement))
  BY <1>1, <1>2, HeadTailProperties DEF WorkOK
<1>4. effects \in Seq(EffectRecord)
  BY <1>3, ScansAreLists, CaptureYieldsEffects
<1> HIDE DEF effects
<1>5. IsList(effects) /\ Len(effects) \in Nat
  BY <1>4, LenProperties DEF IsList
<1>6. n \in Nat /\ n <= Len(effects)
  <2> DEFINE S == {MaxEffects, Len(effects)}
  <2>1. S \in SUBSET Nat /\ S # {}
    BY <1>5, StoresAssumption
  <2>2. n = CHOOSE x \in S : \A y \in S : x <= y
    BY DEF Min
  <2>3. Len(effects) \in S
    OBVIOUS
  <2> HIDE DEF n, S
  <2>4. n \in S /\ \A y \in S : n <= y
    BY <2>1, <2>2, LeastNatural
  <2> QED
    BY <2>1, <2>3, <2>4
<1> HIDE DEF n
<1>7. IsList(taken)
  <2> DEFINE first == 1
  <2>1. first \in 1 .. Len(effects) + 1 /\ n \in first - 1 .. Len(effects)
    BY <1>5, <1>6
  <2> HIDE DEF first
  <2>2. IsList(SubSeq(effects, first, n))
    BY <1>5, <2>1, SubList
  <2> QED
    BY <2>2 DEF first
<1> HIDE DEF taken
<1>8. /\ DOMAIN next = PageFields /\ next.scripts = Tail(page.scripts) /\ next.effects = taken
      /\ next.at \in {"scripts", "effects"} /\ next.jarDirty = page.jarDirty /\ next.localDirty = page.localDirty
      /\ \A f \in {"opened", "url", "jar", "local", "session", "entries", "current"} : next[f] = page[f]
  BY <1>2 DEF HeldOK, PageFields
<1>9. Moves(p, next)
  BY <1>1 DEF Moves
<1> HIDE DEF next
<1>10. HeldOK(next)
  BY <1>2, <1>8, WorkChanges
<1>11. WorkOK(next) /\ DirtyOK(next)
  BY <1>1, <1>2, <1>3, <1>7, <1>8 DEF WorkOK, DirtyOK
<1>12. LoadsOK'
  BY <1>2, <1>9, <1>10, <1>11, PageMoves DEF LoadOK
<1> QED
  BY <1>1, <1>2, <1>12 DEF StoresInv, FilesOK

LEMMA ApplyEffectsHolds ==
  ASSUME StoresInv, NEW p \in PageSlots, ApplyEffects(p)
  PROVE  StoresInv'
<1> DEFINE page == pages[p]
           awaits == {i \in DOMAIN page.effects : IsAwaited(page, i)}
           upTo == IF awaits = {} THEN Len(page.effects) ELSE Min(awaits) - 1
           applied == ApplyFirst(page, upTo)
           left == SubSeq(applied.effects, upTo + 1, Len(applied.effects))
           fetches == FetchesBefore(page, upTo + 1)
           at == IF awaits = {} THEN "local" ELSE "fetch"
           next == [applied EXCEPT !.effects = left, !.fetches = fetches, !.at = at]
<1>1. page.at = "effects" /\ cookieFile' = cookieFile /\ itemFiles' = itemFiles
  BY DEF ApplyEffects
<1>2. LoadsOK /\ FilesOK /\ HeldOK(page) /\ WorkOK(page)
  BY <1>1 DEF StoresInv, LoadsOK, LoadOK
<1>3. pages' = [pages EXCEPT ![p] =
        [applied EXCEPT !.effects = SubSeq(@, upTo + 1, Len(@)), !.fetches = fetches, !.at = at]]
  BY DEF ApplyEffects
<1> HIDE DEF page
<1>4. IsList(page.effects) /\ Len(page.effects) \in Nat /\ DOMAIN page.effects = 1 .. Len(page.effects)
  BY <1>2, ListFacts DEF WorkOK
<1>5. /\ upTo \in Nat /\ upTo <= Len(page.effects)
      /\ at = "fetch" => upTo < Len(page.effects)
  <2>1. CASE awaits = {}
    BY <1>4, <2>1
  <2>2. CASE awaits # {}
    <3>1. awaits \in SUBSET Nat
      BY <1>4
    <3>2. Min(awaits) = CHOOSE x \in awaits : \A y \in awaits : x <= y
      BY DEF Min
    <3> HIDE DEF awaits
    <3>3. Min(awaits) \in awaits
      BY <2>2, <3>1, <3>2, LeastNatural
    <3>4. awaits \subseteq 1 .. Len(page.effects)
      BY <1>4 DEF awaits
    <3> DEFINE first == Min(awaits)
    <3>5. first \in 1 .. Len(page.effects)
      BY <3>3, <3>4
    <3>6. upTo = first - 1
      BY <2>2
    <3> HIDE DEF first, upTo
    <3> QED
      BY <1>4, <3>5, <3>6
  <2> QED
    BY <2>1, <2>2
<1> HIDE DEF awaits
<1>6. at \in {"local", "fetch"}
  OBVIOUS
<1> HIDE DEF upTo, at
<1>7. Keeps(page, applied)
  BY <1>2, <1>5, ApplyFirstKeeps
<1>8. HeldOK(applied) /\ applied.effects = page.effects /\ applied.scripts = page.scripts
  BY <1>7 DEF Keeps, Fixed
<1> HIDE DEF applied, fetches
<1>9. IsList(left) /\ Len(left) = Len(page.effects) - upTo
  <2> DEFINE first == upTo + 1
             last == Len(page.effects)
  <2>1. first \in 1 .. Len(page.effects) + 1 /\ last \in first - 1 .. Len(page.effects)
    BY <1>4, <1>5
  <2>2. last - first + 1 = Len(page.effects) - upTo
    BY <1>4, <1>5
  <2>3. left = SubSeq(page.effects, first, last)
    BY <1>8
  <2> HIDE DEF first, last, left
  <2>4. IsList(SubSeq(page.effects, first, last)) /\ Len(SubSeq(page.effects, first, last)) = last - first + 1
    BY <1>4, <2>1, SubList
  <2> QED
    BY <2>2, <2>3, <2>4
<1>10. Moves(p, next)
  BY <1>3 DEF Moves
<1> HIDE DEF left
<1>11. /\ DOMAIN next = PageFields /\ next.scripts = page.scripts /\ next.effects = left /\ next.at = at
       /\ \A f \in {"opened", "url", "jar", "local", "session", "entries", "current"} : next[f] = applied[f]
  BY <1>8 DEF HeldOK, PageFields
<1> HIDE DEF next
<1>12. HeldOK(next)
  BY <1>8, <1>11, WorkChanges
<1>13. WorkOK(next) /\ DirtyOK(next)
  <2>1. at = "fetch" => Len(left) > 0
    BY <1>4, <1>5, <1>9
  <2>2. WorkOK(next)
    BY <1>2, <1>9, <1>11, <2>1 DEF WorkOK
  <2>3. DirtyOK(next)
    BY <1>6, <1>11 DEF DirtyOK
  <2> QED
    BY <2>2, <2>3
<1>14. LoadsOK'
  BY <1>2, <1>10, <1>12, <1>13, PageMoves DEF LoadOK
<1> QED
  BY <1>1, <1>2, <1>14 DEF StoresInv, FilesOK

LEMMA FetchEndsHolds ==
  ASSUME StoresInv, NEW p \in PageSlots, FetchEnds(p)
  PROVE  StoresInv'
<1> DEFINE page == pages[p]
           left == Tail(page.effects)
           next == [page EXCEPT !.effects = left, !.fetches = @ + 1, !.at = "effects"]
<1>1. page.at = "fetch" /\ cookieFile' = cookieFile /\ itemFiles' = itemFiles
  BY DEF FetchEnds
<1>2. LoadsOK /\ FilesOK /\ HeldOK(page) /\ WorkOK(page) /\ DirtyOK(page)
  BY <1>1 DEF StoresInv, LoadsOK, LoadOK
<1>3. Moves(p, next)
  BY DEF Moves, FetchEnds
<1> HIDE DEF page
<1>4. IsList(left)
  BY <1>1, <1>2, TailList DEF WorkOK
<1>5. /\ DOMAIN next = PageFields /\ next.scripts = page.scripts /\ next.effects = left /\ next.at = "effects"
      /\ \A f \in {"opened", "url", "jar", "local", "session", "entries", "current"} : next[f] = page[f]
  BY <1>2 DEF HeldOK, PageFields
<1> HIDE DEF next, left
<1>6. HeldOK(next)
  BY <1>2, <1>5, WorkChanges
<1>7. WorkOK(next) /\ DirtyOK(next)
  BY <1>2, <1>4, <1>5 DEF WorkOK, DirtyOK
<1>8. LoadsOK'
  BY <1>2, <1>3, <1>6, <1>7, PageMoves DEF LoadOK
<1> QED
  BY <1>1, <1>2, <1>8 DEF StoresInv, FilesOK

\* A cut file and a garbled one hold nothing of anyone.
LEMMA FilledFacts ==
  ASSUME NEW file, NEW content, NEW filled \in Filled(file, content)
  PROVE  filled = Whole(content) \/ filled = Garbled
BY DEF Filled

LEMMA FlushStorageHolds ==
  ASSUME StoresInv, NEW p \in PageSlots, FlushStorage(p)
  PROVE  StoresInv'
<1> DEFINE page == pages[p]
           at == IF page.localDirty THEN "local cut" ELSE "jar"
           next == [page EXCEPT !.at = at]
<1>1. /\ page.at = "local" /\ cookieFile' = cookieFile
      /\ itemFiles' = IF page.localDirty THEN Insert(itemFiles, ItemFile(page), Cut) ELSE itemFiles
  BY DEF FlushStorage
<1>2. LoadsOK /\ FilesOK /\ HeldOK(page) /\ WorkOK(page) /\ DirtyOK(page)
  BY <1>1 DEF StoresInv, LoadsOK, LoadOK
<1>3. Moves(p, next)
  BY DEF Moves, FlushStorage
<1> HIDE DEF page
<1>4. at \in {"local cut", "jar"} /\ (at = "jar" => ~page.localDirty)
  OBVIOUS
<1> HIDE DEF at
<1>5. /\ DOMAIN next = PageFields /\ next.scripts = page.scripts /\ next.effects = page.effects /\ next.at = at
      /\ next.localDirty = page.localDirty
      /\ \A f \in {"opened", "url", "jar", "local", "session", "entries", "current"} : next[f] = page[f]
  BY <1>2 DEF HeldOK, PageFields
<1> HIDE DEF next
<1>6. HeldOK(next)
  BY <1>2, <1>5, WorkChanges
<1>7. WorkOK(next) /\ DirtyOK(next)
  BY <1>2, <1>4, <1>5 DEF WorkOK, DirtyOK
<1>8. LoadsOK'
  BY <1>2, <1>3, <1>6, <1>7, PageMoves DEF LoadOK
<1>9. \A f \in DOMAIN itemFiles' : FileOK(itemFiles'[f])
  <2>1. FileOK(Cut)
    BY DEF Cut, FileOK
  <2>2. CASE page.localDirty
    <3> DEFINE file == ItemFile(page)
               files == Insert(itemFiles, file, Cut)
    <3>1. /\ DOMAIN files = DOMAIN itemFiles \cup {file}
          /\ \A f \in DOMAIN itemFiles \cup {file} : files[f] = IF f = file THEN Cut ELSE itemFiles[f]
      BY DEF Insert
    <3>2. itemFiles' = files
      BY <1>1, <2>2
    <3> HIDE DEF files, file
    <3>3. \A f \in DOMAIN files : FileOK(files[f])
      BY <1>2, <2>1, <3>1 DEF FilesOK
    <3> QED
      BY <3>2, <3>3
  <2>3. CASE ~page.localDirty
    BY <1>1, <1>2, <2>3 DEF FilesOK
  <2> QED
    BY <2>2, <2>3
<1> QED
  BY <1>1, <1>2, <1>8, <1>9 DEF StoresInv, FilesOK

LEMMA FillStorageHolds ==
  ASSUME StoresInv, NEW p \in PageSlots, FillStorage(p)
  PROVE  StoresInv'
<1> DEFINE page == pages[p]
           next == [page EXCEPT !.at = "jar", !.localDirty = FALSE]
           name == ItemFile(page)
           content == [origin |-> OriginKey(page.opened), items |-> page.local]
<1>1. page.at = "local cut" /\ cookieFile' = cookieFile
  BY DEF FillStorage
<1>2. PICK file \in Filled(itemFiles[name], content) : itemFiles' = [itemFiles EXCEPT ![name] = file]
  BY DEF FillStorage
<1>3. LoadsOK /\ FilesOK /\ HeldOK(page) /\ WorkOK(page) /\ DirtyOK(page)
  BY <1>1 DEF StoresInv, LoadsOK, LoadOK
<1>4. Moves(p, next)
  BY DEF Moves, FillStorage
<1> HIDE DEF page
<1>5. /\ DOMAIN next = PageFields /\ next.scripts = page.scripts /\ next.effects = page.effects /\ next.at = "jar"
      /\ next.localDirty = FALSE
      /\ \A f \in {"opened", "url", "jar", "local", "session", "entries", "current"} : next[f] = page[f]
  BY <1>3 DEF HeldOK, PageFields
<1> HIDE DEF next
<1>6. HeldOK(next)
  BY <1>3, <1>5, WorkChanges
<1>7. WorkOK(next) /\ DirtyOK(next)
  BY <1>3, <1>5 DEF WorkOK, DirtyOK
<1>8. LoadsOK'
  BY <1>3, <1>4, <1>6, <1>7, PageMoves DEF LoadOK
<1>9. FileOK(file)
  <2>1. ItemsOf(content.items, content.origin)
    BY <1>3 DEF HeldOK
  <2> HIDE DEF content
  <2>2. FileOK(Whole(content)) /\ FileOK(Garbled)
    BY <2>1 DEF Whole, Garbled, FileOK
  <2> QED
    BY <2>2, FilledFacts
<1>10. \A f \in DOMAIN itemFiles' : FileOK(itemFiles'[f])
  <2> HIDE DEF name
  <2> QED
    BY <1>2, <1>3, <1>9 DEF FilesOK
<1> QED
  BY <1>1, <1>3, <1>8, <1>10 DEF StoresInv, FilesOK

LEMMA FlushCookiesHolds ==
  ASSUME StoresInv, NEW p \in PageSlots, FlushCookies(p)
  PROVE  StoresInv'
<1> DEFINE page == pages[p]
           fresh == {i \in DOMAIN page.jar : ~Expired(page.jar[i])}
           jar == Picked(page.jar, fresh)
           dirty == page.jarDirty \/ jar # page.jar
           at == IF dirty THEN "jar cut" ELSE "scripts"
           next == [page EXCEPT !.jar = jar, !.jarDirty = dirty, !.at = at]
<1>1. page.at = "jar" /\ itemFiles' = itemFiles /\ cookieFile' = IF dirty THEN Cut ELSE cookieFile
  BY DEF FlushCookies
<1>2. LoadsOK /\ FilesOK /\ HeldOK(page) /\ WorkOK(page) /\ DirtyOK(page)
  BY <1>1 DEF StoresInv, LoadsOK, LoadOK
<1>3. Moves(p, next)
  BY DEF Moves, FlushCookies
<1>4. JarOK(jar)
  <2>1. fresh \in SUBSET DOMAIN page.jar
    OBVIOUS
  <2> HIDE DEF fresh
  <2> QED
    BY <1>2, <2>1, PickedJar DEF HeldOK
<1> HIDE DEF page, jar
<1>5. at \in {"jar cut", "scripts"} /\ (at = "scripts" => ~dirty)
  OBVIOUS
<1> HIDE DEF dirty, at
<1>6. /\ DOMAIN next = PageFields /\ next.scripts = page.scripts /\ next.effects = page.effects /\ next.at = at
      /\ next.jar = jar /\ next.jarDirty = dirty /\ next.localDirty = page.localDirty
      /\ next.opened = page.opened /\ next.url = page.url /\ next.local = page.local /\ next.session = page.session
      /\ next.entries = page.entries /\ next.current = page.current
  BY <1>2 DEF HeldOK, PageFields
<1> HIDE DEF next
<1>7. HeldOK(next)
  BY <1>2, <1>4, <1>6 DEF HeldOK
<1>8. WorkOK(next) /\ DirtyOK(next)
  BY <1>1, <1>2, <1>5, <1>6 DEF WorkOK, DirtyOK
<1>9. LoadsOK'
  BY <1>2, <1>3, <1>7, <1>8, PageMoves DEF LoadOK
<1>10. JarOK(Contents(cookieFile', <<>>))
  BY <1>1, <1>2, EmptyJar DEF Contents, Cut, FilesOK
<1> QED
  BY <1>1, <1>2, <1>9, <1>10 DEF StoresInv, FilesOK

LEMMA FillCookiesHolds ==
  ASSUME StoresInv, NEW p \in PageSlots, FillCookies(p)
  PROVE  StoresInv'
<1> DEFINE page == pages[p]
           jar == page.jar
           next == [page EXCEPT !.at = "scripts", !.jarDirty = FALSE]
<1>1. page.at = "jar cut" /\ itemFiles' = itemFiles /\ cookieFile' \in Filled(cookieFile, jar)
  BY DEF FillCookies
<1>2. LoadsOK /\ FilesOK /\ HeldOK(page) /\ WorkOK(page) /\ DirtyOK(page)
  BY <1>1 DEF StoresInv, LoadsOK, LoadOK
<1>3. Moves(p, next)
  BY DEF Moves, FillCookies
<1> HIDE DEF page
<1>4. /\ DOMAIN next = PageFields /\ next.scripts = page.scripts /\ next.effects = page.effects
      /\ next.at = "scripts" /\ next.jarDirty = FALSE /\ next.localDirty = page.localDirty
      /\ \A f \in {"opened", "url", "jar", "local", "session", "entries", "current"} : next[f] = page[f]
  BY <1>2 DEF HeldOK, PageFields
<1> HIDE DEF next
<1>5. HeldOK(next)
  BY <1>2, <1>4, WorkChanges
<1>6. WorkOK(next) /\ DirtyOK(next)
  BY <1>1, <1>2, <1>4 DEF WorkOK, DirtyOK
<1>7. LoadsOK'
  BY <1>2, <1>3, <1>5, <1>6, PageMoves DEF LoadOK
<1>8. JarOK(Contents(cookieFile', <<>>))
  <2>1. JarOK(jar)
    BY <1>2 DEF HeldOK
  <2> HIDE DEF jar
  <2>2. Contents(Whole(jar), <<>>) = jar /\ Contents(Garbled, <<>>) = <<>>
    BY DEF Contents, Whole, Garbled
  <2>3. cookieFile' = Whole(jar) \/ cookieFile' = Garbled
    BY <1>1 DEF Filled
  <2> QED
    BY <2>1, <2>2, <2>3, EmptyJar
<1> QED
  BY <1>1, <1>2, <1>7, <1>8 DEF StoresInv, FilesOK

LEMMA LoadEndsHolds ==
  ASSUME StoresInv, NEW p \in PageSlots, LoadEnds(p)
  PROVE  StoresInv'
<1>1. Moves(p, NoPage) /\ NoPage.at = "none" /\ cookieFile' = cookieFile /\ itemFiles' = itemFiles
  BY DEF LoadEnds, Moves, NoPage
<1>2. LoadsOK'
  BY <1>1, PageMoves DEF StoresInv
<1> QED
  BY <1>1, <1>2 DEF StoresInv, FilesOK

LEMMA NoPagesHold ==
  ASSUME NEW none, none = [p \in PageSlots |-> NoPage]
  PROVE  DOMAIN none = PageSlots /\ \A p \in PageSlots : none[p].at = "none"
BY DEF NoPage

\* What holds of pages and files holds in every state.
THEOREM StoresInvariance == StoresSpec => []StoresInv
<1>1. StoresInit => StoresInv
  BY NoPagesHold, EmptyJar DEF StoresInit, LoadsOK, Contents, Whole, StoresInv, FilesOK
<1>2. ASSUME StoresInv, [StoresNext]_storesVars
      PROVE  StoresInv'
  <2>1. CASE UNCHANGED storesVars
    BY <1>2, <2>1 DEF storesVars, StoresInv, LoadsOK, FilesOK
  <2>2. CASE Crash
    BY <1>2, <2>2, NoPagesHold DEF Crash, LoadsOK, StoresInv, FilesOK
  <2>3. CASE Tick
    BY <1>2, <2>3 DEF Tick, StoresInv, LoadsOK, FilesOK
  <2>4. ASSUME NEW p \in PageSlots, PageStep(p)
        PROVE  StoresInv'
    BY <1>2, <2>4, OpenPageHolds, RunScriptHolds, ApplyEffectsHolds, FetchEndsHolds, FlushStorageHolds,
       FillStorageHolds, FlushCookiesHolds, FillCookiesHolds, LoadEndsHolds
       DEF PageStep
  <2> QED
    BY <1>2, <2>1, <2>2, <2>3, <2>4 DEF StoresNext
<1> QED
  BY <1>1, <1>2, PTL DEF StoresSpec

LEMMA StoresInvServes ==
  ASSUME StoresInv
  PROVE  StoresServeTheirOwners
<1>1. ASSUME NEW p \in PageSlots, pages[p].at # "none"
      PROVE  HeldOK(pages[p]) /\ DirtyOK(pages[p])
  BY <1>1 DEF StoresInv, LoadsOK, LoadOK
<1>2. CookiesStayInTheirDomain
  <2>1. JarIsSound(Contents(cookieFile, <<>>))
    BY DEF StoresInv, FilesOK, JarOK
  <2>2. ASSUME NEW p \in PageSlots, pages[p].at # "none"
        PROVE  /\ JarIsSound(pages[p].jar)
               /\ \A c \in ToSet(DocumentCookie(pages[p])) :
                    AtOrBelow(pages[p].opened.host, c.domain) /\ (c.secure => pages[p].opened.scheme = "https")
    <3> DEFINE page == pages[p]
               S == {i \in DOMAIN page.jar : CookieMatchesUrl(page.jar[i], page.url)}
               shown == Picked(page.jar, S)
    <3>1. HeldOK(page)
      BY <1>1, <2>2
    <3> HIDE DEF page
    <3>2. JarOK(page.jar) /\ page.url.host = page.opened.host /\ page.url.scheme = page.opened.scheme
      BY <3>1 DEF HeldOK, SameOrigin
    <3>3. S \in SUBSET DOMAIN page.jar /\ \A i \in S : CookieMatchesUrl(page.jar[i], page.url)
      OBVIOUS
    <3>4. DocumentCookie(page) = shown
      BY DEF DocumentCookie
    <3> HIDE DEF S
    <3>5. JarOK(shown) /\ \A i \in 1 .. Len(shown) : \E j \in S : shown[i] = page.jar[j]
      BY <3>2, <3>3, PickedJar
    <3>6. DOMAIN shown = 1 .. Len(shown)
      BY <3>5, ListFacts DEF JarOK
    <3> HIDE DEF shown
    <3>7. ASSUME NEW c \in ToSet(shown)
          PROVE  AtOrBelow(page.opened.host, c.domain) /\ (c.secure => page.opened.scheme = "https")
      <4>1. PICK i \in 1 .. Len(shown) : c = shown[i]
        BY <3>6 DEF ToSet
      <4>2. CookieMatchesUrl(c, page.url)
        BY <3>3, <3>5, <4>1
      <4> QED
        BY <3>2, <4>2 DEF CookieMatchesUrl
    <3> QED
      BY <3>2, <3>4, <3>7 DEF page, JarOK
  <2> QED
    BY <2>1, <2>2 DEF CookiesStayInTheirDomain
<1>3. ItemsStayInTheirOrigin
  BY <1>1 DEF ItemsStayInTheirOrigin, HeldOK, ItemsOf
<1>4. HistoryStaysInItsOrigin
  BY <1>1, ListFacts DEF HistoryStaysInItsOrigin, HeldOK, HistoryOf
<1>5. ScriptsLeaveNothingUnwritten
  BY <1>1 DEF ScriptsLeaveNothingUnwritten, DirtyOK
<1> QED
  BY <1>2, <1>3, <1>4, <1>5 DEF StoresServeTheirOwners

\* StoresServeTheirOwners: cookies, items and script-made history stay with
\* those who may see them, and nothing a script wrote is left in memory only
\* (cookies.rs, storage.rs, history_api.rs, web_platform.rs).
THEOREM StoresServe == StoresSpec => []StoresServeTheirOwners
BY StoresInvariance, StoresInvServes, PTL
=============================================================================

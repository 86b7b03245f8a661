--------------------------- MODULE ScriptPipeline ---------------------------
(***************************************************************************)
(* The scripts of a document: when each of them runs                       *)
(* (crates/syljs/src/script_pipeline.rs, run_research_script_pipeline).    *)
(*                                                                         *)
(* A script is the number of its discovery.  Running one takes two steps,  *)
(* so that what it can see while it runs is a state: it starts, with       *)
(* document.currentScript set, and it ends, by returning or by throwing.   *)
(* The configuration is chosen at the start and never changes; the three   *)
(* switches of it that only turn hooks off are taken to be on.             *)
(***************************************************************************)
EXTENDS Naturals, Sequences, SequencesExt

CONSTANTS
  MaxScripts    \* bound: scripts in a document

ASSUME PipelineAssumption == MaxScripts \in Nat

VARIABLES
  policy,           \* config.async_policy
  continueOnError,  \* config.continue_on_error
  stage,            \* what the pipeline is at
  phase,            \* the document's phase
  modes,            \* the mode of each script discovered
  immediate,        \* the script that runs where it was found, if any
  asyncQueue,
  deferQueue,
  running,          \* the script whose code runs, or NoScript
  currentScript,    \* document.currentScript
  log               \* scripts that finished or failed, with the phase they did it in

pipelineVars == <<policy, continueOnError, stage, phase, modes, immediate, asyncQueue,
                  deferQueue, running, currentScript, log>>

NoScript == 0
ScriptId == 1 .. MaxScripts
ScriptLoadModes == {"ParserBlocking", "Async", "Defer", "Dynamic"}
AsyncPolicies == {"AsSoonAsDiscovered", "AfterParsingBeforeDefer", "AfterDomContentLoaded"}
Phases == {"Loading", "Interactive", "DomContentLoaded", "Complete"}

(* The calls of run_research_script_pipeline and finish_parsing in order;  *)
(* "aborted" is where an error the pipeline does not swallow ends it.      *)
Stages == {"discover", "asyncBeforeDefer", "defer", "asyncAfterDcl", "parsed", "done", "aborted"}

-----------------------------------------------------------------------------
PipelineInit ==
  /\ policy \in AsyncPolicies
  /\ continueOnError \in BOOLEAN
  /\ stage = "discover" /\ phase = "Loading"
  /\ modes = <<>> /\ immediate = <<>> /\ asyncQueue = <<>> /\ deferQueue = <<>>
  /\ running = NoScript /\ currentScript = NoScript
  /\ log = <<>>

(* The queue flush_async_scripts empties now, if the policy says now. *)
AsyncDue(when) == IF policy = when THEN asyncQueue ELSE <<>>

(* The scripts that run before the pipeline does anything else. *)
Due == CASE stage = "discover" -> immediate \o AsyncDue("AsSoonAsDiscovered")
         [] stage = "asyncBeforeDefer" -> AsyncDue("AfterParsingBeforeDefer")
         [] stage = "defer" -> deferQueue
         [] stage = "asyncAfterDcl" -> AsyncDue("AfterDomContentLoaded")
         [] OTHER -> <<>>

Quiet == running = NoScript /\ Due = <<>>

Enqueue(queue, script) == Append(queue, script)

(* discover_script *)
DiscoverScript(mode) ==
  LET script == Len(modes) + 1 IN
  /\ stage = "discover" /\ Quiet
  /\ Len(modes) < MaxScripts
  /\ modes' = Append(modes, mode)
  /\ immediate' = IF mode \in {"ParserBlocking", "Dynamic"} THEN <<script>> ELSE immediate
  /\ asyncQueue' = IF mode = "Async" THEN Enqueue(asyncQueue, script) ELSE asyncQueue
  /\ deferQueue' = IF mode = "Defer" THEN Enqueue(deferQueue, script) ELSE deferQueue
  /\ UNCHANGED <<policy, continueOnError, stage, phase, running, currentScript, log>>

(* pop_front of the queue the next script comes from *)
Popped(queue) ==
  IF queue # <<>> /\ Head(queue) = Head(Due) THEN Tail(queue) ELSE queue

TakeNext ==
  /\ Due # <<>>
  /\ immediate' = Popped(immediate)
  /\ asyncQueue' = Popped(asyncQueue)
  /\ deferQueue' = Popped(deferQueue)

(* script_failed: the error ends the pipeline unless it goes on after      *)
(* errors.                                                                 *)
RecordFailure(script) ==
  /\ log' = Append(log, [script |-> script, phase |-> phase, finished |-> FALSE])
  /\ stage' = IF continueOnError THEN stage ELSE "aborted"

(* load_source succeeds and the script begins. *)
StartScript ==
  /\ running = NoScript
  /\ TakeNext
  /\ running' = Head(Due)
  /\ currentScript' = Head(Due)
  /\ UNCHANGED <<policy, continueOnError, stage, phase, modes, log>>

(* load_source of an external script fails: nothing of it runs. *)
LoadFails ==
  /\ running = NoScript
  /\ TakeNext
  /\ RecordFailure(Head(Due))
  /\ UNCHANGED <<policy, continueOnError, phase, modes, running, currentScript>>

(* execute_source returns, the event loop drained. *)
ScriptReturns ==
  /\ running # NoScript
  /\ log' = Append(log, [script |-> running, phase |-> phase, finished |-> TRUE])
  /\ running' = NoScript
  /\ currentScript' = NoScript
  /\ UNCHANGED <<policy, continueOnError, stage, phase, modes, immediate, asyncQueue, deferQueue>>

(* Mutant of ScriptThrows: the error returns before currentScript is cleared. *)
ThrowSkipsClear ==
  /\ running # NoScript
  /\ RecordFailure(running)
  /\ running' = NoScript
  /\ UNCHANGED <<policy, continueOnError, phase, modes, immediate, asyncQueue, deferQueue,
                 currentScript>>

(* ... or fails: the script does not parse, throws, or a job of it does.   *)
ScriptThrows ==
  /\ running # NoScript
  /\ RecordFailure(running)
  /\ running' = NoScript
  /\ currentScript' = NoScript
  /\ UNCHANGED <<policy, continueOnError, phase, modes, immediate, asyncQueue, deferQueue>>

(* One call of the pipeline is over, and the next begins.  Mapped to what  *)
(* stands between two flushes of finish_parsing, and to finish_document.   *)
MoveOn(from, to, newPhase) ==
  /\ stage = from /\ Quiet
  /\ stage' = to
  /\ phase' = newPhase
  /\ UNCHANGED <<policy, continueOnError, modes, immediate, asyncQueue, deferQueue, running,
                 currentScript, log>>

ParsingEnds == MoveOn("discover", "asyncBeforeDefer", "Interactive")
AsyncFlushed == MoveOn("asyncBeforeDefer", "defer", "Interactive")
DomContentLoaded == MoveOn("defer", "asyncAfterDcl", "DomContentLoaded")
FinishParsing == MoveOn("asyncAfterDcl", "parsed", "DomContentLoaded")
FinishDocument == MoveOn("parsed", "done", "Complete")

PipelineNext ==
  \/ \E mode \in ScriptLoadModes : DiscoverScript(mode)
  \/ StartScript \/ LoadFails \/ ScriptReturns \/ ScriptThrows
  \/ ParsingEnds \/ AsyncFlushed \/ DomContentLoaded \/ FinishParsing \/ FinishDocument

PipelineSpec == PipelineInit /\ [][PipelineNext]_pipelineVars

-----------------------------------------------------------------------------
ModeAt(i) == modes[log[i].script]

(* Type invariant. *)
PipelineTypeOK ==
  /\ phase \in Phases /\ stage \in Stages /\ modes \in Seq(ScriptLoadModes)
  /\ \A queue \in {immediate, asyncQueue, deferQueue} : queue \in Seq(ScriptId)

(* No script runs twice, and when the document is complete every script    *)
(* that was discovered has run or failed, under each of the three async    *)
(* policies and however many failed; deferred scripts run in the order     *)
(* they were found, between the end of parsing and DOMContentLoaded.       *)
(* document.currentScript names the script that runs while one does, and   *)
(* none otherwise, after a failure as well as after a return, so that no   *)
(* later callback sees a script that is over.                              *)
ScriptsRunOnceInOrder ==
  /\ PipelineTypeOK
  /\ IsInjective([i \in DOMAIN log |-> log[i].script])
  /\ phase = "Complete" => {log[i].script : i \in DOMAIN log} = DOMAIN modes
  /\ \A i \in DOMAIN log : ModeAt(i) = "Defer" =>
       /\ log[i].phase = "Interactive"
       /\ \A j \in DOMAIN log : i < j /\ ModeAt(j) = "Defer" => log[i].script < log[j].script
  /\ currentScript = running
=============================================================================

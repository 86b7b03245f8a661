----------------------------- MODULE PageScripts -----------------------------
(***************************************************************************)
(* The pass over the scripts of a page that is loaded (app/js: scripts.rs, *)
(* runtime.rs, event_loop.rs): they are collected from the tree, fetched   *)
(* or taken from it, read for the calls they make, and what they do to the *)
(* page goes through the queues of an event loop.  What they do to the     *)
(* hosts of ScriptStores and of media changes nothing here.  A page is a   *)
(* tree of <<"element", children>> and <<"script", tag>>, where a tag is   *)
(* [type, src, code, oversized], src <<>> or one literal.                  *)
(***************************************************************************)
EXTENDS DomBindings, PageWorkers

CONSTANTS
  PagesWithScripts,  \* trees of pages
  RenderDocuments,   \* what was extracted of a page before its scripts run
  FetchedSources,    \* texts an external script may turn out to have
  MaxScripts         \* per page

VARIABLE pass

NoRuntime == [console |-> 0, titles |-> <<>>, navigations |-> <<>>, executed |-> 0]
SummaryCounters == {"discovered", "executable", "inline", "external", "skipped", "failed"}
LoopCounters == {"tasksQueued", "tasksRun", "microtasksQueued", "microtasksRun", "mutations", "ignored", "listeners", "dispatched"}

(* The elements are replaced by their children, in place, until only       *)
(* scripts are left.                                                       *)
CollectScripts(page) ==
  LET children(node) == IF node[1] = "script" THEN <<node>> ELSE node[2]
      opened[n \in Nat] ==
        IF n = 0 THEN page ELSE LET nodes == opened[n - 1] IN FlattenSeq([i \in DOMAIN nodes |-> children(nodes[i])])
      scripts[n \in Nat] ==
        LET nodes == opened[n] IN
        IF \A i \in DOMAIN nodes : nodes[i][1] = "script" THEN [i \in DOMAIN nodes |-> nodes[i][2]] ELSE scripts[n + 1]
  IN scripts[0]

ClassicTypes == {"", "text/javascript", "application/javascript", "application/ecmascript", "text/ecmascript", "javascript"}
IsExecutableNow(tag) == tag.type \in ClassicTypes

(* Pages are finite trees, so that their scripts are a list; their texts   *)
(* are lists of statements; and a document comes with an element for each  *)
(* of its blocks, its styles computed from those.                          *)
ASSUME PassAssumption ==
  /\ MaxScripts \in Nat /\ FetchedSources \subseteq Seq(Statement)
  /\ \A page \in PagesWithScripts : LET scripts == CollectScripts(page) IN
       scripts \in Seq(ToSet(scripts)) /\ \A i \in DOMAIN scripts : scripts[i].code \in Seq(Statement)
  /\ \A document \in RenderDocuments :
       /\ document = [title |-> document.title, blocks |-> document.blocks,
                      elements |-> document.elements, styled |-> document.styled]
       /\ document.blocks \in Seq(ToSet(document.blocks)) /\ document.elements \in Seq(ToSet(document.elements))
       /\ Len(document.blocks) = Len(document.elements) /\ document.styled = document.elements

Pass(page, document) ==
  LET scripts == CollectScripts(page) IN
  [at |-> "scripts", scripts |-> SubSeq(scripts, 1, Min({Len(scripts), MaxScripts})),
   beyond |-> IF Len(scripts) > MaxScripts THEN Len(scripts) - MaxScripts ELSE 0, first |-> document, document |-> document,
   runtime |-> NoRuntime, worker |-> NewWorkerHost, tasks |-> <<>>, microtasks |-> <<>>, ran |-> <<>>,
   summary |-> [c \in SummaryCounters |-> IF c = "discovered" THEN Len(scripts) ELSE 0],
   loop |-> [c \in LoopCounters |-> 0]]

Summed(p, counter, n) == [p EXCEPT !.summary[counter] = @ + n]
Looped(p, counter, n) == [p EXCEPT !.loop[counter] = @ + n]

-----------------------------------------------------------------------------
(* The runtime: what a text is read for, an assignment from window twice.  *)
ConsoleCalls(source) ==
  LET of(level) == Len(Calls(source, Path(<<"console", level>>), 0)) IN of("log") + of("info") + of("warn") + of("error")
LiteralsOf(found) == [i \in DOMAIN found |-> found[i].args[1]]
TitlesSet(source) ==
  LiteralsOf(Assignments(source, Path(<<"document", "title">>)) \o Assignments(source, Path(<<"window", "document", "title">>)))
NavigationsAsked(source) ==
  LiteralsOf(Assignments(source, Path(<<"location", "href">>)) \o Assignments(source, Path(<<"window", "location", "href">>))
    \o Calls(source, Path(<<"location", "assign">>), 1) \o Calls(source, Path(<<"window", "location", "assign">>), 1))
RuntimeAfter(runtime, source) ==
  [console |-> runtime.console + ConsoleCalls(source), titles |-> runtime.titles \o TitlesSet(source),
   navigations |-> runtime.navigations \o NavigationsAsked(source), executed |-> runtime.executed + 1]

-----------------------------------------------------------------------------
(* The event loop.                                                         *)
PageTask(kind, effect) == [kind |-> kind, effect |-> effect]
NoEffect == DomEffect("None", "", <<>>)
(* Mutant of PushTask: the latest task runs first.                         *)
PushTaskInFront(p, task) == Looped([p EXCEPT !.tasks = <<task>> \o @], "tasksQueued", 1)
PushTask(p, task) == Looped([p EXCEPT !.tasks = Append(@, task)], "tasksQueued", 1)
PushMicrotask(p) == Looped([p EXCEPT !.microtasks = Append(@, "listener registration checkpoint")], "microtasksQueued", 1)

PushEffect(p, effect) ==
  LET queued(q) ==
        CASE effect.kind = "RegisterEventListener" -> Looped(PushMicrotask(q), "listeners", 1)
          [] effect.kind = "DispatchEvent" -> Looped(q, "dispatched", 1)
          [] OTHER -> q IN
  queued(PushTask(p, PageTask("ApplyDomEffect", effect)))
AfterScript(p, source) ==
  LET effects == CaptureDomEffects(source)
      after[i \in 0 .. Len(effects)] == IF i = 0 THEN p ELSE PushEffect(after[i - 1], effects[i])
  IN after[Len(effects)]

(* A script runs as soon as its text is there: its task is queued, it is   *)
(* read, its effects on the hosts are awaited, then its tasks are run.     *)
(* ran is the model's: the texts in the order they were executed.          *)
Executed(p, source, kind) ==
  LET clean == StripJsComments(source)
      queued == PushTask(p, PageTask("Script", NoEffect))
      read == [queued EXCEPT !.runtime = RuntimeAfter(@, clean), !.ran = Append(@, clean), !.at = "tasks"] IN
  {Summed(AfterScript([read EXCEPT !.worker = worker], clean), kind, 1) : worker \in AfterWorkerEffects(p.worker, source)}

-----------------------------------------------------------------------------

ScriptsInit == pass \in {Pass(page, document) : page \in PagesWithScripts, document \in RenderDocuments}

Tag == Head(pass.scripts)
WithoutFirst == [pass EXCEPT !.scripts = Tail(@)]
Chosen == pass.at = "scripts" /\ pass.scripts /= <<>>

ScriptSkipped ==
  /\ Chosen /\ ~IsExecutableNow(Tag)
  /\ pass' = Summed(WithoutFirst, "skipped", 1)
OversizedSkipped ==
  /\ Chosen /\ IsExecutableNow(Tag) /\ Tag.src = <<>> /\ Tag.oversized
  /\ pass' = Summed(Summed(WithoutFirst, "executable", 1), "skipped", 1)

(* A src that is no URL of the web, or does not come, is a failure; the    *)
(* text between the tags is not run instead.                               *)
External == Chosen /\ IsExecutableNow(Tag) /\ Tag.src /= <<>>
(* The text to run: that of the tag, or what its src turns out to be.      *)
TextsToRun ==
  IF Tag.src = <<>> THEN (IF Tag.oversized THEN {} ELSE {[source |-> Tag.code, kind |-> "inline"]})
  ELSE IF CanResolve(Tag.src[1]) THEN [source : FetchedSources, kind : {"external"}] ELSE {}
ScriptExecuted ==
  /\ Chosen /\ IsExecutableNow(Tag)
  /\ \E text \in TextsToRun : pass' \in Executed(Summed(WithoutFirst, "executable", 1), text.source, text.kind)
ExternalFails ==
  /\ External
  /\ pass' = Summed(Summed(WithoutFirst, "executable", 1), "failed", 1)

(* run_ready_tasks: first in, first out, and an event that is dispatched   *)
(* is a task behind those that wait.                                       *)
TaskRuns ==
  LET task == Head(pass.tasks)
      popped == Looped([pass EXCEPT !.tasks = Tail(@)], "tasksRun", 1)
      after(done) == Looped([popped EXCEPT !.document = done.document], IF done.changed THEN "mutations" ELSE "ignored", 1) IN
  /\ pass.at = "tasks" /\ pass.tasks /= <<>>
  /\ pass' = CASE task.kind /= "ApplyDomEffect" -> popped
               [] task.kind = "ApplyDomEffect" /\ task.effect.kind = "DispatchEvent" ->
                    Looped(PushTask(popped, PageTask("DispatchEvent", task.effect)), "dispatched", 1)
               [] OTHER -> after(ApplyDomEffect(pass.document, task.effect))
MicrotasksRun ==
  /\ pass.at = "tasks" /\ pass.tasks = <<>>
  /\ pass' = Looped([pass EXCEPT !.microtasks = <<>>, !.at = "scripts"], "microtasksRun", Len(pass.microtasks))

PassEnds ==
  /\ pass.at = "scripts" /\ pass.scripts = <<>>
  /\ pass' = [Summed(pass, "skipped", pass.beyond) EXCEPT
                !.at = "ended",
                !.document.title = IF pass.runtime.titles = <<>> THEN @ ELSE Last(pass.runtime.titles)]

ScriptsNext ==
  \/ ScriptSkipped \/ OversizedSkipped \/ ScriptExecuted \/ ExternalFails
  \/ TaskRuns \/ MicrotasksRun \/ PassEnds
ScriptsSpec == ScriptsInit /\ [][ScriptsNext]_pass

-----------------------------------------------------------------------------
(* Whatever scripts do, a block has its element and the style tree is the  *)
(* one of the elements there are (render document, dom_bindings.rs).       *)
BlocksKeepTheirElements ==
  /\ Len(pass.document.blocks) = Len(pass.document.elements)
  /\ pass.document.styled = pass.document.elements

(* At the end of the pass every script is counted once, for what became of *)
(* it, every task and microtask queued was run, and every effect applied   *)
(* or ignored; and every registration is that of one scope, with its cache *)
(* still there if none was deleted.                                        *)
EveryScriptIsAccountedFor ==
  LET s == pass.summary
      l == pass.loop
      w == pass.worker.counts IN
  /\ pass.at = "ended" =>
       /\ s["discovered"] = s["inline"] + s["external"] + s["skipped"] + s["failed"]
       /\ pass.runtime.executed = s["inline"] + s["external"]
       /\ l["tasksRun"] = l["tasksQueued"] /\ l["microtasksRun"] = l["microtasksQueued"]
       /\ l["dispatched"] % 2 = 0 /\ l["microtasksRun"] = l["listeners"]
       /\ l["tasksRun"] = pass.runtime.executed + l["mutations"] + l["ignored"] + l["dispatched"]
  /\ w["registrations"] + w["updates"] + w["scriptFailures"] = w["scriptFetches"]
  /\ w["registrations"] = Cardinality(DOMAIN pass.worker.registrations)
  /\ w["hits"] + w["misses"] <= w["matches"]
  /\ w["deletes"] = 0 => \A scope \in DOMAIN pass.worker.registrations :
       SanitizeCacheName(pass.worker.registrations[scope].cache) \in DOMAIN pass.worker.caches

(* When a script has run, the page is what the scripts so far make of it   *)
(* one after the other, each as a whole; its title is the last one set.    *)
AppliedAll(document, effects) ==
  LET after[i \in 0 .. Len(effects)] == IF i = 0 THEN document ELSE ApplyDomEffect(after[i - 1], effects[i]).document
  IN after[Len(effects)]
AppliedInOrder(document, sources) ==
  LET after[i \in 0 .. Len(sources)] ==
        IF i = 0 THEN document ELSE AppliedAll(after[i - 1], CaptureDomEffects(sources[i]))
  IN after[Len(sources)]
ScriptsChangeThePageInTurn ==
  LET title(now) == IF pass.at = "ended" /\ pass.runtime.titles /= <<>> THEN Last(pass.runtime.titles) ELSE now IN
  pass.at /= "tasks" => pass.document = [AppliedInOrder(pass.first, pass.ran) EXCEPT !.title = title(@)]

ScriptPassIsSound == EveryScriptIsAccountedFor /\ ScriptsChangeThePageInTurn
=============================================================================

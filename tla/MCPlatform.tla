----------------------------- MODULE MCPlatform -----------------------------
(***************************************************************************)
(* Instances for TLC of the hosts SylJS gives a script: workers, buffers,  *)
(* the script pipeline, media, caches, the document, invalidation.  The    *)
(* hosts share no state (each is an object of its own behind an Rc), so    *)
(* one host at a time is explored: a state of one beside a state of        *)
(* another shows nothing the two alone do not.                             *)
(***************************************************************************)
EXTENDS Workers, Transfer, ScriptPipeline, MediaElements, CacheStorage,
        DomTree, Invalidation

VARIABLE host     \* the host the script of this behaviour uses

PathUrls == << <<"a">>, <<"a", "b">>, <<"c">> >>
NestedScopes == { <<>>, <<"a">> }

Init ==
  /\ host \in {"workers", "transfer", "pipeline", "media", "storage", "dom", "invalidation"}
  /\ WorkersInit /\ TransferInit /\ MediaInit /\ StorageInit /\ PipelineInit
  /\ DomInit /\ InvalidationInit
  /\ host # "pipeline" => policy = "AsSoonAsDiscovered" /\ continueOnError

Next ==
  /\ UNCHANGED host
  /\ \/ /\ host = "workers" /\ WorkersNext
        /\ UNCHANGED <<transferVars, pipelineVars, mediaVars, storageVars, domVars, queue>>
     \/ /\ host = "transfer" /\ TransferNext
        /\ UNCHANGED <<workersVars, pipelineVars, mediaVars, storageVars, domVars, queue>>
     \/ /\ host = "pipeline" /\ PipelineNext
        /\ UNCHANGED <<workersVars, transferVars, mediaVars, storageVars, domVars, queue>>
     \/ /\ host = "media" /\ MediaNext
        /\ UNCHANGED <<workersVars, transferVars, pipelineVars, storageVars, domVars, queue>>
     \/ /\ host = "storage" /\ StorageNext
        /\ UNCHANGED <<workersVars, transferVars, pipelineVars, mediaVars, domVars, queue>>
     \/ /\ host = "dom" /\ DomNext
        /\ UNCHANGED <<workersVars, transferVars, pipelineVars, mediaVars, storageVars, queue>>
     \/ /\ host = "invalidation" /\ InvalidationNext
        /\ UNCHANGED <<workersVars, transferVars, pipelineVars, mediaVars, storageVars, domVars>>

vars == <<host, workersVars, transferVars, pipelineVars, mediaVars, storageVars, domVars, queue>>
Spec == Init /\ [][Next]_vars
=============================================================================

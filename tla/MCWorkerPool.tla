----------------------------- MODULE MCWorkerPool -----------------------------
(***************************************************************************)
(* The worker pool for TLC, alone or inside the microservice, which calls  *)
(* it from request handlers and a shutdown hook.  Calls, workers and       *)
(* stoppers are interchangeable.                                           *)
(***************************************************************************)
EXTENDS Microservice, TLC

VARIABLE part

MCInit == part \in {"pool", "microservice"} /\ ServiceInit

MCNext ==
    \/ part = "pool" /\ Next /\ UNCHANGED <<part, shutdownVars, mainVars>>
    \/ part = "microservice" /\ ServiceNext /\ UNCHANGED part

MCSpec == MCInit /\ [][MCNext]_<<part, serviceVars>>

Symmetry == Permutations(Tasks) \cup Permutations(Workers) \cup Permutations(Stoppers)
===============================================================================

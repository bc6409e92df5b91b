----------------------------- MODULE MCIdempotency -----------------------------
(***************************************************************************)
(* The idempotency middleware for TLC, over one of three stores: the       *)
(* memory store as the cfg configures it, whose locks last; the memory     *)
(* store of a chaotic service, whose requests outlive their locks, are     *)
(* cancelled and lose their records to Delete, expiry and eviction; and    *)
(* the PostgreSQL store of any number of replicas, with statements that    *)
(* fail.  The stores that do not run stay in their initial states.         *)
(***************************************************************************)
EXTENDS MemoryStore, TLC

CONSTANTS pgGin, pgPrompt, pgLockTTL, pgResponseTTL, ChaosTime, ChaosEntries

\* NewPGStore replaces TTLs that are not positive.  None is no row.
ASSUME PGAssumption ==
    /\ pgGin \in BOOLEAN /\ pgPrompt \in BOOLEAN
    /\ pgLockTTL \in Nat \ {0} /\ pgResponseTTL \in Nat \ {0} /\ ChaosTime \in Nat
    /\ None \notin [status : {"IN_PROGRESS", "COMPLETED"}, response : Requests \cup {None},
                    lockedUntil : Nat, expiresAt : Nat]

VARIABLES part, cPc, cKey, cAnswer, cCtxDone, cBegan, cNow, cData, table, seen

Chaos == INSTANCE MemoryStore WITH
    Cancels <- TRUE, Prompt <- FALSE, Deletes <- TRUE, lockTTL <- 1, responseTTL <- 1,
    MaxTime <- ChaosTime, maxEntries <- ChaosEntries,
    pc <- cPc, key <- cKey, answer <- cAnswer, ctxDone <- cCtxDone, began <- cBegan,
    now <- cNow, data <- cData

PG == INSTANCE PGStore WITH
    Gin <- pgGin, Cancels <- TRUE, Prompt <- pgPrompt, Deletes <- TRUE, DbFails <- TRUE,
    lockTTL <- pgLockTTL, responseTTL <- pgResponseTTL, MaxTime <- ChaosTime,
    pc <- cPc, key <- cKey, answer <- cAnswer, ctxDone <- cCtxDone, began <- cBegan,
    now <- cNow

otherVars == <<cPc, cKey, cAnswer, cCtxDone, cBegan, cNow, cData, table, seen>>

\* The keys of the requests of a store that does not run are irrelevant, and on the
\* PostgreSQL store, where keys have rows of their own, all requests have one key.
MCInit ==
    /\ part \in {"locks", "chaos", "postgres"}
    /\ Init /\ Chaos!Init /\ PG!Init
    /\ cKey = key
    /\ part = "postgres" => \A r, s \in Requests : key[r] = key[s]

MCNext ==
    \/ part = "locks" /\ Next /\ UNCHANGED <<part, otherVars>>
    \/ part = "chaos" /\ Chaos!Next /\ UNCHANGED <<part, vars, table, seen>>
    \/ part = "postgres" /\ PG!Next /\ UNCHANGED <<part, vars, cData>>

MCSpec == MCInit /\ [][MCNext]_<<part, vars, otherVars>>

\* Whatever happens to its locks and records, a store replays only what a successful
\* handler wrote for this key: the memory store in chaos, and the PostgreSQL store,
\* although its statements fail (middleware.go:112-167, memory.go:67-163,
\* postgres.go:125-268).
ReplaysTruthful == PG!ReplayTruthful

\* Of the replicas that share the table one at a time holds a key
\* (postgres.go:125-215).
PGLockExclusive == part = "postgres" => PG!LockExclusive

\* A stored row is replaced only after it has expired and removed only by Delete,
\* also when the answers of statements are lost (postgres.go:219-268).
PGResponseKept == PG!ResponseKept

Symmetry == Permutations(Requests) \cup Permutations(Keys)
================================================================================

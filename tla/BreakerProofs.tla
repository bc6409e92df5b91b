---------------------------- MODULE BreakerProofs ----------------------------
(***************************************************************************)
(* Theorems about the circuit breakers, for any number of callers: about   *)
(* BreakerCore, whatever rule trips it; about the consecutive-failure      *)
(* breaker, whose counter stays below the threshold while closed; about    *)
(* the quote endpoint, whose requests enter that breaker twice; and about  *)
(* the failure-ratio breaker, whose running count is that of its records   *)
(* and which trips on what its window holds.                               *)
(***************************************************************************)
EXTENDS QuoteService, RatioBreaker, FiniteSetTheorems, WellFoundedInduction, TLAPS

\* The configured values after initDefaults are positive.
LEMMA EffectiveConfig ==
    /\ MaxHalfOpen \in Nat \ {0}
    /\ ResetTimeout \in Nat \ {0}
BY CoreAssumption DEF MaxHalfOpen, ResetTimeout, Default

\* The initial state is well typed.
LEMMA InitType == CoreInit => CoreTypeOK
<1> SUFFICES ASSUME CoreInit PROVE CoreTypeOK
  OBVIOUS
<1>1. state \in States /\ halfOpenInFlight \in 0..MaxHalfOpen
                       /\ sinceOpen \in 0..(ResetTimeout + 1)
  BY EffectiveConfig DEF CoreInit, States
<1>2. pc \in [Calls -> Places]
  BY DEF CoreInit, Places
<1>3. isProbe \in [Calls -> BOOLEAN] /\ healthy \in BOOLEAN
  BY Zenon DEF CoreInit
<1> QED
  BY <1>1, <1>2, <1>3 DEF CoreTypeOK

\* Every step keeps the types, and halfOpenInFlight between 0 and maxHalfOpen.
LEMMA NextType == CoreTypeOK /\ [CoreNext]_coreVars => CoreTypeOK'
<1> SUFFICES ASSUME CoreTypeOK, [CoreNext]_coreVars PROVE CoreTypeOK'
  OBVIOUS
<1> DEFINE Numbers == /\ state \in States
                      /\ halfOpenInFlight \in 0..MaxHalfOpen
                      /\ sinceOpen \in 0..(ResetTimeout + 1)
           Pcs     == pc \in [Calls -> Places]
           Flags   == isProbe \in [Calls -> BOOLEAN] /\ healthy \in BOOLEAN
<1>t. Numbers /\ Pcs /\ Flags
  BY DEF CoreTypeOK
<1> USE EffectiveConfig
<1>1. ASSUME NEW c \in Calls, CanExecute(c) PROVE Numbers' /\ Pcs' /\ Flags'
  <2>1. Numbers'
    BY <1>1, <1>t DEF CanExecute, cbVars, States
  <2>2. Pcs'
    BY <1>1, <1>t DEF CanExecute, Places
  <2>3. Flags'
    BY <1>1, <1>t, Zenon DEF CanExecute
  <2> QED
    BY <2>1, <2>2, <2>3
<1>2. ASSUME NEW c \in Calls, NEW err \in Errors, NEW trips \in BOOLEAN,
             RequestReturns(c, err, trips)
      PROVE  Numbers' /\ Pcs' /\ Flags'
  <2>1. Numbers'
    BY <1>2, <1>t DEF RequestReturns, ProbeResult, ProbeFails, RequestResult,
                      DecrementHalfOpen, Transition, States
  <2>2. Pcs'
    BY <1>2, <1>t DEF RequestReturns, ProbeResult, ProbeFails, RequestResult,
                      Transition, Places
  <2>3. Flags'
    BY <1>2, <1>t DEF RequestReturns
  <2> QED
    BY <2>1, <2>2, <2>3
<1>3. ASSUME NEW c \in Calls, NEW trips \in BOOLEAN,
             OnPanic(c, trips), UNCHANGED <<isProbe, healthy>>
      PROVE  Numbers' /\ Pcs' /\ Flags'
  <2>1. Numbers'
    BY <1>3, <1>t DEF OnPanic, ProbeFails, RequestResult,
                      DecrementHalfOpen, Transition, States
  <2>2. Pcs'
    BY <1>3, <1>t DEF OnPanic, ProbeFails, RequestResult, Transition, Places
  <2>3. Flags'
    BY <1>3, <1>t
  <2> QED
    BY <2>1, <2>2, <2>3
<1>4. ASSUME NEW c \in Calls, CallbackReturns(c) \/ CallbackPanicEscapes(c)
      PROVE  Numbers' /\ Pcs' /\ Flags'
  <2>1. Numbers' /\ Flags'
    BY <1>4, <1>t DEF CallbackReturns, CallbackPanicEscapes, cbVars
  <2>2. Pcs'
    BY <1>4, <1>t DEF CallbackReturns, CallbackPanicEscapes, Places
  <2> QED
    BY <2>1, <2>2
<1>5. ASSUME Tick PROVE Numbers' /\ Pcs' /\ Flags'
  <2>1. Numbers'
    BY <1>5, <1>t DEF Tick
  <2> QED
    BY <2>1, <1>5, <1>t DEF Tick
<1>6. ASSUME Recover PROVE Numbers' /\ Pcs' /\ Flags'
  <2>1. Numbers' /\ Pcs'
    BY <1>6, <1>t DEF Recover, cbVars
  <2>2. Flags'
    BY <1>6, <1>t, Zenon DEF Recover
  <2> QED
    BY <2>1, <2>2
<1>7. ASSUME UNCHANGED coreVars PROVE Numbers' /\ Pcs' /\ Flags'
  BY <1>7, <1>t DEF coreVars
<1>8. Numbers' /\ Pcs' /\ Flags'
  <2> HIDE DEF Numbers, Pcs, Flags
  <2> QED
    BY <1>1, <1>2, <1>3, <1>4, <1>5, <1>6, <1>7
       DEF CoreNext, CoreStep, Panics, CallbackEnds, RequestPanics, CallbackPanicCounted
<1> QED
  BY <1>8 DEF CoreTypeOK

\* Types hold, and no more than maxHalfOpen probe slots are ever taken,
\* however callers, panics and callbacks interleave.
THEOREM CoreTypeCorrect == CoreSpec => []CoreTypeOK
BY InitType, NextType, PTL DEF CoreSpec

-----------------------------------------------------------------------------
(* The breaker never freezes                                               *)

\* Every slot that is taken belongs to a probe in flight.
SlotInv == halfOpenInFlight <= Cardinality(Probes)

\* The set of probes is finite, so that its size is a number.
LEMMA ProbesFinite == IsFiniteSet(Probes) /\ Cardinality(Probes) \in Nat
<1>1. Probes \subseteq Calls
  BY DEF Probes
<1> QED
  BY <1>1, CoreAssumption, FS_Subset, FS_CardinalityType

\* A probe that is admitted.
LEMMA ProbeAdded ==
    ASSUME NEW c \in Calls, c \notin Probes, Probes' = Probes \cup {c}
    PROVE  Cardinality(Probes') = Cardinality(Probes) + 1
BY ProbesFinite, FS_AddElement

\* A probe whose result is recorded.
LEMMA ProbeRemoved ==
    ASSUME NEW c \in Calls, c \in Probes, Probes' = Probes \ {c}
    PROVE  Cardinality(Probes') = Cardinality(Probes) - 1
BY ProbesFinite, FS_RemoveElement

\* How a step of one caller changes the set of probes.
LEMMA ProbesStep ==
    ASSUME CoreTypeOK, NEW c \in Calls
    PROVE  /\ \A p \in Places :
                 pc' = [pc EXCEPT ![c] = p] /\ isProbe' = isProbe
                 => Probes' = IF isProbe[c] /\ p \in {"admitNotify", "req"}
                              THEN Probes \cup {c} ELSE Probes \ {c}
           /\ \A p \in Places, b \in BOOLEAN :
                 pc' = [pc EXCEPT ![c] = p] /\ isProbe' = [isProbe EXCEPT ![c] = b]
                 => Probes' = IF b /\ p \in {"admitNotify", "req"}
                              THEN Probes \cup {c} ELSE Probes \ {c}
BY DEF CoreTypeOK, Probes

\* A slot is taken with a probe and given back with it, as long as callbacks do
\* not panic.
LEMMA NextSlot ==
    ASSUME CallbackPanics = FALSE
    PROVE  CoreTypeOK /\ SlotInv /\ [CoreNext]_coreVars => SlotInv'
<1> SUFFICES ASSUME CoreTypeOK, SlotInv, [CoreNext]_coreVars PROVE SlotInv'
  OBVIOUS
<1> DEFINE n == Cardinality(Probes)
<1>t. halfOpenInFlight \in Nat /\ n \in Nat
  BY EffectiveConfig, ProbesFinite DEF CoreTypeOK
<1>i. halfOpenInFlight <= n
  BY DEF SlotInv
<1>1. ASSUME NEW c \in Calls, CanExecute(c) PROVE SlotInv'
  <2>0. c \notin Probes /\ Probes \ {c} = Probes
    BY <1>1 DEF CanExecute, Probes
  <2>1. CASE state = "CLOSED"
    <3>1. pc' = [pc EXCEPT ![c] = "req"] /\ isProbe' = [isProbe EXCEPT ![c] = FALSE]
             /\ halfOpenInFlight' = halfOpenInFlight
      BY <1>1, <2>1 DEF CanExecute, cbVars
    <3>2. Probes' = Probes
      BY <3>1, <2>0, ProbesStep, Zenon DEF Places
    <3> QED
      BY <3>1, <3>2 DEF SlotInv
  <2>2. CASE state # "CLOSED"
    <3>1. PICK p \in {"admitNotify", "req"} :
             pc' = [pc EXCEPT ![c] = p] /\ isProbe' = [isProbe EXCEPT ![c] = TRUE]
      BY <1>1, <2>2 DEF CanExecute
    <3>2. Probes' = Probes \cup {c}
      BY <3>1, ProbesStep, Zenon DEF Places
    <3>3. Cardinality(Probes') = n + 1
      BY <3>2, <2>0, ProbeAdded
    <3>4. halfOpenInFlight' = 1 \/ halfOpenInFlight' = halfOpenInFlight + 1
      BY <1>1, <2>2 DEF CanExecute
    <3> QED
      BY <3>3, <3>4, <1>t, <1>i DEF SlotInv
  <2> QED
    BY <2>1, <2>2
<1>2. ASSUME NEW c \in Calls, pc[c] = "req", isProbe' = isProbe, DecrementHalfOpen,
             isProbe[c], NEW p \in {"idle", "resultNotify", "panicNotify"},
             pc' = [pc EXCEPT ![c] = p]
      PROVE  SlotInv'
  <2>1. c \in Probes
    BY <1>2 DEF Probes
  <2>2. Probes' = Probes \ {c}
    BY <1>2, ProbesStep, Zenon DEF Places
  <2>3. Cardinality(Probes') = n - 1
    BY <2>1, <2>2, ProbeRemoved
  <2>4. n # 0
    BY <2>1, ProbesFinite, FS_EmptySet
  <2> QED
    BY <1>2, <2>3, <2>4, <1>t, <1>i DEF SlotInv, DecrementHalfOpen
<1>3. ASSUME NEW c \in Calls, isProbe' = isProbe, halfOpenInFlight' = halfOpenInFlight,
             ~isProbe[c], NEW p \in Places, pc' = [pc EXCEPT ![c] = p]
      PROVE  SlotInv'
  <2>1. Probes' = Probes
    BY <1>3, ProbesStep DEF Probes
  <2> QED
    BY <1>3, <2>1 DEF SlotInv
<1>4. ASSUME NEW c \in Calls, NEW err \in Errors, NEW trips \in BOOLEAN,
             RequestReturns(c, err, trips)
      PROVE  SlotInv'
  <2>1. CASE isProbe[c]
    <3>1. DecrementHalfOpen /\ isProbe' = isProbe /\ pc[c] = "req"
      BY <1>4, <2>1 DEF RequestReturns, ProbeResult, ProbeFails
    <3>2. \E p \in {"idle", "resultNotify", "panicNotify"} : pc' = [pc EXCEPT ![c] = p]
      BY <1>4, <2>1 DEF RequestReturns, ProbeResult, ProbeFails, Transition
    <3> QED
      BY <1>2, <2>1, <3>1, <3>2, Zenon
  <2>2. CASE ~isProbe[c]
    BY <1>3, <1>4, <2>2 DEF RequestReturns, RequestResult, Transition, Places
  <2> QED
    BY <2>1, <2>2
<1>5. ASSUME NEW c \in Calls, NEW trips \in BOOLEAN, RequestPanics(c, trips)
      PROVE  SlotInv'
  <2>1. CASE isProbe[c]
    <3>1. DecrementHalfOpen /\ isProbe' = isProbe /\ pc[c] = "req"
      BY <1>5, <2>1 DEF RequestPanics, OnPanic, ProbeFails
    <3>2. \E p \in {"idle", "resultNotify", "panicNotify"} : pc' = [pc EXCEPT ![c] = p]
      BY <1>5, <2>1 DEF RequestPanics, OnPanic, ProbeFails, Transition
    <3> QED
      BY <1>2, <2>1, <3>1, <3>2, Zenon
  <2>2. CASE ~isProbe[c]
    BY <1>3, <1>5, <2>2 DEF RequestPanics, OnPanic, RequestResult, Transition, Places
  <2> QED
    BY <2>1, <2>2
<1>6. ASSUME NEW c \in Calls, CallbackReturns(c) PROVE SlotInv'
  <2>1. Probes' = Probes
    BY <1>6 DEF CallbackReturns, Probes, CoreTypeOK
  <2> QED
    BY <1>6, <2>1 DEF CallbackReturns, SlotInv, cbVars
<1>7. ASSUME Tick \/ Recover \/ UNCHANGED coreVars PROVE SlotInv'
  <2>1. Probes' = Probes /\ halfOpenInFlight' = halfOpenInFlight
    BY <1>7 DEF Tick, Recover, coreVars, cbVars, Probes
  <2> QED
    BY <2>1 DEF SlotInv
<1> QED
  BY <1>1, <1>4, <1>5, <1>6, <1>7
     DEF CoreNext, CoreStep, Panics, CallbackEnds, CallbackPanicCounted, CallbackPanicEscapes

\* As long as the state-change callback does not panic, a breaker that reports
\* HALF_OPEN and has no probe in flight admits the next call: it never freezes,
\* whatever maxHalfOpen is and whatever stale probes are still running.
THEOREM BreakerNeverFreezes ==
    ASSUME CallbackPanics = FALSE
    PROVE  CoreSpec => []NeverFrozen
<1>1. CoreInit => SlotInv
  <2> SUFFICES ASSUME CoreInit PROVE SlotInv
    OBVIOUS
  <2>1. halfOpenInFlight = 0
    BY DEF CoreInit
  <2> QED
    BY <2>1, ProbesFinite DEF SlotInv
<1>2. CoreTypeOK /\ SlotInv => NeverFrozen
  <2> SUFFICES ASSUME CoreTypeOK, SlotInv, Probes = {}
               PROVE  halfOpenInFlight < MaxHalfOpen
    BY DEF NeverFrozen
  <2>1. Cardinality(Probes) = 0
    BY FS_EmptySet
  <2> QED
    BY <2>1, EffectiveConfig DEF CoreTypeOK, SlotInv
<1> QED
  BY <1>1, <1>2, NextSlot, CoreTypeCorrect, PTL DEF CoreSpec

-----------------------------------------------------------------------------
(* One probe at a time                                                     *)

\* With maxHalfOpen = 1 the slot and the probe come and go together, and only
\* while the circuit is half open.
OneProbe ==
    /\ \A p, q \in Probes : p = q
    /\ Probes # {} => state = "HALF_OPEN" /\ halfOpenInFlight = 1
    /\ Probes = {} => halfOpenInFlight = 0

\* Only a probe runs the callback of canExecute.
AdmitInv == \A c \in Calls : pc[c] = "admitNotify" => isProbe[c]

\* AdmitInv is inductive.
LEMMA NextAdmit == CoreTypeOK /\ AdmitInv /\ [CoreNext]_coreVars => AdmitInv'
<1> SUFFICES ASSUME CoreTypeOK, AdmitInv, [CoreNext]_coreVars PROVE AdmitInv'
  OBVIOUS
<1> USE DEF AdmitInv, CoreTypeOK
<1>1. ASSUME NEW c \in Calls, CanExecute(c) PROVE AdmitInv'
  BY <1>1 DEF CanExecute
<1>2. ASSUME NEW c \in Calls, isProbe' = isProbe,
             \E p \in Places \ {"admitNotify"} : pc' = [pc EXCEPT ![c] = p]
      PROVE  AdmitInv'
  BY <1>2
<1>3. ASSUME NEW c \in Calls, NEW err \in Errors, NEW trips \in BOOLEAN,
             RequestReturns(c, err, trips)
      PROVE  AdmitInv'
  BY <1>2, <1>3 DEF RequestReturns, ProbeResult, ProbeFails, RequestResult,
                    Transition, Places
<1>4. ASSUME NEW c \in Calls, NEW trips \in BOOLEAN,
             RequestPanics(c, trips) \/ CallbackPanicCounted(c, trips)
      PROVE  AdmitInv'
  BY <1>2, <1>4 DEF RequestPanics, CallbackPanicCounted, OnPanic, ProbeFails,
                    RequestResult, Transition, Places
<1>5. ASSUME NEW c \in Calls, CallbackReturns(c) \/ CallbackPanicEscapes(c)
      PROVE  AdmitInv'
  BY <1>2, <1>5 DEF CallbackReturns, CallbackPanicEscapes, Places
<1>6. ASSUME Tick \/ Recover \/ UNCHANGED coreVars PROVE AdmitInv'
  BY <1>6 DEF Tick, Recover, coreVars
<1> QED
  BY <1>1, <1>3, <1>4, <1>5, <1>6 DEF CoreNext, CoreStep, Panics, CallbackEnds

\* What each step of one caller is, seen as a step of the lifecycle.
AbstractStep ==
    \/ \E c \in Calls : \/ Lifecycle!Admit(c) \/ Lifecycle!Complete(c)
                        \/ Lifecycle!Probe(c) \/ Lifecycle!Settle(c)
    \/ Lifecycle!Cool
    \/ UNCHANGED Lifecycle!vars

\* How a step of one caller changes the set of ordinary requests.
LEMMA NormalsStep ==
    ASSUME CoreTypeOK, NEW c \in Calls
    PROVE  /\ \A p \in Places :
                 pc' = [pc EXCEPT ![c] = p] /\ isProbe' = isProbe
                 => Normals' = IF ~isProbe[c] /\ p = "req"
                               THEN Normals \cup {c} ELSE Normals \ {c}
           /\ \A p \in Places, b \in BOOLEAN :
                 pc' = [pc EXCEPT ![c] = p] /\ isProbe' = [isProbe EXCEPT ![c] = b]
                 => Normals' = IF ~b /\ p = "req"
                               THEN Normals \cup {c} ELSE Normals \ {c}
BY DEF CoreTypeOK, Normals

\* canExecute admits an ordinary request or the one probe.
LEMMA CanExecuteStep ==
    ASSUME MaxHalfOpen = 1, CoreTypeOK, OneProbe, NEW c \in Calls, CanExecute(c)
    PROVE  OneProbe' /\ AbstractStep
<1>0. c \notin Probes /\ c \notin Normals
  BY DEF CanExecute, Probes, Normals
<1>1. CASE state = "CLOSED"
  <2>1. /\ pc' = [pc EXCEPT ![c] = "req"]
        /\ isProbe' = [isProbe EXCEPT ![c] = FALSE]
        /\ UNCHANGED cbVars
    BY <1>1 DEF CanExecute
  <2>2. Probes' = Probes /\ Normals' = Normals \cup {c}
    <3>1. Probes' = Probes \ {c}
      BY <2>1, ProbesStep, Zenon DEF Places
    <3>2. Normals' = Normals \cup {c}
      BY <2>1, NormalsStep, Zenon DEF Places
    <3> QED
      BY <1>0, <3>1, <3>2
  <2>3. OneProbe'
    BY <2>1, <2>2 DEF OneProbe, cbVars
  <2>4. Lifecycle!Admit(c)
    BY <1>0, <1>1, <2>1, <2>2 DEF Lifecycle!Admit, cbVars
  <2> QED
    BY <2>3, <2>4 DEF AbstractStep
<1>2. CASE state # "CLOSED"
  <2>1. PICK p \in {"admitNotify", "req"} :
           /\ pc' = [pc EXCEPT ![c] = p]
           /\ isProbe' = [isProbe EXCEPT ![c] = TRUE]
    BY <1>2 DEF CanExecute
  <2>2. /\ state' = "HALF_OPEN"
        /\ sinceOpen' = sinceOpen
        /\ \/ state = "OPEN" /\ sinceOpen > ResetTimeout /\ halfOpenInFlight' = 1
           \/ /\ state = "HALF_OPEN" /\ halfOpenInFlight < 1
              /\ halfOpenInFlight' = halfOpenInFlight + 1
    BY <1>2 DEF CanExecute
  <2>3. Probes = {}
    BY <2>2 DEF OneProbe
  <2>4. Probes' = {c} /\ Normals' = Normals
    <3>1. Probes' = Probes \cup {c}
      BY <2>1, ProbesStep, Zenon DEF Places
    <3>2. Normals' = Normals \ {c}
      BY <2>1, NormalsStep, Zenon DEF Places
    <3> QED
      BY <1>0, <2>3, <3>1, <3>2
  <2>5. halfOpenInFlight' = 1
    BY <2>2, <2>3 DEF OneProbe
  <2>6. OneProbe'
    BY <2>2, <2>4, <2>5 DEF OneProbe
  <2>7. Lifecycle!Probe(c)
    BY <2>2, <2>3, <2>4 DEF Lifecycle!Probe
  <2> QED
    BY <2>6, <2>7 DEF AbstractStep
<1> QED
  BY <1>1, <1>2

\* The result of the probe settles the circuit.
LEMMA ProbeStep ==
    ASSUME MaxHalfOpen = 1, CoreTypeOK, OneProbe, NEW c \in Calls,
           pc[c] = "req", isProbe[c], isProbe' = isProbe, DecrementHalfOpen,
           NEW p \in {"idle", "resultNotify", "panicNotify"},
           pc' = [pc EXCEPT ![c] = p],
           \/ state' = "CLOSED" /\ sinceOpen' = sinceOpen
           \/ state' = "OPEN" /\ sinceOpen' = 0
           \/ state' = state /\ sinceOpen' = sinceOpen
    PROVE  OneProbe' /\ AbstractStep
<1>1. c \in Probes /\ c \notin Normals
  BY DEF Probes, Normals
<1>2. Probes = {c} /\ state = "HALF_OPEN" /\ halfOpenInFlight = 1
  BY <1>1 DEF OneProbe
<1>3. Probes' = {} /\ Normals' = Normals
  <2>1. Probes' = Probes \ {c}
    BY ProbesStep, Zenon DEF Places
  <2>2. Normals' = Normals \ {c}
    BY NormalsStep, Zenon DEF Places
  <2> QED
    BY <1>1, <1>2, <2>1, <2>2
<1>4. OneProbe'
  BY <1>2, <1>3 DEF OneProbe, DecrementHalfOpen
<1>5. (sinceOpen > ResetTimeout)' = (sinceOpen' > ResetTimeout) /\ ~(0 > ResetTimeout)
  BY EffectiveConfig
<1>6. Lifecycle!Settle(c)
  BY <1>2, <1>3, <1>5 DEF Lifecycle!Settle
<1> QED
  BY <1>4, <1>6 DEF AbstractStep

\* The result of an ordinary request trips a closed circuit, or does nothing.
LEMMA RequestStep ==
    ASSUME CoreTypeOK, OneProbe, NEW c \in Calls, pc[c] = "req", ~isProbe[c],
           isProbe' = isProbe, NEW trips \in BOOLEAN,
           NEW next \in {"resultNotify", "panicNotify"},
           RequestResult(c, trips, next)
    PROVE  OneProbe' /\ AbstractStep
<1>1. c \in Normals /\ c \notin Probes
  BY DEF Probes, Normals
<1>2. PICK p \in {"idle", "resultNotify", "panicNotify"} : pc' = [pc EXCEPT ![c] = p]
  BY DEF RequestResult, Transition
<1>3. Probes' = Probes /\ Normals' = Normals \ {c}
  <2>1. Probes' = Probes \ {c}
    BY <1>2, ProbesStep, Zenon DEF Places
  <2>2. Normals' = Normals \ {c}
    BY <1>2, NormalsStep, Zenon DEF Places
  <2> QED
    BY <1>1, <2>1, <2>2
<1>4. /\ halfOpenInFlight' = halfOpenInFlight
      /\ \/ state = "CLOSED" /\ state' = "OPEN" /\ sinceOpen' = 0
         \/ state' = state /\ sinceOpen' = sinceOpen
  BY DEF RequestResult, Transition
<1>5. OneProbe'
  BY <1>3, <1>4 DEF OneProbe
<1>6. ~(0 > ResetTimeout)
  BY EffectiveConfig
<1>7. Lifecycle!Complete(c)
  BY <1>1, <1>3, <1>4, <1>6 DEF Lifecycle!Complete
<1> QED
  BY <1>5, <1>7 DEF AbstractStep

\* Every step keeps OneProbe and is a step of the lifecycle.
LEMMA LifecycleStep ==
    ASSUME MaxHalfOpen = 1, CallbackPanics = FALSE
    PROVE  CoreTypeOK /\ AdmitInv /\ OneProbe /\ [CoreNext]_coreVars
               => OneProbe' /\ AbstractStep
<1> SUFFICES ASSUME CoreTypeOK, AdmitInv, OneProbe, [CoreNext]_coreVars
             PROVE  OneProbe' /\ AbstractStep
  OBVIOUS
<1>1. ASSUME NEW c \in Calls, CanExecute(c) PROVE OneProbe' /\ AbstractStep
  BY <1>1, CanExecuteStep
<1>2. ASSUME NEW c \in Calls, NEW err \in Errors, NEW trips \in BOOLEAN,
             RequestReturns(c, err, trips)
      PROVE  OneProbe' /\ AbstractStep
  <2>1. CASE isProbe[c]
    <3>1. DecrementHalfOpen /\ isProbe' = isProbe /\ pc[c] = "req"
      BY <1>2, <2>1 DEF RequestReturns, ProbeResult, ProbeFails
    <3>2. \E p \in {"idle", "resultNotify", "panicNotify"} : pc' = [pc EXCEPT ![c] = p]
      BY <1>2, <2>1 DEF RequestReturns, ProbeResult, ProbeFails, Transition
    <3>3. \/ state' = "CLOSED" /\ sinceOpen' = sinceOpen
          \/ state' = "OPEN" /\ sinceOpen' = 0
          \/ state' = state /\ sinceOpen' = sinceOpen
      BY <1>2, <2>1 DEF RequestReturns, ProbeResult, ProbeFails, Transition
    <3> QED
      BY <2>1, <3>1, <3>2, <3>3, ProbeStep, Zenon
  <2>2. CASE ~isProbe[c]
    BY <1>2, <2>2, RequestStep DEF RequestReturns
  <2> QED
    BY <2>1, <2>2
<1>3. ASSUME NEW c \in Calls, NEW trips \in BOOLEAN, RequestPanics(c, trips)
      PROVE  OneProbe' /\ AbstractStep
  <2>1. CASE isProbe[c]
    <3>1. DecrementHalfOpen /\ isProbe' = isProbe /\ pc[c] = "req"
      BY <1>3, <2>1 DEF RequestPanics, OnPanic, ProbeFails
    <3>2. \E p \in {"idle", "resultNotify", "panicNotify"} : pc' = [pc EXCEPT ![c] = p]
      BY <1>3, <2>1 DEF RequestPanics, OnPanic, ProbeFails, Transition
    <3>3. state' = "OPEN" /\ sinceOpen' = 0
      BY <1>3, <2>1 DEF RequestPanics, OnPanic, ProbeFails, Transition
    <3> QED
      BY <2>1, <3>1, <3>2, <3>3, ProbeStep, Zenon
  <2>2. CASE ~isProbe[c]
    BY <1>3, <2>2, RequestStep DEF RequestPanics, OnPanic
  <2> QED
    BY <2>1, <2>2
<1>4. ASSUME NEW c \in Calls, CallbackReturns(c) PROVE OneProbe' /\ AbstractStep
  <2>1. UNCHANGED cbVars
    BY <1>4 DEF CallbackReturns
  <2>2. Probes' = Probes
    BY <1>4 DEF CallbackReturns, Probes, CoreTypeOK
  <2>3. Normals' = Normals
    BY <1>4 DEF CallbackReturns, Normals, CoreTypeOK, AdmitInv
  <2>4. OneProbe'
    BY <2>1, <2>2 DEF OneProbe, cbVars
  <2>5. UNCHANGED Lifecycle!vars
    BY <2>1, <2>2, <2>3 DEF Lifecycle!vars, cbVars
  <2> QED
    BY <2>4, <2>5 DEF AbstractStep
<1>5. ASSUME Tick PROVE OneProbe' /\ AbstractStep
  <2>1. UNCHANGED <<state, halfOpenInFlight, Probes, Normals>>
    BY <1>5 DEF Tick, Probes, Normals
  <2>2. OneProbe'
    BY <2>1 DEF OneProbe
  <2>3. CASE sinceOpen > ResetTimeout
    <3>1. sinceOpen' = sinceOpen
      BY <1>5, <2>3 DEF Tick
    <3> QED
      BY <2>1, <2>2, <3>1 DEF AbstractStep, Lifecycle!vars
  <2>4. CASE ~(sinceOpen > ResetTimeout)
    <3>1. CASE (sinceOpen > ResetTimeout)'
      BY <2>1, <2>2, <3>1, Zenon DEF AbstractStep, Lifecycle!Cool
    <3>2. CASE ~(sinceOpen > ResetTimeout)'
      <4>1. (sinceOpen > ResetTimeout)' = (sinceOpen > ResetTimeout)
        BY <2>4, <3>2
      <4> QED
        BY <2>1, <2>2, <4>1, Zenon DEF AbstractStep, Lifecycle!vars
    <3> QED
      BY <3>1, <3>2
  <2> QED
    BY <2>3, <2>4
<1>6. ASSUME Recover \/ UNCHANGED coreVars PROVE OneProbe' /\ AbstractStep
  <2>1. UNCHANGED <<state, halfOpenInFlight, sinceOpen, Probes, Normals>>
    BY <1>6 DEF Recover, coreVars, cbVars, Probes, Normals
  <2> QED
    BY <2>1 DEF OneProbe, AbstractStep, Lifecycle!vars
<1> QED
  BY <1>1, <1>2, <1>3, <1>4, <1>5, <1>6
     DEF CoreNext, CoreStep, Panics, CallbackEnds, CallbackPanicCounted, CallbackPanicEscapes

\* With one probe at a time and callbacks that do not panic, every breaker built
\* on the core implements the lifecycle of its README, for any number of
\* concurrent callers: Open admits nothing before the reset timeout, one canary
\* decides, and stale requests decide nothing.
THEOREM CoreImplementsLifecycle ==
    ASSUME MaxHalfOpen = 1, CallbackPanics = FALSE
    PROVE  CoreSpec => ImplementsLifecycle
<1>1. CoreInit => OneProbe /\ AdmitInv /\ Lifecycle!Init
  <2> SUFFICES ASSUME CoreInit PROVE OneProbe /\ AdmitInv /\ Lifecycle!Init
    OBVIOUS
  <2>1. Probes = {} /\ Normals = {} /\ AdmitInv
    BY DEF CoreInit, Probes, Normals, AdmitInv
  <2>2. (sinceOpen > ResetTimeout) = TRUE
    BY EffectiveConfig DEF CoreInit
  <2> QED
    BY <2>1, <2>2 DEF CoreInit, OneProbe, Lifecycle!Init
<1>2. AbstractStep => [Lifecycle!Next]_(Lifecycle!vars)
  BY DEF AbstractStep, Lifecycle!Next
<1> QED
  BY <1>1, <1>2, LifecycleStep, NextAdmit, CoreTypeCorrect, PTL
     DEF CoreSpec, ImplementsLifecycle, Lifecycle!Spec

\* OneProbe holds in every state of a breaker with one slot.
LEMMA OneProbeAlways ==
    ASSUME MaxHalfOpen = 1, CallbackPanics = FALSE
    PROVE  CoreSpec => []OneProbe
<1>1. CoreInit => OneProbe /\ AdmitInv
  <2> SUFFICES ASSUME CoreInit PROVE OneProbe /\ AdmitInv
    OBVIOUS
  <2>1. Probes = {} /\ AdmitInv
    BY DEF CoreInit, Probes, AdmitInv
  <2> QED
    BY <2>1 DEF CoreInit, OneProbe
<1> QED
  BY <1>1, LifecycleStep, NextAdmit, CoreTypeCorrect, PTL DEF CoreSpec

\* The slots in use are as many as the probes in flight.
LEMMA OneProbeCounts ==
    ASSUME OneProbe
    PROVE  halfOpenInFlight = Cardinality(Probes) /\ Cardinality(Probes) <= 1
<1>1. CASE Probes = {}
  BY <1>1, FS_EmptySet DEF OneProbe
<1>2. CASE Probes # {}
  <2>1. PICK p \in Probes : Probes = {p}
    BY <1>2 DEF OneProbe
  <2>2. Cardinality(Probes) = 1
    BY <2>1, FS_Singleton, Zenon
  <2> QED
    BY <1>2, <2>2 DEF OneProbe
<1> QED
  BY <1>1, <1>2

\* Under the same conditions at most one canary probe is in flight at any time
\* (README "Herd Stampede Prevention").
THEOREM OneProbeInFlight ==
    ASSUME MaxHalfOpen = 1, CallbackPanics = FALSE
    PROVE  CoreSpec => []ProbesBounded
<1>1. OneProbe => ProbesBounded
  BY OneProbeCounts DEF ProbesBounded
<1> QED
  BY <1>1, OneProbeAlways, PTL

-----------------------------------------------------------------------------
(* The consecutive-failure breaker                                         *)

\* The breaker's steps are steps of the core, with its own tripping rule.
LEMMA ConsecutiveIsCore == Spec => CoreSpec
<1>1. Init => CoreInit
  BY DEF Init
<1>2. [Next]_vars => [CoreNext]_coreVars
  <2>1. \A r \in Errors \cup {"panic"} : Trips(r) \in BOOLEAN
    BY DEF Trips
  <2>2. ASSUME Next PROVE CoreNext
    BY <2>1, <2>2 DEF Next, Admit, InExecute, CoreNext, CoreStep
  <2> QED
    BY <2>2 DEF vars
<1> QED
  BY <1>1, <1>2, PTL DEF Spec, CoreSpec

\* The consecutive-failure breaker implements the lifecycle its README promises.
THEOREM ConsecutiveImplementsLifecycle ==
    ASSUME MaxHalfOpen = 1, CallbackPanics = FALSE
    PROVE  Spec => ImplementsLifecycle
BY ConsecutiveIsCore, CoreImplementsLifecycle, PTL

\* With the default of one probe slot, at most one canary probe of the
\* consecutive-failure breaker is in flight.
THEOREM ConsecutiveOneProbe ==
    ASSUME MaxHalfOpen = 1, CallbackPanics = FALSE
    PROVE  Spec => []ProbesBounded
BY ConsecutiveIsCore, OneProbeInFlight, PTL

\* The consecutive-failure breaker never freezes in HALF_OPEN, for any number of
\* probe slots.
THEOREM ConsecutiveNeverFreezes ==
    ASSUME CallbackPanics = FALSE
    PROVE  Spec => []NeverFrozen
BY ConsecutiveIsCore, BreakerNeverFreezes, PTL

-----------------------------------------------------------------------------
(* The counter                                                             *)

\* The count stays between 0 and the threshold, and below it while closed.
CountInv == failures \in 0..MaxFailures /\ ClosedBelowThreshold

\* The threshold after initDefaults is positive.
LEMMA EffectiveThreshold == MaxFailures \in Nat \ {0}
BY ConsecutiveAssumption DEF MaxFailures, Default

\* CountInv is inductive, with any number of probes and panicking callbacks.
LEMMA NextCount == CoreTypeOK /\ CountInv /\ [Next]_vars => CountInv'
<1> SUFFICES ASSUME CoreTypeOK, CountInv, [Next]_vars PROVE CountInv'
  OBVIOUS
<1> USE EffectiveThreshold DEF CountInv, ClosedBelowThreshold
<1>1. ASSUME NEW c \in Calls, Admit(c) PROVE CountInv'
  BY <1>1 DEF Admit, CanExecute, cbVars
<1>2. ASSUME NEW c \in Calls, isProbe[c], NEW result \in Errors \cup {"panic"},
             Tally(c, result), state' = "CLOSED" => state = "CLOSED" \/ result = "nil"
      PROVE  CountInv'
  BY <1>2 DEF Tally
<1>3. ASSUME NEW c \in Calls, ~isProbe[c], NEW result \in Errors \cup {"panic"},
             Tally(c, result), NEW next, RequestResult(c, Trips(result), next)
      PROVE  CountInv'
  BY <1>3 DEF Tally, Trips, RequestResult, Transition, Errors
<1>4. ASSUME NEW c \in Calls, NEW err \in Errors,
             RequestReturns(c, err, Trips(err)), Tally(c, err)
      PROVE  CountInv'
  <2>1. CASE isProbe[c]
    BY <1>2, <1>4, <2>1 DEF RequestReturns, ProbeResult, ProbeFails, Transition
  <2>2. CASE ~isProbe[c]
    BY <1>3, <1>4, <2>2 DEF RequestReturns
  <2> QED
    BY <2>1, <2>2
<1>5. ASSUME NEW c \in Calls, OnPanic(c, Trips("panic")), Tally(c, "panic")
      PROVE  CountInv'
  <2>1. CASE isProbe[c]
    BY <1>2, <1>5, <2>1 DEF OnPanic, ProbeFails, Transition
  <2>2. CASE ~isProbe[c]
    BY <1>3, <1>5, <2>2 DEF OnPanic
  <2> QED
    BY <2>1, <2>2
<1>6. ASSUME UNCHANGED <<state, failures>> PROVE CountInv'
  BY <1>6
<1>7. ASSUME NEW c \in Calls, InExecute(c) PROVE CountInv'
  BY <1>4, <1>5, <1>6, <1>7
     DEF InExecute, Panics, CallbackEnds, RequestPanics, CallbackPanicCounted, CallbackReturns,
         CallbackPanicEscapes, cbVars
<1> QED
  BY <1>1, <1>6, <1>7 DEF Next, Tick, Recover, vars, coreVars, cbVars

\* A closed circuit has seen fewer than maxFailures consecutive failures, for
\* any configuration, any number of callers and even if callbacks panic.
THEOREM ThresholdHolds == Spec => []ClosedBelowThreshold
<1>1. Init => CountInv
  BY EffectiveThreshold DEF Init, CoreInit, CountInv, ClosedBelowThreshold
<1>2. CountInv => ClosedBelowThreshold
  BY DEF CountInv
<1> QED
  BY <1>1, <1>2, NextCount, ConsecutiveIsCore, CoreTypeCorrect, PTL DEF Spec

\* The consecutive-failure breaker's types, with the bounds on both counters.
THEOREM ConsecutiveTypeCorrect == Spec => []TypeOK
<1>1. Init => CountInv
  BY EffectiveThreshold DEF Init, CoreInit, CountInv, ClosedBelowThreshold
<1>2. CoreTypeOK /\ CountInv => TypeOK
  BY DEF CountInv, TypeOK
<1> QED
  BY <1>1, <1>2, NextCount, ConsecutiveIsCore, CoreTypeCorrect, PTL DEF Spec

-----------------------------------------------------------------------------
(* The quote endpoint                                                      *)

\* What handleGetQuote and the HTTP client do to their shared breaker, nested in
\* each other, are steps of independent callers: every theorem about the breaker
\* holds of the endpoint (main.go:595-609, roundtripper.go:52-63).
THEOREM QuoteUsesBreaker == QuoteSpec => Spec
<1>1. QuoteInit => Init
  BY DEF QuoteInit
<1>2. ASSUME [QuoteNext]_quoteVars PROVE [Next]_vars
  <2> DEFINE CallStep(c) == Admit(c) \/ InExecute(c)
  <2>1. ASSUME NEW c \in Calls, CallStep(c) PROVE Next
    BY <2>1 DEF Next
  <2>2. ASSUME NEW r \in Requests PROVE Outer(r) \in Calls /\ Inner(r) \in Calls
    BY QuoteAssumption DEF QuoteCalls, Outer, Inner
  <2>3. ASSUME NEW c, NEW err \in Errors, RecordResult(c, err) PROVE CallStep(c)
    BY <2>3 DEF RecordResult, InExecute
  <2>4. ASSUME NEW c, Logged(c) PROVE CallStep(c)
    BY <2>4 DEF Logged, InExecute
  <2>5. {"nil", "error", "Canceled"} = Errors
    BY DEF Errors
  <2>6. ASSUME NEW r \in Requests, Arrive(r) \/ Attempt(r) PROVE [Next]_vars
    BY <2>1, <2>2, <2>6 DEF Arrive, Attempt
  <2>7. ASSUME NEW r \in Requests, Respond(r) PROVE [Next]_vars
    BY <2>1, <2>2, <2>3, <2>5, <2>7 DEF Respond
  <2>8. ASSUME NEW r \in Requests, Answer(r) PROVE [Next]_vars
    BY <2>1, <2>2, <2>3, <2>5, <2>8 DEF Answer
  <2>9. ASSUME NEW r \in Requests, Logged(Outer(r)) \/ Logged(Inner(r)) PROVE [Next]_vars
    BY <2>1, <2>2, <2>4, <2>9
  <2>10. ASSUME QuoteTick PROVE Next
    BY <2>10 DEF QuoteTick, Next
  <2>11. ASSUME QuoteRecover \/ UNCHANGED quoteVars PROVE UNCHANGED vars
    BY <2>11 DEF QuoteRecover, quoteVars
  <2> QED
    BY <1>2, <2>6, <2>7, <2>8, <2>9, <2>10, <2>11 DEF QuoteNext, Step
<1> QED
  BY <1>1, <1>2, PTL DEF QuoteSpec, Spec

\* NewApp leaves the breaker one slot and a callback that only logs.
LEMMA QuoteConfig == MaxHalfOpen = 1 /\ CallbackPanics = FALSE
BY QuoteAssumption DEF MaxHalfOpen, Default

\* For any number of requests and attempts, the breaker counts one slot in use for
\* each call of Execute that holds one, outer or inner: nested calls that fail, are
\* refused or are cancelled neither leak the slot nor free another request's.
THEOREM QuoteSlotsMatch == QuoteSpec => []SlotsMatch
<1>1. OneProbe => SlotsMatch
  BY OneProbeCounts DEF SlotsMatch
<1>2. CoreSpec => []OneProbe
  BY QuoteConfig, OneProbeAlways, Zenon
<1> QED
  BY <1>1, <1>2, QuoteUsesBreaker, ConsecutiveIsCore, PTL

\* Through nested calls, too, the breaker follows the lifecycle its README promises.
THEOREM QuoteImplementsLifecycle == QuoteSpec => ImplementsLifecycle
<1>1. Spec => ImplementsLifecycle
  BY QuoteConfig, ConsecutiveImplementsLifecycle, Zenon
<1> QED
  BY <1>1, QuoteUsesBreaker, PTL

-----------------------------------------------------------------------------
(* The failure-ratio breaker                                               *)

\* The breaker's steps are steps of the core, with its own tripping rule.
LEMMA RatioIsCore == RatioSpec => CoreSpec
<1>1. RatioInit => CoreInit
  BY DEF RatioInit
<1>2. [RatioNext]_ratioVars => [CoreNext]_coreVars
  <2>1. \A r \in Errors \cup {"panic"} : RatioTrips(r) \in BOOLEAN
    BY Zenon DEF RatioTrips
  <2>2. ASSUME RatioNext PROVE CoreNext
    BY <2>1, <2>2, Zenon DEF RatioNext, RatioAdmit, RatioInExecute, Age, CoreNext, CoreStep
  <2> QED
    BY <2>2 DEF ratioVars
<1> QED
  BY <1>1, <1>2, PTL DEF RatioSpec, CoreSpec

\* The failure-ratio breaker implements the lifecycle its README promises.
THEOREM RatioImplementsLifecycle ==
    ASSUME MaxHalfOpen = 1, CallbackPanics = FALSE
    PROVE  RatioSpec => ImplementsLifecycle
BY RatioIsCore, CoreImplementsLifecycle, PTL

-----------------------------------------------------------------------------
(* The records                                                             *)

Record == [age : Nat, failed : BOOLEAN]

\* The indices of the failed records.
FailedAt(rs) == {i \in DOMAIN rs : rs[i].failed}

\* They are finitely many.
LEMMA FailedFinite ==
    ASSUME NEW rs \in Seq(Record)
    PROVE  /\ IsFiniteSet(FailedAt(rs))
           /\ FailedIn(rs) = Cardinality(FailedAt(rs))
           /\ FailedIn(rs) \in Nat
<1>1. IsFiniteSet(1 .. Len(rs))
  BY FS_Interval
<1>2. FailedAt(rs) \in SUBSET (1 .. Len(rs))
  BY DEF FailedAt
<1>3. IsFiniteSet(FailedAt(rs))
  BY <1>1, <1>2, FS_Subset
<1>4. FailedIn(rs) = Cardinality(FailedAt(rs))
  BY DEF FailedIn, FailedAt
<1> QED
  BY <1>3, <1>4, FS_CardinalityType

\* A record that is appended.
LEMMA FailedAppend ==
    ASSUME NEW rs \in Seq(Record), NEW r \in Record
    PROVE  FailedIn(Append(rs, r)) = FailedIn(rs) + (IF r.failed THEN 1 ELSE 0)
<1> DEFINE n == Len(rs) + 1
<1>1. Append(rs, r) \in Seq(Record) /\ n \notin FailedAt(rs) /\ r.failed \in BOOLEAN
  BY DEF FailedAt, Record
<1>2. CASE r.failed
  <2>1. FailedAt(Append(rs, r)) = FailedAt(rs) \cup {n}
    BY <1>2 DEF FailedAt
  <2>2. Cardinality(FailedAt(rs) \cup {n}) = Cardinality(FailedAt(rs)) + 1
    BY <1>1, FailedFinite, FS_AddElement, Zenon
  <2>3. FailedIn(Append(rs, r)) = FailedIn(rs) + 1
    BY <1>1, <2>1, <2>2, FailedFinite, Zenon
  <2> QED
    BY <1>2, <2>3
<1>3. CASE ~r.failed
  <2>1. FailedAt(Append(rs, r)) = FailedAt(rs)
    BY <1>3 DEF FailedAt
  <2>2. FailedIn(Append(rs, r)) = FailedIn(rs) /\ FailedIn(rs) \in Nat
    BY <1>1, <2>1, FailedFinite, Zenon
  <2> QED
    BY <1>3, <2>2
<1> QED
  BY <1>2, <1>3

\* Records that are cut in two.
LEMMA FailedSplit ==
    ASSUME NEW rs \in Seq(Record), NEW k \in 1 .. Len(rs) + 1
    PROVE  FailedIn(SubSeq(rs, 1, k - 1)) + FailedIn(SubSeq(rs, k, Len(rs))) = FailedIn(rs)
<1> DEFINE head == SubSeq(rs, 1, k - 1)
           tail == SubSeq(rs, k, Len(rs))
           kept == {i \in k .. Len(rs) : rs[i].failed}
           f == [i \in FailedAt(tail) |-> i + k - 1]
<1>1. /\ head \in Seq(Record) /\ Len(head) = k - 1
      /\ tail \in Seq(Record) /\ Len(tail) = Len(rs) - k + 1
      /\ \A i \in 1 .. Len(head) : head[i] = rs[i]
      /\ \A i \in 1 .. Len(tail) : tail[i] = rs[i + k - 1]
  OBVIOUS
<1>2. FailedAt(rs) = FailedAt(head) \cup kept /\ FailedAt(head) \cap kept = {}
  BY <1>1 DEF FailedAt
<1>3. f \in Bijection(FailedAt(tail), kept)
  <2>1. \A i \in FailedAt(tail) : i \in 1 .. Len(tail) /\ f[i] \in kept
    BY <1>1 DEF FailedAt
  <2>2. \A j \in kept : j - k + 1 \in FailedAt(tail) /\ f[j - k + 1] = j
    BY <1>1 DEF FailedAt
  <2>3. \A i, j \in FailedAt(tail) : f[i] = f[j] => i = j
    BY <2>1
  <2> HIDE DEF f
  <2>4. f \in [FailedAt(tail) -> kept]
    BY <2>1 DEF f
  <2> QED
    BY <2>2, <2>3, <2>4, Zenon DEF Bijection, Injection, Surjection, IsInjective
<1>4. Cardinality(kept) = Cardinality(FailedAt(tail)) /\ IsFiniteSet(kept)
  <2>1. IsFiniteSet(FailedAt(tail))
    BY <1>1, FailedFinite, Zenon
  <2>2. ExistsBijection(FailedAt(tail), kept)
    BY <1>3, Zenon DEF ExistsBijection
  <2> HIDE DEF kept, tail
  <2> QED
    BY <2>1, <2>2, FS_Bijection
<1>5. Cardinality(FailedAt(head) \cup kept) = Cardinality(FailedAt(head)) + Cardinality(kept)
  <2>0. IsFiniteSet(FailedAt(head))
    BY <1>1, FailedFinite, Zenon
  <2> HIDE DEF head, kept
  <2>1. Cardinality(FailedAt(head) \cup kept)
          = Cardinality(FailedAt(head)) + Cardinality(kept) - Cardinality(FailedAt(head) \cap kept)
    BY <1>4, <2>0, FS_Union
  <2>2. Cardinality(FailedAt(head)) \in Nat /\ Cardinality(kept) \in Nat
    BY <1>4, <2>0, FS_CardinalityType
  <2>3. Cardinality(FailedAt(head) \cap kept) = 0
    BY <1>2, FS_EmptySet, Zenon
  <2> QED
    BY <2>1, <2>2, <2>3
<1> QED
  BY <1>1, <1>2, <1>4, <1>5, FailedFinite, Zenon

\* A set of natural numbers that is not empty has a least element.
LEMMA LeastElement ==
    ASSUME NEW T \in SUBSET Nat, T # {}
    PROVE  \E x \in T : \A y \in T : x <= y
<1> DEFINE less == OpToRel(<, Nat)
<1>0. IsWellFoundedOn(less, Nat) /\ less = {p \in Nat \X Nat : p[1] < p[2]}
  BY NatLessThanWellFounded DEF OpToRel
<1> HIDE DEF less
<1>1. PICK x \in T : \A y \in T : ~(<<y, x>> \in less)
  BY <1>0, WFMin, Zenon
<1>2. \A y \in T : ~(y < x)
  BY <1>0, <1>1, Zenon
<1> QED
  BY <1>1, <1>2

\* Pruning cuts off a prefix.
LEMMA PruningSplits ==
    ASSUME NEW rs \in Seq(Record)
    PROVE  FirstValid(rs) \in 1 .. Len(rs) + 1
<1> DEFINE T == {i \in DOMAIN rs : InWindow(rs[i])}
<1>1. CASE T = {}
  BY <1>1 DEF FirstValid
<1>2. CASE T # {}
  <2>1. T \in SUBSET Nat
    OBVIOUS
  <2>2. PICK x \in T : \A y \in T : x <= y
    BY <1>2, <2>1, LeastElement, Zenon
  <2>3. InWindow(rs[x]) /\ \A j \in 1 .. (x - 1) : ~InWindow(rs[j])
    BY <2>2
  <2>4. FirstValid(rs) \in DOMAIN rs
    BY <1>2, <2>3 DEF FirstValid
  <2> QED
    BY <2>4
<1> QED
  BY <1>1, <1>2

\* What a recorded result makes of the records and of the count.
LEMMA NewTally ==
    ASSUME NEW failed \in BOOLEAN, records \in Seq(Record), failureCount = FailedIn(records)
    PROVE  /\ NewRecords(failed) \in Seq(Record)
           /\ NewCount(failed) = FailedIn(NewRecords(failed))
<1> DEFINE r == [age |-> 0, failed |-> failed]
           rs == Append(records, r)
           k == FirstValid(rs)
<1>1. r \in Record /\ r.failed = failed
  BY Zenon DEF Record
<1> HIDE DEF r
<1>2. rs \in Seq(Record)
  BY <1>1
<1>3. FailedIn(rs) = failureCount + (IF failed THEN 1 ELSE 0)
  BY <1>1, FailedAppend
<1> HIDE DEF rs
<1>4. k \in 1 .. Len(rs) + 1
  BY <1>2, PruningSplits
<1>5. FailedIn(SubSeq(rs, 1, k - 1)) + FailedIn(SubSeq(rs, k, Len(rs))) = FailedIn(rs)
  BY <1>2, <1>4, FailedSplit
<1>6. SubSeq(rs, 1, k - 1) \in Seq(Record) /\ SubSeq(rs, k, Len(rs)) \in Seq(Record)
  BY <1>2, <1>4
<1>7. FailedIn(SubSeq(rs, 1, k - 1)) \in Nat /\ FailedIn(SubSeq(rs, k, Len(rs))) \in Nat
  BY <1>6, FailedFinite, Zenon
<1>8. Appended(failed) = rs
  BY DEF Appended, rs, r
<1>9. NewRecords(failed) = SubSeq(rs, k, Len(rs))
  BY <1>8 DEF NewRecords, Pruned
<1>10. NewCount(failed) = FailedIn(rs) - FailedIn(SubSeq(rs, 1, k - 1))
  <2>1. PrunedFailures(rs) = FailedIn(SubSeq(rs, 1, k - 1))
    BY DEF PrunedFailures
  <2> DEFINE one == IF failed THEN 1 ELSE 0
  <2>2. NewCount(failed) = failureCount + (one - PrunedFailures(Appended(failed)))
    BY Zenon DEF NewCount
  <2>3. one \in Nat /\ failureCount \in Nat
    BY FailedFinite
  <2>4. FailedIn(rs) = failureCount + one
    BY <1>3
  <2> HIDE DEF one
  <2> QED
    BY <1>7, <1>8, <2>1, <2>2, <2>3, <2>4
<1> QED
  BY <1>5, <1>6, <1>7, <1>9, <1>10

-----------------------------------------------------------------------------
(* The count, and the ratio                                                *)

\* The count is right, and a closed circuit is below the ratio.
TallyInv ==
    /\ records \in Seq(Record)
    /\ CountMatchesRecords
    /\ ClosedBelowRatio

\* No records reach no ratio.
LEMMA EmptyRecords == FailedIn(<<>>) = 0 /\ ~ReachesRatio(FailedIn(<<>>), Len(<<>>))
<1>1. <<>> \in Seq(Record) /\ FailedAt(<<>>) = {}
  BY DEF FailedAt
<1>2. FailedIn(<<>>) = 0
  BY <1>1, FailedFinite, FS_EmptySet, Zenon
<1>3. MinRequests \in Nat \ {0} /\ Len(<<>>) = 0
  BY RatioAssumption DEF MinRequests, Default
<1>4. ~(Len(<<>>) >= MinRequests)
  BY <1>3
<1> QED
  BY <1>2, <1>4, Zenon DEF ReachesRatio

\* Records that grow older stay failed or not.
LEMMA AgedRecords ==
    ASSUME records \in Seq(Record), Age
    PROVE  /\ records' \in Seq(Record)
           /\ FailedIn(records') = FailedIn(records)
           /\ Len(records') = Len(records)
<1>1. ASSUME NEW i \in DOMAIN records
      PROVE  /\ records'[i] \in Record
             /\ records'[i].failed = records[i].failed
  <2>0. records[i] \in Record
    OBVIOUS
  <2>1. records[i] \in Record /\ records[i].age \in Nat
    BY <2>0 DEF Record
  <2>2. records'[i] = IF InWindow(records[i])
                      THEN [records[i] EXCEPT !.age = @ + 1] ELSE records[i]
    BY DEF Age
  <2>3. [records[i] EXCEPT !.age = @ + 1] = [age |-> records[i].age + 1, failed |-> records[i].failed]
    BY <2>1 DEF Record
  <2> QED
    BY <2>1, <2>2, <2>3 DEF Record
<1>2. DOMAIN records' = 1 .. Len(records) /\ DOMAIN records = 1 .. Len(records)
  BY DEF Age
<1>3. records' \in Seq(Record) /\ Len(records') = Len(records)
  <2>1. records' = [i \in 1 .. Len(records) |-> records'[i]]
    BY <1>2 DEF Age
  <2> QED
    BY <1>1, <1>2, <2>1
<1>4. FailedAt(records') = FailedAt(records)
  BY <1>1, <1>2 DEF FailedAt
<1> QED
  BY <1>3, <1>4, FailedFinite

\* TallyInv is inductive, with any number of probes and panicking callbacks.
LEMMA NextTally == CoreTypeOK /\ TallyInv /\ [RatioNext]_ratioVars => TallyInv'
<1> SUFFICES ASSUME CoreTypeOK, TallyInv, [RatioNext]_ratioVars PROVE TallyInv'
  OBVIOUS
<1>i. /\ records \in Seq(Record)
      /\ failureCount = FailedIn(records)
      /\ state = "CLOSED" => ~ReachesRatio(FailedIn(records), Len(records))
  BY DEF TallyInv, CountMatchesRecords, ClosedBelowRatio
<1>6. ASSUME UNCHANGED tally, state' = "CLOSED" => state = "CLOSED" PROVE TallyInv'
  BY <1>i, <1>6 DEF TallyInv, CountMatchesRecords, ClosedBelowRatio, tally
<1>1. ASSUME NEW c \in Calls, RatioAdmit(c) PROVE TallyInv'
  BY <1>1, <1>6 DEF RatioAdmit, CanExecute, cbVars
<1>2. ASSUME NEW c \in Calls, isProbe[c], NEW result \in Errors \cup {"panic"},
             RatioTally(c, result), state' = "CLOSED" => state = "CLOSED" \/ result = "nil"
      PROVE  TallyInv'
  <2>1. CASE result = "nil"
    <3>1. records' = <<>> /\ failureCount' = 0
      BY <1>2, <2>1 DEF RatioTally
    <3> QED
      BY <3>1, EmptyRecords DEF TallyInv, CountMatchesRecords, ClosedBelowRatio
  <2>2. CASE result # "nil"
    BY <1>2, <1>6, <2>2 DEF RatioTally
  <2> QED
    BY <2>1, <2>2
<1>3. ASSUME NEW c \in Calls, ~isProbe[c], NEW result \in Errors \cup {"panic"},
             RatioTally(c, result), NEW next, RequestResult(c, RatioTrips(result), next)
      PROVE  TallyInv'
  <2>1. CASE state = "CLOSED" /\ result # "Canceled"
    <3> DEFINE failed == result # "nil"
    <3>1. records' = NewRecords(failed) /\ failureCount' = NewCount(failed)
      BY <1>3, <2>1 DEF RatioTally
    <3>2. failed \in BOOLEAN
      BY Zenon
    <3>3. NewRecords(failed) \in Seq(Record) /\ NewCount(failed) = FailedIn(NewRecords(failed))
      BY <1>i, <3>2, NewTally, Zenon
    <3>4. RatioTrips(result) <=> ReachesRatio(NewCount(failed), Len(NewRecords(failed)))
      BY <2>1 DEF RatioTrips
    <3>5. state' = "CLOSED" => ~RatioTrips(result)
      BY <1>3, <2>1 DEF RequestResult, Transition
    <3> HIDE DEF failed
    <3> QED
      BY <3>1, <3>3, <3>4, <3>5 DEF TallyInv, CountMatchesRecords, ClosedBelowRatio
  <2>2. CASE ~(state = "CLOSED" /\ result # "Canceled")
    <3>1. UNCHANGED tally
      BY <1>3, <2>2 DEF RatioTally
    <3>2. state' = "CLOSED" => state = "CLOSED"
      BY <1>3, <2>2 DEF RequestResult, Transition
    <3> QED
      BY <1>6, <3>1, <3>2
  <2> QED
    BY <2>1, <2>2
<1>4. ASSUME NEW c \in Calls, NEW err \in Errors,
             RequestReturns(c, err, RatioTrips(err)), RatioTally(c, err)
      PROVE  TallyInv'
  <2>1. CASE isProbe[c]
    BY <1>2, <1>4, <2>1 DEF RequestReturns, ProbeResult, ProbeFails, Transition
  <2>2. CASE ~isProbe[c]
    BY <1>3, <1>4, <2>2 DEF RequestReturns
  <2> QED
    BY <2>1, <2>2
<1>5. ASSUME NEW c \in Calls, OnPanic(c, RatioTrips("panic")), RatioTally(c, "panic")
      PROVE  TallyInv'
  <2>1. CASE isProbe[c]
    BY <1>2, <1>5, <2>1 DEF OnPanic, ProbeFails, Transition
  <2>2. CASE ~isProbe[c]
    BY <1>3, <1>5, <2>2 DEF OnPanic
  <2> QED
    BY <2>1, <2>2
<1>7. ASSUME NEW c \in Calls, RatioInExecute(c) PROVE TallyInv'
  BY <1>4, <1>5, <1>6, <1>7
     DEF RatioInExecute, Panics, CallbackEnds, RequestPanics, CallbackPanicCounted, CallbackReturns,
         CallbackPanicEscapes, cbVars
<1>8. ASSUME Age PROVE TallyInv'
  <2>1. failureCount' = failureCount /\ state' = state
    BY <1>8 DEF Age, Tick
  <2> QED
    BY <1>i, <1>8, <2>1, AgedRecords DEF TallyInv, CountMatchesRecords, ClosedBelowRatio
<1> QED
  BY <1>1, <1>6, <1>7, <1>8 DEF RatioNext, Recover, ratioVars, coreVars, cbVars

\* The running failureCount is the number of failed records, for any ratio, window and
\* number of callers, and even if callbacks panic.
THEOREM CountIsExact == RatioSpec => []CountMatchesRecords
<1>1. RatioInit => TallyInv
  BY EmptyRecords DEF RatioInit, TallyInv, CountMatchesRecords, ClosedBelowRatio
<1>2. TallyInv => CountMatchesRecords
  BY DEF TallyInv
<1> QED
  BY <1>1, <1>2, NextTally, RatioIsCore, CoreTypeCorrect, PTL DEF RatioSpec

\* A closed circuit never sits on a failure rate that should have tripped it, for any
\* ratio, window and number of callers, and even if callbacks panic.
THEOREM RatioHolds == RatioSpec => []ClosedBelowRatio
<1>1. RatioInit => TallyInv
  BY EmptyRecords DEF RatioInit, TallyInv, CountMatchesRecords, ClosedBelowRatio
<1>2. TallyInv => ClosedBelowRatio
  BY DEF TallyInv
<1> QED
  BY <1>1, <1>2, NextTally, RatioIsCore, CoreTypeCorrect, PTL DEF RatioSpec

-----------------------------------------------------------------------------
(* The window                                                              *)

\* Records are kept in the order of time.
InOrder(rs) == \A i, j \in 1 .. Len(rs) : i <= j => rs[j].age <= rs[i].age

\* Of records in the order of time, pruning leaves the ones in the window.
LEMMA PrunedInWindow ==
    ASSUME NEW rs \in Seq(Record), InOrder(rs)
    PROVE  /\ InOrder(Pruned(rs))
           /\ \A i \in 1 .. Len(Pruned(rs)) : InWindow(Pruned(rs)[i])
<1> DEFINE k == FirstValid(rs)
           ps == SubSeq(rs, k, Len(rs))
<1>0. k \in 1 .. Len(rs) + 1
  BY PruningSplits
<1>1. k \in DOMAIN rs => InWindow(rs[k])
  <2> DEFINE T == {i \in DOMAIN rs : InWindow(rs[i])}
  <2>1. CASE T = {}
    BY <2>1 DEF FirstValid
  <2>2. CASE T # {}
    <3>1. T \in SUBSET Nat
      OBVIOUS
    <3>2. PICK x \in T : \A y \in T : x <= y
      BY <2>2, <3>1, LeastElement, Zenon
    <3>3. InWindow(rs[x]) /\ \A j \in 1 .. (x - 1) : ~InWindow(rs[j])
      BY <3>2
    <3> QED
      BY <2>2, <3>3 DEF FirstValid
  <2> QED
    BY <2>1, <2>2
<1> HIDE DEF k
<1>2. /\ Len(ps) = Len(rs) - k + 1
      /\ \A i \in 1 .. Len(ps) : ps[i] = rs[i + k - 1] /\ i + k - 1 \in 1 .. Len(rs)
  BY <1>0
<1>3. Pruned(rs) = ps
  BY DEF Pruned, k
<1> HIDE DEF ps
<1>4. \A i \in 1 .. Len(rs) : rs[i].age \in Nat
  <2>1. \A i \in 1 .. Len(rs) : rs[i] \in Record
    OBVIOUS
  <2> QED
    BY <2>1 DEF Record
<1>5. Window \in Nat
  BY RatioAssumption DEF Window, Default
<1>6. ASSUME NEW i \in 1 .. Len(ps) PROVE InWindow(ps[i])
  <2>1. k \in 1 .. Len(rs) /\ i + k - 1 \in 1 .. Len(rs) /\ k <= i + k - 1
    BY <1>0, <1>2
  <2>2. rs[k].age <= Window /\ rs[i + k - 1].age <= rs[k].age
    BY <1>1, <2>1 DEF InOrder, InWindow
  <2>3. ps[i] = rs[i + k - 1] /\ rs[i + k - 1].age \in Nat /\ rs[k].age \in Nat
    BY <1>2, <1>4, <2>1
  <2>4. rs[i + k - 1].age <= Window
    BY <1>5, <2>2, <2>3
  <2> QED
    BY <2>3, <2>4 DEF InWindow
<1>7. ASSUME NEW i \in 1 .. Len(ps), NEW j \in 1 .. Len(ps), i <= j PROVE ps[j].age <= ps[i].age
  <2>1. i + k - 1 <= j + k - 1
    BY <1>0, <1>7
  <2> QED
    BY <1>2, <2>1 DEF InOrder
<1> QED
  BY <1>3, <1>6, <1>7 DEF InOrder

\* The same of the records that a result leaves.
LEMMA NewInWindow ==
    ASSUME NEW failed \in BOOLEAN, records \in Seq(Record), InOrder(records)
    PROVE  /\ InOrder(NewRecords(failed))
           /\ \A i \in 1 .. Len(NewRecords(failed)) : InWindow(NewRecords(failed)[i])
<1> DEFINE r == [age |-> 0, failed |-> failed]
           rs == Append(records, r)
<1>1. r \in Record /\ r.age = 0
  BY Zenon DEF Record
<1> HIDE DEF r
<1>2. /\ rs \in Seq(Record) /\ Len(rs) = Len(records) + 1 /\ rs[Len(records) + 1] = r
      /\ \A i \in 1 .. Len(records) : rs[i] = records[i]
  BY <1>1
<1>3. \A i \in 1 .. Len(rs) : rs[i].age \in Nat
  <2>1. \A i \in 1 .. Len(rs) : rs[i] \in Record
    BY <1>2
  <2> QED
    BY <2>1 DEF Record
<1> HIDE DEF rs
<1>4. InOrder(rs)
  <2> SUFFICES ASSUME NEW i \in 1 .. Len(rs), NEW j \in 1 .. Len(rs), i <= j
               PROVE  rs[j].age <= rs[i].age
    BY DEF InOrder
  <2>1. CASE j = Len(records) + 1
    BY <1>1, <1>2, <1>3, <2>1
  <2>2. CASE j # Len(records) + 1
    <3>1. i \in 1 .. Len(records) /\ j \in 1 .. Len(records)
      BY <1>2, <2>2
    <3> QED
      BY <1>2, <3>1 DEF InOrder
  <2> QED
    BY <2>1, <2>2
<1>5. NewRecords(failed) = Pruned(rs)
  BY DEF NewRecords, Appended, rs, r
<1> QED
  BY <1>2, <1>4, <1>5, PrunedInWindow

\* Records grow older together.
LEMMA AgedInOrder ==
    ASSUME records \in Seq(Record), InOrder(records), Age
    PROVE  InOrder(records')
<1>0. Window \in Nat
  BY RatioAssumption DEF Window, Default
<1>1. DOMAIN records = 1 .. Len(records) /\ Len(records') = Len(records)
  BY AgedRecords
<1>2. ASSUME NEW i \in 1 .. Len(records)
      PROVE  /\ records[i].age \in Nat
             /\ records'[i].age = IF records[i].age <= Window THEN records[i].age + 1 ELSE records[i].age
  <2>1. records[i] \in Record
    OBVIOUS
  <2>2. records'[i] = IF InWindow(records[i])
                      THEN [records[i] EXCEPT !.age = @ + 1] ELSE records[i]
    BY <1>1 DEF Age
  <2> QED
    BY <2>1, <2>2 DEF Record, InWindow
<1> SUFFICES ASSUME NEW i \in 1 .. Len(records), NEW j \in 1 .. Len(records), i <= j
             PROVE  records'[j].age <= records'[i].age
  BY <1>1 DEF InOrder
<1>3. records[j].age <= records[i].age
  BY DEF InOrder
<1> QED
  BY <1>0, <1>2, <1>3

\* The records, and how many failed, of a sequence that is all in the window.
LEMMA AllRecent ==
    ASSUME NEW rs \in Seq(Record), \A i \in 1 .. Len(rs) : InWindow(rs[i])
    PROVE  LET recent == {i \in DOMAIN rs : InWindow(rs[i])}
           IN  /\ Cardinality(recent) = Len(rs)
               /\ Cardinality({i \in recent : rs[i].failed}) = FailedIn(rs)
<1> DEFINE recent == {i \in DOMAIN rs : InWindow(rs[i])}
<1>1. recent = 1 .. Len(rs) /\ DOMAIN rs = 1 .. Len(rs)
  OBVIOUS
<1>2. Cardinality(1 .. Len(rs)) = Len(rs)
  <2>1. Cardinality(1 .. Len(rs)) = IF 1 > Len(rs) THEN 0 ELSE Len(rs) - 1 + 1
    BY FS_Interval
  <2> QED
    BY <2>1
<1>3. {i \in recent : rs[i].failed} = {i \in DOMAIN rs : rs[i].failed}
  BY <1>1
<1> QED
  BY <1>1, <1>2, <1>3, Zenon DEF FailedIn

\* What a step does to the records: they stay, or grow older, or are dropped, or one is
\* recorded in a closed circuit.
LEMMA RecordsStep ==
    ASSUME [RatioNext]_ratioVars
    PROVE  \/ records' = records \/ records' = <<>> \/ Age
           \/ \E failed \in BOOLEAN : records' = NewRecords(failed)
<1>1. ASSUME NEW c \in Calls, NEW result, RatioTally(c, result)
      PROVE  \/ records' = records \/ records' = <<>>
             \/ \E failed \in BOOLEAN : records' = NewRecords(failed)
  <2>1. (result # "nil") \in BOOLEAN
    BY Zenon
  <2> QED
    BY <1>1, <2>1, Zenon DEF RatioTally, tally
<1> QED
  BY <1>1 DEF RatioNext, RatioAdmit, RatioInExecute, ratioVars, tally

\* The records stay in the order of time.
LEMMA NextInOrder == TallyInv /\ InOrder(records) /\ [RatioNext]_ratioVars => InOrder(records)'
<1> SUFFICES ASSUME TallyInv, InOrder(records), [RatioNext]_ratioVars PROVE InOrder(records')
  BY DEF InOrder
<1>0. records \in Seq(Record)
  BY DEF TallyInv
<1>1. InOrder(<<>>)
  BY DEF InOrder
<1> QED
  BY <1>0, <1>1, RecordsStep, AgedInOrder, NewInWindow

\* Only the caller that moves trips a closed circuit, and an ordinary one by the ratio.
LEMMA TrippingStep ==
    ASSUME CoreTypeOK, [RatioNext]_ratioVars, state = "CLOSED", state' = "OPEN",
           NEW c \in Calls, ~isProbe[c], pc'[c] # pc[c]
    PROVE  \E failed \in BOOLEAN :
             /\ records' = NewRecords(failed)
             /\ ReachesRatio(NewCount(failed), Len(NewRecords(failed)))
<1>1. ASSUME NEW result \in Errors \cup {"panic"}, RatioTally(c, result),
             NEW next, RequestResult(c, RatioTrips(result), next)
      PROVE  \E failed \in BOOLEAN :
               /\ records' = NewRecords(failed)
               /\ ReachesRatio(NewCount(failed), Len(NewRecords(failed)))
  <2> DEFINE failed == result # "nil"
  <2>1. RatioTrips(result)
    BY <1>1 DEF RequestResult
  <2>2. result # "Canceled" /\ ReachesRatio(NewCount(failed), Len(NewRecords(failed)))
    BY <2>1 DEF RatioTrips
  <2>3. records' = NewRecords(failed)
    BY <1>1, <2>2, Zenon DEF RatioTally
  <2>4. failed \in BOOLEAN
    BY Zenon
  <2> QED
    BY <2>2, <2>3, <2>4, Zenon
<1>2. ASSUME NEW d \in Calls, NEW place, pc' = [pc EXCEPT ![d] = place] PROVE d = c
  BY <1>2 DEF CoreTypeOK
<1>3. ASSUME NEW d \in Calls, NEW err \in Errors, RequestReturns(d, err, RatioTrips(err)), RatioTally(d, err)
      PROVE  d = c /\ RequestResult(c, RatioTrips(err), "resultNotify")
  <2>1. \E place : pc' = [pc EXCEPT ![d] = place]
    BY <1>3, Zenon DEF RequestReturns, ProbeResult, ProbeFails, Transition, RequestResult
  <2> QED
    BY <1>2, <1>3, <2>1 DEF RequestReturns
<1>4. ASSUME NEW d \in Calls, OnPanic(d, RatioTrips("panic")), RatioTally(d, "panic")
      PROVE  d = c /\ RequestResult(c, RatioTrips("panic"), "panicNotify")
  <2>1. \E place : pc' = [pc EXCEPT ![d] = place]
    BY <1>4, Zenon DEF OnPanic, ProbeFails, Transition, RequestResult
  <2> QED
    BY <1>2, <1>4, <2>1 DEF OnPanic
<1>5. \E d \in Calls : \/ \E err \in Errors : RequestReturns(d, err, RatioTrips(err)) /\ RatioTally(d, err)
                       \/ OnPanic(d, RatioTrips("panic")) /\ RatioTally(d, "panic")
  BY DEF RatioNext, RatioAdmit, CanExecute, RatioInExecute, Panics, CallbackEnds, RequestPanics, CallbackPanicCounted,
         CallbackReturns, CallbackPanicEscapes, Age, Tick, Recover, ratioVars, coreVars, cbVars
<1> QED
  BY <1>1, <1>3, <1>4, <1>5

\* A circuit that an ordinary request trips does so on the results of the window and on
\* nothing older, for any ratio, window and number of callers, however late results come.
THEOREM TripsOnWindow == RatioSpec => TripsOnWindowOnly
<1> DEFINE Inv == CoreTypeOK /\ TallyInv /\ InOrder(records)
           Trip == (\E c \in Calls : ~isProbe[c] /\ pc'[c] # pc[c]) /\ state = "CLOSED" /\ state' = "OPEN" =>
                     LET recent == {i \in DOMAIN records' : InWindow(records'[i])}
                     IN  ReachesRatio(Cardinality({i \in recent : records'[i].failed}), Cardinality(recent))
<1>1. RatioInit => TallyInv /\ InOrder(records)
  <2>1. RatioInit => TallyInv
    BY EmptyRecords DEF RatioInit, TallyInv, CountMatchesRecords, ClosedBelowRatio
  <2>2. RatioInit => InOrder(records)
    BY DEF RatioInit, InOrder
  <2> QED
    BY <2>1, <2>2
<1>2. Inv /\ [RatioNext]_ratioVars => [Trip]_ratioVars
  <2> SUFFICES ASSUME Inv, [RatioNext]_ratioVars,
                      NEW c \in Calls, ~isProbe[c], pc'[c] # pc[c], state = "CLOSED", state' = "OPEN"
               PROVE  LET recent == {i \in DOMAIN records' : InWindow(records'[i])}
                      IN  ReachesRatio(Cardinality({i \in recent : records'[i].failed}), Cardinality(recent))
    OBVIOUS
  <2>1. PICK failed \in BOOLEAN :
             /\ records' = NewRecords(failed)
             /\ ReachesRatio(NewCount(failed), Len(NewRecords(failed)))
    BY TrippingStep
  <2>2. records \in Seq(Record) /\ failureCount = FailedIn(records)
    BY DEF TallyInv, CountMatchesRecords
  <2>3. records' \in Seq(Record) /\ NewCount(failed) = FailedIn(records')
    BY <2>1, <2>2, NewTally
  <2>4. \A i \in 1 .. Len(records') : InWindow(records'[i])
    BY <2>1, <2>2, NewInWindow
  <2>5. LET recent == {i \in DOMAIN records' : InWindow(records'[i])}
        IN  /\ Cardinality(recent) = Len(records')
            /\ Cardinality({i \in recent : records'[i].failed}) = FailedIn(records')
    BY <2>3, <2>4, AllRecent, Zenon
  <2>6. ReachesRatio(FailedIn(records'), Len(records'))
    BY <2>1, <2>3
  <2> QED
    BY <2>5, <2>6
<1> QED
  BY <1>1, <1>2, NextTally, NextInOrder, RatioIsCore, CoreTypeCorrect, PTL DEF RatioSpec, TripsOnWindowOnly

=============================================================================

----------------------------- MODULE WorkerCycle -----------------------------
(***************************************************************************)
(* The one worker of the supervisor and its monitor.  A cycle recovers     *)
(* expired attempts, resumes results that were left between two steps,     *)
(* handles events, leases a batch of attempts and awaits them, drains      *)
(* effects and resumes the attempts whose effects are settled, each up to  *)
(* a limit.  Some passes swallow what is thrown, two do not: there the     *)
(* cycle ends and the next one starts over.                                *)
(*                                                                         *)
(* Work is a run that goes through the queues: its event, its attempt, its *)
(* effect, its continuation.  In some queue it may be poisoned: handling   *)
(* it there throws every time.  Time is counted in cycles: a lease that is *)
(* never given back runs out after a number of them.                       *)
(***************************************************************************)
EXTENDS Naturals, Sequences, FiniteSets, SequencesExt

CONSTANTS WorkItems,
          Left,        \* runs with a result that a crash left unsettled
          Twice,       \* runs with a second effect
          Poison,      \* per run the queues it is poisoned in
          CycleLimit,  \* how much of a queue a cycle takes
          Width,       \* how many attempts it leases
          LeaseCycles, \* cycles after which a lease has run out
          Retries,     \* recoveries of an attempt before its run is given up
          StaleAfter   \* cycles without success after which the worker is stale

Queues == {"event", "attempt", "ready", "effect", "external"}

ASSUME CycleAssumption ==
  /\ IsFiniteSet(WorkItems)
  /\ Left \subseteq WorkItems /\ Twice \subseteq WorkItems
  /\ Poison \in [WorkItems -> SUBSET Queues]
  /\ CycleLimit \in Nat \ {0} /\ Width \in Nat \ {0} /\ LeaseCycles \in Nat \ {0}
  /\ Retries \in Nat /\ StaleAfter \in Nat

VARIABLES at,     \* where a run is: out, in a queue, or done
          rounds, \* the effects it has had
          inbox,  \* the events in the order they are available in
          due,    \* the effects in the order they are due in
          age,    \* cycles since a lease was taken that was not given back
          retried,\* recoveries of its attempt
          step,   \* the pass of the cycle, idle between cycles
          budget, \* what is left of the limit in this pass
          old,    \* events the cycle has found and not yet handled
          quiet   \* cycles since the last success the monitor goes by

cycleVars == <<at, rounds, inbox, due, age, retried, step, budget, old, quiet>>
work == <<at, rounds, inbox, due, age, retried>>
control == <<step, budget, old, quiet>>

Free == LeaseCycles + 1 \* no lease is held
Poisoned(r) == at[r] \in Poison[r]
In(q) == {r \in WorkItems : at[r] = q}

CycleInit ==
  /\ at = [r \in WorkItems |-> IF r \in Left THEN "ready" ELSE "out"]
  /\ rounds = [r \in WorkItems |-> 0]
  /\ inbox = <<>> /\ due = <<>>
  /\ age = [r \in WorkItems |-> Free] /\ retried = [r \in WorkItems |-> 0]
  /\ step = "idle" /\ budget = 0 /\ old = {}
  /\ quiet = 0

Arrive(r) ==
  /\ at[r] = "out"
  /\ at' = [at EXCEPT ![r] = "event"] /\ inbox' = Append(inbox, r)
  /\ UNCHANGED <<rounds, due, age, retried>> /\ UNCHANGED control

\* A cycle starts: the leases that are held have grown older by one.
Begin ==
  /\ step = "idle"
  /\ step' = "recover" /\ budget' = CycleLimit /\ old' = ToSet(inbox)
  /\ age' = [r \in WorkItems |-> IF age[r] < LeaseCycles THEN age[r] + 1 ELSE age[r]]
  /\ UNCHANGED <<at, rounds, inbox, due, retried, quiet>>

\* Mutant of After: attempts are leased before the inbox is looked at
AttemptsFirst(s) ==
  CASE s = "recover" -> "ready" [] s = "ready" -> "attempt"
    [] s = "attempt" -> "event" [] s = "event" -> "effect"
    [] OTHER -> "external"

After(s) ==
  CASE s = "recover" -> "ready" [] s = "ready" -> "event"
    [] s = "event" -> "attempt" [] s = "attempt" -> "effect"
    [] OTHER -> "external"

Proceed ==
  /\ step' = After(step) /\ budget' = CycleLimit
  /\ UNCHANGED <<old, quiet>>

Spend == budget' = budget - 1 /\ UNCHANGED <<step, quiet>>

\* Mutant of Threw: the cycle is noted as a success all the same
ThrewAndWell == quiet' = 0

\* A cycle that throws is no success, and the activity it reported is taken
\* back.
Threw == quiet' = IF quiet > StaleAfter THEN quiet ELSE quiet + 1

EndCycle(thrown) ==
  /\ step' = "idle" /\ budget' = 0 /\ old' = {}
  /\ IF thrown THEN Threw ELSE quiet' = 0

-----------------------------------------------------------------------------
(* The passes                                                              *)

Expired(q) == {r \in In(q) : age[r] = LeaseCycles}

\* An attempt that is executed schedules the effect of its run.
Executed(r) == at' = [at EXCEPT ![r] = "effect"] /\ due' = Append(due, r)

\* Mutant of GivesUp: the attempt is given back and leased again
GivenBack(r) == UNCHANGED at

\* terminalizeExhaustedRecovery: the retries are used up and the run ends.
GivesUp(r) == at' = [at EXCEPT ![r] = "done"]

\* A recovered attempt is executed again; once its retries are used up its
\* run is given up.
RecoverAttempt(r) ==
  /\ step = "recover" /\ budget > 0 /\ r \in Expired("attempt")
  /\ IF ~Poisoned(r) THEN Executed(r) /\ age' = [age EXCEPT ![r] = Free] /\ UNCHANGED retried
     ELSE /\ UNCHANGED due
          /\ IF retried[r] = Retries
               THEN /\ GivesUp(r)
                    /\ age' = [age EXCEPT ![r] = Free] /\ UNCHANGED retried
               ELSE /\ retried' = [retried EXCEPT ![r] = @ + 1]
                    /\ age' = [age EXCEPT ![r] = 0] /\ UNCHANGED at
  /\ budget' = budget - 1
  /\ UNCHANGED <<rounds, inbox, step, old, quiet>>

\* Mutant of Resumes: the first candidate is the only one that is tried
FirstOnly(q) == {r \in In(q) : \A s \in In(q) : ~Poisoned(s)}

\* firstSuccessfulKernelContinuation: the first candidate that does not throw.
Resumes(q) == {r \in In(q) : ~Poisoned(r)}

ResumeReady(r) ==
  /\ step = "ready" /\ budget > 0 /\ r \in Resumes("ready")
  /\ at' = [at EXCEPT ![r] = "attempt"]
  /\ Spend
  /\ UNCHANGED <<rounds, inbox, due, age, retried, old>>

\* The event of r is tried again later, behind those that are due.
Again(r) == Append(Tail(inbox), r)

HandleEvent ==
  /\ step = "event" /\ budget > 0 /\ inbox # <<>>
  /\ LET r == inbox[1] IN
       /\ IF Poisoned(r)
            THEN inbox' = Again(r) /\ UNCHANGED at
            ELSE inbox' = Tail(inbox) /\ at' = [at EXCEPT ![r] = "attempt"]
       /\ old' = old \ {r}
  /\ Spend
  /\ UNCHANGED <<rounds, due, age, retried>>

\* A batch of attempts is leased and all of them are awaited.
Batches ==
  LET free == {r \in In("attempt") : age[r] = Free} IN
    {S \in SUBSET free : Cardinality(S) = IF Cardinality(free) < Width
                                            THEN Cardinality(free) ELSE Width}

ExecuteBatch(S) ==
  /\ step = "attempt" /\ S \in Batches
  /\ at' = [r \in WorkItems |-> IF r \in S /\ ~Poisoned(r) THEN "effect" ELSE at[r]]
  /\ age' = [r \in WorkItems |-> IF r \in S /\ Poisoned(r) THEN 0 ELSE age[r]]
  /\ due' = due \o SetToSeq({r \in S : ~Poisoned(r)})
  /\ step' = "effect" /\ budget' = CycleLimit
  /\ UNCHANGED <<rounds, inbox, retried, old, quiet>>

\* Mutant of Leasable: the lease of a drain that threw holds nothing back.
LeasedAtOnce(i) == i \in DOMAIN due

\* The effects that can be leased: those of a lease that ran out are due again
\* where they were.
Leasable(i) == age[due[i]] \in {Free, LeaseCycles}

DrainEffect ==
  /\ step = "effect" /\ budget > 0
  /\ \E i \in DOMAIN due :
       /\ Leasable(i) /\ \A j \in 1..i - 1 : ~Leasable(j)
       /\ IF Poisoned(due[i])
            THEN /\ age' = [age EXCEPT ![due[i]] = 0]
                 /\ EndCycle(TRUE)
                 /\ UNCHANGED <<at, rounds, due>>
            ELSE /\ at' = [at EXCEPT ![due[i]] = "external"]
                 /\ rounds' = [rounds EXCEPT ![due[i]] = @ + 1]
                 /\ due' = RemoveAt(due, i)
                 /\ Spend
                 /\ UNCHANGED <<age, old>>
  /\ UNCHANGED <<inbox, retried>>

\* A continuation that schedules another effect waits for it; it is the last
\* of the cycle.
ResumeExternal(r) ==
  /\ step = "external" /\ budget > 0 /\ r \in Resumes("external")
  /\ IF r \in Twice /\ rounds[r] = 1
       THEN Executed(r) /\ EndCycle(FALSE)
       ELSE /\ at' = [at EXCEPT ![r] = "done"]
            /\ Spend
            /\ UNCHANGED <<due, old>>
  /\ UNCHANGED <<rounds, inbox, age, retried>>

\* A pass has nothing left to do or has used its limit up.
PassEnds ==
  /\ \/ step = "recover" /\ (budget = 0 \/ Expired("attempt") = {})
     \/ step = "ready" /\ (budget = 0 \/ Resumes("ready") = {})
     \/ step = "event" /\ (budget = 0 \/ inbox = <<>>)
     \/ step = "effect" /\ (budget = 0 \/ \A i \in DOMAIN due : ~Leasable(i))
  /\ Proceed
  /\ UNCHANGED work

\* The last pass throws if it has candidates and none of them can be resumed.
CycleEnds ==
  /\ step = "external" /\ (budget = 0 \/ Resumes("external") = {})
  /\ EndCycle(budget > 0 /\ In("external") # {})
  /\ UNCHANGED work

Cycle ==
  \/ Begin \/ PassEnds \/ CycleEnds \/ HandleEvent \/ DrainEffect
  \/ \E r \in WorkItems : RecoverAttempt(r) \/ ResumeReady(r) \/ ResumeExternal(r)
  \/ \E S \in Batches : ExecuteBatch(S)
CycleNext == Cycle \/ \E r \in WorkItems : Arrive(r)

CycleSpec == CycleInit /\ [][CycleNext]_cycleVars
FairCycleSpec == CycleSpec /\ WF_cycleVars(Cycle)

-----------------------------------------------------------------------------
CycleTypeOK ==
  /\ at \in [WorkItems -> Queues \cup {"out", "done"}]
  /\ rounds \in [WorkItems -> 0..2] /\ retried \in [WorkItems -> 0..Retries]
  /\ age \in [WorkItems -> 0..Free]
  /\ inbox \in Seq(WorkItems) /\ ToSet(inbox) = In("event")
  /\ due \in Seq(WorkItems) /\ ToSet(due) = In("effect")
  /\ step \in {"idle", "recover", "ready", "event", "attempt", "effect", "external"}
  /\ budget \in 0..CycleLimit /\ old \subseteq WorkItems
  /\ quiet \in 0..StaleAfter + 1

Stale == quiet > StaleAfter
Sound(r) == Poison[r] = {}

(***************************************************************************)
(* What the queues come to: one bad queue does not starve the others, so a *)
(* run that is poisoned nowhere ends, whatever the other runs are poisoned *)
(* in.                                                                     *)
(***************************************************************************)
SoundRunsAreOver == \A r \in WorkItems : Sound(r) => at[r] \in {"out", "done"}

(***************************************************************************)
(* And an attempt that cannot be executed is given up.                     *)
(***************************************************************************)
BadAttemptsAreGivenUp ==
  \A r \in WorkItems : "attempt" \in Poison[r] => at[r] # "attempt"

(***************************************************************************)
(* What was in the inbox when a cycle began, a stop for example, is handed *)
(* to its handler before the cycle leases an attempt, as far as the limit  *)
(* goes.                                                                   *)
(***************************************************************************)
EventsComeFirst ==
  [][step # "attempt" /\ step' = "attempt" =>
       old = {} \/ (step = "event" /\ budget = 0)]_cycleVars

(***************************************************************************)
(* A worker that is left with a continuation it cannot resume becomes      *)
(* stale, whatever the other queues achieve.                               *)
(***************************************************************************)
FailingIsNoticed ==
  <>[](In("external") # {} /\ Resumes("external") = {}) => <>Stale
=============================================================================

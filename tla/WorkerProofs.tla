---------------------------- MODULE WorkerProofs ----------------------------
(***************************************************************************)
(* Proofs about the worker of the supervisor: the order of its cycle, the  *)
(* leases of attempts it grants, and its effects at GitHub, the wait for   *)
(* the checks of a head and the publication of a pull request.             *)
(***************************************************************************)
EXTENDS WorkerCycle, AttemptScheduling, ProviderWait, GithubPublication,
        FiniteSetTheorems, TLAPS

(***************************************************************************)
(* For any items: the worker takes events before the work that is left,    *)
(* and a queue never holds an item twice.  CycleIInv says what the cycle   *)
(* remembers of the queues it has yet to serve.                            *)
(***************************************************************************)

\* Queues without a repetition, and what they hold.

LEMMA AppendToQueue ==
  ASSUME NEW S, NEW q \in Seq(S), NEW e \in S
  PROVE  /\ Append(q, e) \in Seq(S) /\ ToSet(Append(q, e)) = ToSet(q) \cup {e}
         /\ IsInjective(q) /\ e \notin ToSet(q) => IsInjective(Append(q, e))
<1>1. /\ Append(q, e) \in Seq(S) /\ Len(Append(q, e)) = Len(q) + 1
      /\ \A i \in 1..Len(q) : Append(q, e)[i] = q[i]
      /\ Append(q, e)[Len(q) + 1] = e
      /\ Len(q) \in Nat
      /\ DOMAIN q = 1..Len(q) /\ DOMAIN Append(q, e) = 1..(Len(q) + 1)
  OBVIOUS
<1>2. ToSet(Append(q, e)) = ToSet(q) \cup {e}
  BY <1>1 DEF ToSet
<1>3. ASSUME IsInjective(q), e \notin ToSet(q) PROVE IsInjective(Append(q, e))
  BY <1>1, <1>3 DEF IsInjective, ToSet
<1> QED
  BY <1>1, <1>2, <1>3

LEMMA TailOfQueue ==
  ASSUME NEW S, NEW q \in Seq(S), q # <<>>
  PROVE  /\ q[1] \in S /\ q[1] \in ToSet(q)
         /\ Tail(q) \in Seq(S) /\ ToSet(q) = ToSet(Tail(q)) \cup {q[1]}
         /\ IsInjective(q) => IsInjective(Tail(q)) /\ q[1] \notin ToSet(Tail(q))
<1>1. /\ Tail(q) \in Seq(S) /\ Len(q) \in Nat \ {0} /\ Len(Tail(q)) = Len(q) - 1
      /\ \A i \in 1..(Len(q) - 1) : Tail(q)[i] = q[i + 1]
      /\ DOMAIN q = 1..Len(q) /\ DOMAIN Tail(q) = 1..(Len(q) - 1)
  OBVIOUS
<1>2. q[1] \in S /\ q[1] \in ToSet(q)
  BY <1>1 DEF ToSet
<1>3. ASSUME NEW i \in 1..Len(q), i # 1 PROVE q[i] \in ToSet(Tail(q))
  <2>1. i - 1 \in 1..(Len(q) - 1) /\ (i - 1) + 1 = i
    BY <1>1, <1>3
  <2> QED
    BY <1>1, <2>1 DEF ToSet
<1>4. ASSUME NEW i \in 1..(Len(q) - 1) PROVE Tail(q)[i] \in ToSet(q)
  <2>1. i + 1 \in 1..Len(q)
    BY <1>1
  <2> QED
    BY <1>1, <2>1 DEF ToSet
<1>5. ToSet(q) = ToSet(Tail(q)) \cup {q[1]}
  BY <1>1, <1>2, <1>3, <1>4 DEF ToSet
<1>6. ASSUME IsInjective(q) PROVE IsInjective(Tail(q)) /\ q[1] \notin ToSet(Tail(q))
  BY <1>1, <1>6 DEF IsInjective, ToSet
<1> QED
  BY <1>1, <1>2, <1>5, <1>6

LEMMA RemoveFromQueue ==
  ASSUME NEW S, NEW q \in Seq(S), IsInjective(q), NEW i \in DOMAIN q
  PROVE  /\ q[i] \in S /\ q[i] \in ToSet(q)
         /\ RemoveAt(q, i) \in Seq(S) /\ IsInjective(RemoveAt(q, i))
         /\ ToSet(RemoveAt(q, i)) = ToSet(q) \ {q[i]}
<1> DEFINE n == Len(q)
           r == [j \in 1..(n - 1) |-> IF j < i THEN q[j] ELSE q[j + 1]]
<1>1. n \in Nat /\ DOMAIN q = 1..n /\ i \in 1..n /\ q[i] \in S /\ \A j \in 1..n : q[j] \in S
  OBVIOUS
<1>2. RemoveAt(q, i) \in Seq(S) /\ RemoveAt(q, i) = r
  <2>1. /\ SubSeq(q, 1, i - 1) \in Seq(S) /\ Len(SubSeq(q, 1, i - 1)) = i - 1
        /\ \A j \in 1..(i - 1) : SubSeq(q, 1, i - 1)[j] = q[j]
    BY <1>1
  <2>2. /\ SubSeq(q, i + 1, n) \in Seq(S) /\ Len(SubSeq(q, i + 1, n)) = n - i
        /\ \A j \in 1..(n - i) : SubSeq(q, i + 1, n)[j] = q[i + j]
    BY <1>1
  <2>3. /\ RemoveAt(q, i) \in Seq(S) /\ Len(RemoveAt(q, i)) = n - 1
        /\ \A j \in 1..(n - 1) : RemoveAt(q, i)[j] =
             IF j <= i - 1 THEN SubSeq(q, 1, i - 1)[j] ELSE SubSeq(q, i + 1, n)[j - (i - 1)]
    <3>1. \A p, t \in Seq(S) :
            /\ p \o t \in Seq(S) /\ Len(p \o t) = Len(p) + Len(t)
            /\ \A j \in 1..(Len(p) + Len(t)) :
                 (p \o t)[j] = IF j <= Len(p) THEN p[j] ELSE t[j - Len(p)]
      OBVIOUS
    <3> DEFINE a == SubSeq(q, 1, i - 1)
               b == SubSeq(q, i + 1, n)
    <3>2. RemoveAt(q, i) = a \o b
      BY DEF RemoveAt
    <3>3. a \in Seq(S) /\ b \in Seq(S) /\ Len(a) = i - 1 /\ Len(a) + Len(b) = n - 1
      <4>1. (i - 1) + (n - i) = n - 1
        BY <1>1
      <4>2. a \in Seq(S) /\ b \in Seq(S) /\ Len(a) = i - 1 /\ Len(b) = n - i
        BY <2>1, <2>2
      <4> QED
        BY <4>1, <4>2
    <3> HIDE DEF a, b
    <3>4. /\ a \o b \in Seq(S) /\ Len(a \o b) = n - 1
          /\ \A j \in 1..(n - 1) : (a \o b)[j] = IF j <= i - 1 THEN a[j] ELSE b[j - (i - 1)]
      <4>1. /\ a \o b \in Seq(S) /\ Len(a \o b) = Len(a) + Len(b)
            /\ \A j \in 1..(Len(a) + Len(b)) :
                 (a \o b)[j] = IF j <= Len(a) THEN a[j] ELSE b[j - Len(a)]
        BY <3>1, <3>3
      <4>2. \A j \in 1..(n - 1) : (a \o b)[j] = IF j <= i - 1 THEN a[j] ELSE b[j - (i - 1)]
        BY <3>3, <4>1
      <4> QED
        BY <3>3, <4>1, <4>2
    <3> QED
      BY <3>2, <3>4 DEF a, b
  <2>4. ASSUME NEW j \in 1..(n - 1)
        PROVE  RemoveAt(q, i)[j] = IF j < i THEN q[j] ELSE q[j + 1]
    <3>1. CASE j < i
      <4>1. j \in 1..(i - 1)
        BY <1>1, <3>1
      <4> QED
        BY <2>1, <2>3, <3>1, <4>1
    <3>2. CASE ~(j < i)
      <4>1. j - (i - 1) \in 1..(n - i) /\ i + (j - (i - 1)) = j + 1 /\ ~(j <= i - 1)
        BY <1>1, <3>2
      <4> QED
        BY <2>2, <2>3, <3>2, <4>1
    <3> QED
      BY <3>1, <3>2
  <2>5. RemoveAt(q, i) = [j \in 1..(n - 1) |-> RemoveAt(q, i)[j]]
    BY <1>1, <2>3
  <2> QED
    BY <2>3, <2>4, <2>5
<1>3. IsInjective(r)
  BY <1>1 DEF IsInjective
<1>4. ASSUME NEW j \in 1..n, j # i PROVE q[j] \in ToSet(r)
  <2>1. CASE j < i
    BY <1>1, <2>1 DEF ToSet
  <2>2. CASE j > i
    <3>1. j - 1 \in 1..(n - 1) /\ ~(j - 1 < i) /\ (j - 1) + 1 = j
      BY <1>1, <2>2
    <3> QED
      BY <3>1 DEF ToSet
  <2> QED
    BY <1>1, <1>4, <2>1, <2>2
<1>5. ASSUME NEW j \in 1..(n - 1) PROVE r[j] \in ToSet(q) \ {q[i]}
  BY <1>1 DEF ToSet, IsInjective
<1>6. ToSet(r) = ToSet(q) \ {q[i]}
  <2>1. ToSet(r) \subseteq ToSet(q) \ {q[i]}
    <3>1. ToSet(r) = {r[j] : j \in 1..(n - 1)}
      BY <1>1 DEF ToSet
    <3> HIDE DEF r
    <3> QED
      BY <1>5, <3>1
  <2>2. ToSet(q) \ {q[i]} \subseteq ToSet(r)
    <3>1. ToSet(q) = {q[j] : j \in 1..n}
      BY <1>1 DEF ToSet
    <3> HIDE DEF r
    <3> QED
      BY <1>4, <3>1
  <2> QED
    BY <2>1, <2>2
<1>7. q[i] \in ToSet(q)
  BY <1>1 DEF ToSet
<1> HIDE DEF r
<1> QED
  BY <1>1, <1>2, <1>3, <1>6, <1>7

LEMMA JoinQueues ==
  ASSUME NEW S, NEW q \in Seq(S), NEW p \in Seq(S)
  PROVE  /\ q \o p \in Seq(S) /\ ToSet(q \o p) = ToSet(q) \cup ToSet(p)
         /\ IsInjective(q) /\ IsInjective(p) /\ ToSet(q) \cap ToSet(p) = {}
              => IsInjective(q \o p)
<1>1. /\ q \o p \in Seq(S) /\ Len(q) \in Nat /\ Len(p) \in Nat
      /\ DOMAIN q = 1..Len(q) /\ DOMAIN p = 1..Len(p)
      /\ DOMAIN (q \o p) = 1..(Len(q) + Len(p))
      /\ \A i \in 1..(Len(q) + Len(p)) :
           (q \o p)[i] = IF i <= Len(q) THEN q[i] ELSE p[i - Len(q)]
  OBVIOUS
<1>2. ASSUME NEW i \in 1..Len(p) PROVE p[i] \in ToSet(q \o p)
  <2>1. /\ i + Len(q) \in 1..(Len(q) + Len(p)) /\ ~(i + Len(q) <= Len(q))
        /\ (i + Len(q)) - Len(q) = i
    BY <1>1
  <2>2. (q \o p)[i + Len(q)] = p[i]
    BY <1>1, <2>1
  <2> QED
    BY <1>1, <2>1, <2>2 DEF ToSet
<1>3. ASSUME NEW i \in 1..Len(q) PROVE q[i] \in ToSet(q \o p)
  BY <1>1 DEF ToSet
<1>4. ASSUME NEW i \in 1..(Len(q) + Len(p))
      PROVE  \/ i \in 1..Len(q) /\ (q \o p)[i] = q[i]
             \/ i - Len(q) \in 1..Len(p) /\ (q \o p)[i] = p[i - Len(q)] /\ i > Len(q)
  BY <1>1
<1>5. ToSet(q \o p) = ToSet(q) \cup ToSet(p)
  BY <1>1, <1>2, <1>3, <1>4 DEF ToSet
<1>6. ASSUME IsInjective(q), IsInjective(p), ToSet(q) \cap ToSet(p) = {}
      PROVE  IsInjective(q \o p)
  <2> SUFFICES ASSUME NEW i \in 1..(Len(q) + Len(p)), NEW j \in 1..(Len(q) + Len(p)),
                      (q \o p)[i] = (q \o p)[j]
               PROVE  i = j
    BY <1>1 DEF IsInjective
  <2>1. \A k \in 1..Len(q), l \in 1..Len(p) : q[k] # p[l]
    BY <1>1, <1>6 DEF ToSet
  <2>2. CASE i \in 1..Len(q) /\ (q \o p)[i] = q[i]
    BY <1>1, <1>4, <1>6, <2>1, <2>2 DEF IsInjective
  <2>3. CASE i - Len(q) \in 1..Len(p) /\ (q \o p)[i] = p[i - Len(q)]
    <3>1. j - Len(q) \in 1..Len(p) /\ (q \o p)[j] = p[j - Len(q)]
      BY <1>4, <2>1, <2>3
    <3>2. i - Len(q) = j - Len(q)
      BY <1>1, <1>6, <2>3, <3>1 DEF IsInjective
    <3> QED
      BY <1>1, <3>2
  <2> QED
    BY <1>4, <2>2, <2>3
<1> QED
  BY <1>1, <1>5, <1>6

LEMMA QueueOfSet ==
  ASSUME NEW S, IsFiniteSet(S)
  PROVE  /\ SetToSeq(S) \in Seq(S) /\ ToSet(SetToSeq(S)) = S /\ IsInjective(SetToSeq(S))
<1> DEFINE n == Cardinality(S)
<1>1. n \in Nat /\ ExistsBijection(1..n, S)
  BY FS_CardinalityType
<1>2. \E f \in [1..n -> S] : IsInjective(f)
  BY <1>1 DEF ExistsBijection, Bijection, Injection
<1>3. SetToSeq(S) \in [1..n -> S] /\ IsInjective(SetToSeq(S))
  BY <1>2 DEF SetToSeq
<1>4. SetToSeq(S) \in Surjection(1..n, S)
  <2>1. SetToSeq(S) \in Injection(1..n, S)
    BY <1>3 DEF Injection
  <2>2. IsFiniteSet(1..n) /\ Cardinality(1..n) = n
    BY <1>1, FS_Interval
  <2> QED
    BY <2>1, <2>2, FS_Injection
<1>5. SetToSeq(S) \in Seq(S)
  BY <1>1, <1>3
<1>6. ToSet(SetToSeq(S)) = S
  BY <1>3, <1>4 DEF Surjection, ToSet
<1> QED
  BY <1>3, <1>5, <1>6
-----------------------------------------------------------------------------
\* The cycle.

Passes == {"idle", "recover", "ready", "event", "attempt", "effect", "external"}
CycleTypes ==
  /\ at \in [WorkItems -> Queues \cup {"out", "done"}]
  /\ retried \in [WorkItems -> 0..Retries] /\ age \in [WorkItems -> 0..Free]
  /\ step \in Passes /\ budget \in 0..CycleLimit /\ old \subseteq WorkItems
  /\ quiet \in 0..StaleAfter + 1

\* The two ordered queues hold what is in them, once.
InboxHolds == inbox \in Seq(WorkItems) /\ ToSet(inbox) = In("event") /\ IsInjective(inbox)
DueHolds == due \in Seq(WorkItems) /\ ToSet(due) = In("effect") /\ IsInjective(due)

\* A run comes to its first effect before it has had one, and has two at most.
RoundsHold ==
  /\ rounds \in [WorkItems -> 0..2]
  /\ \A r \in WorkItems :
       /\ at[r] \in {"out", "event", "ready", "attempt"} => rounds[r] = 0
       /\ at[r] = "effect" => rounds[r] <= 1

\* Until it has passed the inbox, what the cycle has found there is there.
OldWaits == step \in {"recover", "ready", "event"} => old \subseteq ToSet(inbox)

CycleIInv == CycleTypes /\ InboxHolds /\ DueHolds /\ RoundsHold /\ OldWaits

LEMMA CycleInitially == CycleInit => CycleIInv
<1> SUFFICES ASSUME CycleInit PROVE CycleIInv
  OBVIOUS
<1>1. Free \in 0..Free /\ 0 \in 0..Retries /\ 0 \in 0..CycleLimit /\ 0 \in 0..StaleAfter + 1
  BY CycleAssumption DEF Free
<1>2. CycleTypes
  BY <1>1 DEF CycleInit, CycleTypes, Queues, Passes
<1>3. ToSet(<<>>) = {} /\ IsInjective(<<>>) /\ <<>> \in Seq(WorkItems)
  BY DEF ToSet, IsInjective
<1>4. In("event") = {} /\ In("effect") = {}
  BY DEF CycleInit, In
<1>5. InboxHolds /\ DueHolds
  BY <1>3, <1>4 DEF CycleInit, InboxHolds, DueHolds
<1>6. RoundsHold /\ OldWaits
  BY DEF CycleInit, RoundsHold, OldWaits
<1> QED
  BY <1>2, <1>5, <1>6 DEF CycleIInv

\* A move of one run between queues.
LEMMA MoveOne ==
  ASSUME CycleTypes, NEW r \in WorkItems, NEW to \in Queues \cup {"out", "done"},
         at' = [at EXCEPT ![r] = to]
  PROVE  \A q \in Queues :
           In(q)' = IF to = q THEN In(q) \cup {r} ELSE In(q) \ {r}
BY DEF CycleTypes, In

LEMMA HandledEvent ==
  ASSUME CycleIInv, HandleEvent
  PROVE  /\ inbox[1] \in WorkItems /\ at[inbox[1]] = "event"
         /\ inbox[1] \notin ToSet(Tail(inbox)) /\ IsInjective(Tail(inbox))
         /\ Tail(inbox) \in Seq(WorkItems)
         /\ ToSet(inbox) = ToSet(Tail(inbox)) \cup {inbox[1]}
<1>1. inbox \in Seq(WorkItems) /\ inbox # <<>> /\ IsInjective(inbox) /\ ToSet(inbox) = In("event")
  BY DEF CycleIInv, InboxHolds, HandleEvent
<1> QED
  BY <1>1, TailOfQueue DEF In

LEMMA DrainedEffect ==
  ASSUME CycleIInv, DrainEffect
  PROVE  \E i \in DOMAIN due :
           /\ due[i] \in WorkItems /\ at[due[i]] = "effect"
           /\ UNCHANGED <<inbox, retried>> /\ budget > 0 /\ step = "effect"
           /\ \/ /\ age' = [age EXCEPT ![due[i]] = 0] /\ EndCycle(TRUE)
                 /\ UNCHANGED <<at, rounds, due>>
              \/ /\ at' = [at EXCEPT ![due[i]] = "external"]
                 /\ rounds' = [rounds EXCEPT ![due[i]] = @ + 1]
                 /\ due' = RemoveAt(due, i) /\ Spend /\ UNCHANGED <<age, old>>
<1>1. PICK i \in DOMAIN due :
        \/ /\ age' = [age EXCEPT ![due[i]] = 0] /\ EndCycle(TRUE)
           /\ UNCHANGED <<at, rounds, due>>
        \/ /\ at' = [at EXCEPT ![due[i]] = "external"]
           /\ rounds' = [rounds EXCEPT ![due[i]] = @ + 1]
           /\ due' = RemoveAt(due, i) /\ Spend /\ UNCHANGED <<age, old>>
  BY DEF DrainEffect
<1>2. due \in Seq(WorkItems) /\ due[i] \in ToSet(due) /\ ToSet(due) = In("effect")
  BY DEF CycleIInv, DueHolds, ToSet
<1> QED
  BY <1>1, <1>2 DEF DrainEffect, In

LEMMA CycleTypesKept == CycleIInv /\ [CycleNext]_cycleVars => CycleTypes'
<1> SUFFICES ASSUME CycleIInv, [CycleNext]_cycleVars PROVE CycleTypes'
  OBVIOUS
<1> USE CycleAssumption DEF CycleIInv, CycleTypes, Queues, Passes, Free
<1>1. CASE Begin
  <2>1. age' \in [WorkItems -> 0..Free]
    BY <1>1 DEF Begin
  <2>2. old' \subseteq WorkItems
    BY <1>1 DEF Begin, InboxHolds, In
  <2> QED
    BY <1>1, <2>1, <2>2 DEF Begin
<1>2. CASE PassEnds
  BY <1>2 DEF PassEnds, Proceed, work, After
<1>3. CASE CycleEnds
  BY <1>3 DEF CycleEnds, EndCycle, Threw, work
<1>4. CASE HandleEvent
  <2>1. /\ inbox[1] \in WorkItems /\ old' = old \ {inbox[1]}
        /\ at' = at \/ at' = [at EXCEPT ![inbox[1]] = "attempt"]
    BY <1>4, HandledEvent DEF HandleEvent
  <2>2. budget' \in 0..CycleLimit
    BY <1>4 DEF HandleEvent, Spend
  <2> QED
    BY <1>4, <2>1, <2>2 DEF HandleEvent, Spend
<1>5. CASE DrainEffect
  BY <1>5, DrainedEffect DEF Spend, EndCycle, Threw
<1>6. ASSUME NEW r \in WorkItems, RecoverAttempt(r) PROVE CycleTypes'
  <2>1. at' = at \/ at' = [at EXCEPT ![r] = "effect"] \/ at' = [at EXCEPT ![r] = "done"]
    BY <1>6 DEF RecoverAttempt, Executed, GivesUp
  <2>2. age' = [age EXCEPT ![r] = Free] \/ age' = [age EXCEPT ![r] = 0]
    BY <1>6 DEF RecoverAttempt
  <2>3. \/ UNCHANGED retried
        \/ retried[r] # Retries /\ retried' = [retried EXCEPT ![r] = @ + 1]
    BY <1>6 DEF RecoverAttempt
  <2>4. age' \in [WorkItems -> 0..Free] /\ retried' \in [WorkItems -> 0..Retries]
    BY <2>2, <2>3
  <2>5. budget' \in 0..CycleLimit /\ UNCHANGED <<old, step, quiet>>
    BY <1>6 DEF RecoverAttempt
  <2> QED
    BY <2>1, <2>4, <2>5
<1>7. ASSUME NEW r \in WorkItems, ResumeReady(r) PROVE CycleTypes'
  BY <1>7 DEF ResumeReady, Resumes, Spend, In
<1>8. ASSUME NEW r \in WorkItems, ResumeExternal(r) PROVE CycleTypes'
  <2>1. at' = [at EXCEPT ![r] = "effect"] \/ at' = [at EXCEPT ![r] = "done"]
    BY <1>8 DEF ResumeExternal, Executed
  <2>2. \/ step' = "idle" /\ budget' = 0 /\ old' = {} /\ quiet' = 0
        \/ budget' = budget - 1 /\ UNCHANGED <<step, quiet, old>>
    BY <1>8 DEF ResumeExternal, EndCycle, Spend
  <2>3. budget > 0 /\ UNCHANGED <<age, retried>>
    BY <1>8 DEF ResumeExternal
  <2> QED
    BY <2>1, <2>2, <2>3
<1>9. ASSUME NEW S \in Batches, ExecuteBatch(S) PROVE CycleTypes'
  BY <1>9 DEF ExecuteBatch, Batches, In
<1>10. ASSUME NEW r \in WorkItems, Arrive(r) PROVE CycleTypes'
  BY <1>10 DEF Arrive, control
<1>11. CASE UNCHANGED cycleVars
  BY <1>11 DEF cycleVars
<1> QED
  BY <1>1, <1>2, <1>3, <1>4, <1>5, <1>6, <1>7, <1>8, <1>9, <1>10, <1>11
  DEF CycleNext, Cycle

LEMMA InboxKept == CycleIInv /\ [CycleNext]_cycleVars => InboxHolds'
<1> SUFFICES ASSUME CycleIInv, [CycleNext]_cycleVars PROVE InboxHolds'
  OBVIOUS
<1> USE DEF CycleIInv, CycleTypes, Queues
<1>a. ASSUME UNCHANGED inbox, In("event")' = In("event") PROVE InboxHolds'
  BY <1>a DEF InboxHolds
<1>1. CASE Begin
  <2>1. UNCHANGED inbox /\ In("event")' = In("event")
    BY <1>1 DEF In, Begin
  <2> QED
    BY <2>1, <1>a
<1>2. CASE PassEnds
  <2>1. UNCHANGED inbox /\ In("event")' = In("event")
    BY <1>2 DEF In, PassEnds, work
  <2> QED
    BY <2>1, <1>a
<1>3. CASE CycleEnds
  <2>1. UNCHANGED inbox /\ In("event")' = In("event")
    BY <1>3 DEF In, CycleEnds, work
  <2> QED
    BY <2>1, <1>a
<1>4. CASE HandleEvent
  <2> DEFINE r == inbox[1]
             rest == Tail(inbox)
  <2>1. /\ r \in WorkItems /\ at[r] = "event" /\ r \notin ToSet(rest) /\ IsInjective(rest)
        /\ rest \in Seq(WorkItems) /\ In("event") = ToSet(rest) \cup {r}
    BY <1>4, HandledEvent DEF InboxHolds
  <2>2. CASE inbox' = Append(rest, r) /\ at' = at
    <3>1. In("event")' = In("event")
      BY <2>2 DEF In
    <3> HIDE DEF r, rest
    <3>2. /\ Append(rest, r) \in Seq(WorkItems) /\ IsInjective(Append(rest, r))
          /\ ToSet(Append(rest, r)) = ToSet(rest) \cup {r}
      BY <2>1, AppendToQueue
    <3> QED
      BY <2>1, <2>2, <3>1, <3>2 DEF InboxHolds
  <2>3. CASE inbox' = rest /\ at' = [at EXCEPT ![r] = "attempt"]
    <3>1. In("event")' = In("event") \ {r}
      BY <2>1, <2>3 DEF In
    <3> HIDE DEF r, rest
    <3> QED
      BY <2>1, <2>3, <3>1 DEF InboxHolds
  <2> QED
    BY <1>4, <2>2, <2>3 DEF HandleEvent, Again
<1>5. CASE DrainEffect
  <2>1. UNCHANGED inbox /\ In("event")' = In("event")
    <3>1. PICK i \in DOMAIN due :
            /\ due[i] \in WorkItems /\ at[due[i]] = "effect" /\ inbox' = inbox
            /\ at' = at \/ at' = [at EXCEPT ![due[i]] = "external"]
      BY <1>5, DrainedEffect
    <3> QED
      BY <3>1 DEF In
  <2> QED
    BY <2>1, <1>a
<1>6. ASSUME NEW r \in WorkItems, RecoverAttempt(r) PROVE InboxHolds'
  <2>1. UNCHANGED inbox /\ In("event")' = In("event")
    BY <1>6 DEF In, RecoverAttempt, Expired, Executed, GivesUp
  <2> QED
    BY <2>1, <1>a
<1>7. ASSUME NEW r \in WorkItems, ResumeReady(r) PROVE InboxHolds'
  <2>1. UNCHANGED inbox /\ In("event")' = In("event")
    BY <1>7 DEF In, ResumeReady, Resumes
  <2> QED
    BY <2>1, <1>a
<1>8. ASSUME NEW r \in WorkItems, ResumeExternal(r) PROVE InboxHolds'
  <2>1. UNCHANGED inbox /\ In("event")' = In("event")
    BY <1>8 DEF In, ResumeExternal, Resumes, Executed
  <2> QED
    BY <2>1, <1>a
<1>9. ASSUME NEW S \in Batches, ExecuteBatch(S) PROVE InboxHolds'
  <2>1. UNCHANGED inbox /\ In("event")' = In("event")
    BY <1>9 DEF In, ExecuteBatch, Batches
  <2> QED
    BY <2>1, <1>a
<1>10. ASSUME NEW r \in WorkItems, Arrive(r) PROVE InboxHolds'
  <2>1. inbox' = Append(inbox, r) /\ at' = [at EXCEPT ![r] = "event"] /\ r \notin In("event")
    BY <1>10 DEF Arrive, In
  <2>2. In("event")' = In("event") \cup {r}
    BY <2>1 DEF In
  <2>3. inbox \in Seq(WorkItems) /\ IsInjective(inbox) /\ r \notin ToSet(inbox)
    BY <2>1 DEF InboxHolds
  <2>4. /\ inbox' \in Seq(WorkItems) /\ IsInjective(inbox')
        /\ ToSet(inbox') = ToSet(inbox) \cup {r}
    BY <2>1, <2>3, AppendToQueue
  <2> QED
    BY <2>2, <2>4 DEF InboxHolds
<1>11. CASE UNCHANGED cycleVars
  <2>1. UNCHANGED inbox /\ In("event")' = In("event")
    BY <1>11 DEF In, cycleVars
  <2> QED
    BY <2>1, <1>a
<1> QED
  BY <1>1, <1>2, <1>3, <1>4, <1>5, <1>6, <1>7, <1>8, <1>9, <1>10, <1>11
  DEF CycleNext, Cycle

LEMMA DueKept == CycleIInv /\ [CycleNext]_cycleVars => DueHolds'
<1> SUFFICES ASSUME CycleIInv, [CycleNext]_cycleVars PROVE DueHolds'
  OBVIOUS
<1> USE DEF CycleIInv, CycleTypes, Queues
<1>a. ASSUME UNCHANGED due, In("effect")' = In("effect") PROVE DueHolds'
  BY <1>a DEF DueHolds
<1>1. CASE Begin
  <2>1. UNCHANGED due /\ In("effect")' = In("effect")
    BY <1>1 DEF In, Begin
  <2> QED
    BY <2>1, <1>a
<1>2. CASE PassEnds
  <2>1. UNCHANGED due /\ In("effect")' = In("effect")
    BY <1>2 DEF In, PassEnds, work
  <2> QED
    BY <2>1, <1>a
<1>3. CASE CycleEnds
  <2>1. UNCHANGED due /\ In("effect")' = In("effect")
    BY <1>3 DEF In, CycleEnds, work
  <2> QED
    BY <2>1, <1>a
<1>4. CASE HandleEvent
  <2>1. UNCHANGED due /\ In("effect")' = In("effect")
    <3>1. /\ inbox[1] \in WorkItems /\ at[inbox[1]] = "event" /\ due' = due
          /\ at' = at \/ at' = [at EXCEPT ![inbox[1]] = "attempt"]
      BY <1>4, HandledEvent DEF HandleEvent
    <3> QED
      BY <3>1 DEF In
  <2> QED
    BY <2>1, <1>a
<1>5. CASE DrainEffect
  <2>1. PICK i \in DOMAIN due :
          /\ due[i] \in WorkItems /\ at[due[i]] = "effect"
          /\ \/ UNCHANGED <<at, due>>
             \/ at' = [at EXCEPT ![due[i]] = "external"] /\ due' = RemoveAt(due, i)
    BY <1>5, DrainedEffect
  <2>2. CASE UNCHANGED <<at, due>>
    BY <2>2, <1>a DEF In
  <2>3. CASE at' = [at EXCEPT ![due[i]] = "external"] /\ due' = RemoveAt(due, i)
    <3>1. In("effect")' = In("effect") \ {due[i]}
      BY <2>1, <2>3 DEF In
    <3> QED
      BY <2>3, <3>1, RemoveFromQueue DEF DueHolds
  <2> QED
    BY <2>1, <2>2, <2>3
<1>6. ASSUME NEW r \in WorkItems, RecoverAttempt(r) PROVE DueHolds'
  <2>1. CASE Executed(r)
    <3>0. at' = [at EXCEPT ![r] = "effect"] /\ due' = Append(due, r) /\ at[r] = "attempt"
      BY <1>6, <2>1 DEF RecoverAttempt, Expired, In, Executed
    <3>1. In("effect")' = In("effect") \cup {r} /\ r \notin In("effect")
      BY <3>0 DEF In, RecoverAttempt, Expired
    <3> QED
      <4>1. due \in Seq(WorkItems) /\ IsInjective(due) /\ r \notin ToSet(due)
        BY <3>1 DEF DueHolds
      <4>2. /\ due' \in Seq(WorkItems) /\ IsInjective(due')
            /\ ToSet(due') = ToSet(due) \cup {r}
        BY <3>0, <4>1, AppendToQueue
      <4> QED
        BY <3>1, <4>2 DEF DueHolds
  <2>2. CASE ~Executed(r)
    <3>1. UNCHANGED due /\ (UNCHANGED at \/ (at' = [at EXCEPT ![r] = "done"] /\ at[r] = "attempt"))
      BY <1>6, <2>2 DEF RecoverAttempt, Expired, In, GivesUp
    <3> QED
      BY <3>1, <1>a DEF In
  <2> QED
    BY <2>1, <2>2
<1>7. ASSUME NEW r \in WorkItems, ResumeReady(r) PROVE DueHolds'
  <2>1. UNCHANGED due /\ In("effect")' = In("effect")
    BY <1>7 DEF In, ResumeReady, Resumes
  <2> QED
    BY <2>1, <1>a
<1>8. ASSUME NEW r \in WorkItems, ResumeExternal(r) PROVE DueHolds'
  <2>1. CASE Executed(r)
    <3>0. at' = [at EXCEPT ![r] = "effect"] /\ due' = Append(due, r) /\ at[r] = "external"
      BY <1>8, <2>1 DEF ResumeExternal, Resumes, In, Executed
    <3>1. In("effect")' = In("effect") \cup {r} /\ r \notin In("effect")
      BY <3>0 DEF In, ResumeExternal, Resumes
    <3> QED
      <4>1. due \in Seq(WorkItems) /\ IsInjective(due) /\ r \notin ToSet(due)
        BY <3>1 DEF DueHolds
      <4>2. /\ due' \in Seq(WorkItems) /\ IsInjective(due')
            /\ ToSet(due') = ToSet(due) \cup {r}
        BY <3>0, <4>1, AppendToQueue
      <4> QED
        BY <3>1, <4>2 DEF DueHolds
  <2>2. CASE ~Executed(r)
    <3>1. UNCHANGED due /\ at' = [at EXCEPT ![r] = "done"] /\ at[r] = "external"
      BY <1>8, <2>2 DEF ResumeExternal, Resumes, In
    <3> QED
      BY <3>1, <1>a DEF In
  <2> QED
    BY <2>1, <2>2
<1>9. ASSUME NEW S \in Batches, ExecuteBatch(S) PROVE DueHolds'
  <2> DEFINE done == {r \in S : ~Poisoned(r)}
  <2>1. /\ S \subseteq In("attempt") /\ due' = due \o SetToSeq(done)
        /\ at' = [r \in WorkItems |-> IF r \in S /\ ~Poisoned(r) THEN "effect" ELSE at[r]]
    BY <1>9 DEF ExecuteBatch, Batches
  <2>2. done \subseteq WorkItems /\ done \cap In("effect") = {}
    BY <2>1 DEF In
  <2>3. IsFiniteSet(done)
    BY <2>2, CycleAssumption, FS_Subset
  <2>4. In("effect")' = In("effect") \cup done
    BY <2>1, <2>2 DEF In
  <2> HIDE DEF done
  <2>5. /\ SetToSeq(done) \in Seq(WorkItems) /\ ToSet(SetToSeq(done)) = done
        /\ IsInjective(SetToSeq(done))
    <3>1. SetToSeq(done) \in Seq(done)
      BY <2>3, QueueOfSet
    <3> QED
      BY <2>2, <2>3, <3>1, QueueOfSet
  <2>6. /\ due \in Seq(WorkItems) /\ IsInjective(due)
        /\ ToSet(due) \cap ToSet(SetToSeq(done)) = {}
    BY <2>2, <2>5 DEF DueHolds
  <2>7. /\ due' \in Seq(WorkItems) /\ IsInjective(due')
        /\ ToSet(due') = ToSet(due) \cup done
    BY <2>1, <2>5, <2>6, JoinQueues
  <2> QED
    BY <2>4, <2>7 DEF DueHolds
<1>10. ASSUME NEW r \in WorkItems, Arrive(r) PROVE DueHolds'
  <2>1. UNCHANGED due /\ In("effect")' = In("effect")
    BY <1>10 DEF In, Arrive
  <2> QED
    BY <2>1, <1>a
<1>11. CASE UNCHANGED cycleVars
  <2>1. UNCHANGED due /\ In("effect")' = In("effect")
    BY <1>11 DEF In, cycleVars
  <2> QED
    BY <2>1, <1>a
<1> QED
  BY <1>1, <1>2, <1>3, <1>4, <1>5, <1>6, <1>7, <1>8, <1>9, <1>10, <1>11
  DEF CycleNext, Cycle

LEMMA RoundsKept == CycleIInv /\ [CycleNext]_cycleVars => RoundsHold'
<1> SUFFICES ASSUME CycleIInv, [CycleNext]_cycleVars PROVE RoundsHold'
  OBVIOUS
<1> USE CycleAssumption DEF CycleIInv, CycleTypes, RoundsHold
<1>1. CASE Begin
  BY <1>1 DEF Begin
<1>2. CASE PassEnds
  BY <1>2 DEF PassEnds, Proceed, work, After
<1>3. CASE CycleEnds
  BY <1>3 DEF CycleEnds, EndCycle, Threw, work
<1>4. CASE HandleEvent
  BY <1>4, HandledEvent DEF HandleEvent, Spend, Again
<1>5. CASE DrainEffect
  BY <1>5, DrainedEffect DEF Spend, EndCycle, Threw
<1>6. ASSUME NEW r \in WorkItems, RecoverAttempt(r) PROVE RoundsHold'
  BY <1>6 DEF RecoverAttempt, Executed, GivesUp, Expired, In
<1>7. ASSUME NEW r \in WorkItems, ResumeReady(r) PROVE RoundsHold'
  BY <1>7 DEF ResumeReady, Resumes, Spend, In
<1>8. ASSUME NEW r \in WorkItems, ResumeExternal(r) PROVE RoundsHold'
  BY <1>8 DEF ResumeExternal, Resumes, Executed, EndCycle, Threw, Spend, In
<1>9. ASSUME NEW S \in Batches, ExecuteBatch(S) PROVE RoundsHold'
  BY <1>9 DEF ExecuteBatch, Batches, In
<1>10. ASSUME NEW r \in WorkItems, Arrive(r) PROVE RoundsHold'
  BY <1>10 DEF Arrive, control
<1>11. CASE UNCHANGED cycleVars
  BY <1>11 DEF cycleVars
<1> QED
  BY <1>1, <1>2, <1>3, <1>4, <1>5, <1>6, <1>7, <1>8, <1>9, <1>10, <1>11
  DEF CycleNext, Cycle

LEMMA OldKept == CycleIInv /\ [CycleNext]_cycleVars => OldWaits'
<1> SUFFICES ASSUME CycleIInv, [CycleNext]_cycleVars PROVE OldWaits'
  OBVIOUS
<1> USE CycleAssumption DEF CycleIInv, CycleTypes, Passes, InboxHolds, OldWaits
<1>1. CASE Begin
  BY <1>1 DEF Begin
<1>2. CASE PassEnds
  BY <1>2 DEF PassEnds, Proceed, work, After
<1>3. CASE CycleEnds
  BY <1>3 DEF CycleEnds, EndCycle, Threw, work
<1>4. CASE HandleEvent
  <2> DEFINE r == inbox[1]
             rest == Tail(inbox)
  <2>1. /\ r \in WorkItems /\ r \notin ToSet(rest) /\ rest \in Seq(WorkItems)
        /\ ToSet(inbox) = ToSet(rest) \cup {r} /\ old \subseteq ToSet(inbox)
        /\ old' = old \ {r} /\ inbox' \in {rest, Append(rest, r)}
    BY <1>4, HandledEvent DEF HandleEvent, Again
  <2> HIDE DEF r, rest
  <2>2. ToSet(rest) \subseteq ToSet(Append(rest, r))
    BY <2>1, AppendToQueue
  <2> QED
    BY <2>1, <2>2
<1>5. CASE DrainEffect
  BY <1>5, DrainedEffect DEF Spend, EndCycle, Threw
<1>6. ASSUME NEW r \in WorkItems, RecoverAttempt(r) PROVE OldWaits'
  BY <1>6 DEF RecoverAttempt, Executed, GivesUp, Expired, In
<1>7. ASSUME NEW r \in WorkItems, ResumeReady(r) PROVE OldWaits'
  BY <1>7 DEF ResumeReady, Resumes, Spend, In
<1>8. ASSUME NEW r \in WorkItems, ResumeExternal(r) PROVE OldWaits'
  BY <1>8 DEF ResumeExternal, Resumes, Executed, EndCycle, Threw, Spend, In
<1>9. ASSUME NEW S \in Batches, ExecuteBatch(S) PROVE OldWaits'
  BY <1>9 DEF ExecuteBatch, Batches, In
<1>10. ASSUME NEW r \in WorkItems, Arrive(r) PROVE OldWaits'
  <2>1. ToSet(inbox') = ToSet(inbox) \cup {r}
    BY <1>10, AppendToQueue DEF Arrive
  <2> QED
    BY <1>10, <2>1 DEF Arrive, control
<1>11. CASE UNCHANGED cycleVars
  BY <1>11 DEF cycleVars
<1> QED
  BY <1>1, <1>2, <1>3, <1>4, <1>5, <1>6, <1>7, <1>8, <1>9, <1>10, <1>11
  DEF CycleNext, Cycle

LEMMA CycleInvariance == CycleSpec => []CycleIInv
<1>1. CycleIInv /\ [CycleNext]_cycleVars => CycleIInv'
  BY CycleTypesKept, InboxKept, DueKept, RoundsKept, OldKept DEF CycleIInv
<1> QED
  BY <1>1, CycleInitially, PTL DEF CycleSpec

\* The queues of a worker hold the runs that are in them, each once and in an order;
\* leases, retries, limits and the monitor's count stay within their bounds.
THEOREM CycleTypeCorrect == CycleSpec => []CycleTypeOK
<1>1. CycleIInv => CycleTypeOK
  BY DEF CycleIInv, CycleTypes, InboxHolds, DueHolds, RoundsHold, Passes, CycleTypeOK
<1> QED
  BY <1>1, CycleInvariance, PTL

\* For any runs, poison and limits: a cycle leases attempts when the events it found
\* have been handed to their handlers, or when it has used up its limit of events.
THEOREM EventsAreFirst == CycleSpec => EventsComeFirst
<1>1. CycleIInv /\ [CycleNext]_cycleVars =>
        [step # "attempt" /\ step' = "attempt" =>
           old = {} \/ (step = "event" /\ budget = 0)]_cycleVars
  <2> SUFFICES ASSUME CycleIInv, CycleNext, step # "attempt", step' = "attempt"
               PROVE  old = {} \/ (step = "event" /\ budget = 0)
    OBVIOUS
  <2>1. PassEnds
    BY DEF CycleNext, Cycle, Begin, CycleEnds, EndCycle, HandleEvent, DrainEffect,
           RecoverAttempt, ResumeReady, ResumeExternal, ExecuteBatch, Arrive, Spend, control
  <2>2. step = "event" /\ (budget = 0 \/ inbox = <<>>)
    BY <2>1 DEF PassEnds, Proceed, After
  <2>3. inbox = <<>> => old = {}
    BY <2>2 DEF CycleIInv, OldWaits, ToSet
  <2> QED
    BY <2>2, <2>3
<1> QED
  BY <1>1, CycleInvariance, PTL DEF CycleSpec, EventsComeFirst

-----------------------------------------------------------------------------
(***************************************************************************)
(* For any runs, pools and limits: what is leased fits the slots that the  *)
(* run has, and the whole.  A decision is taken on a snapshot; ClaimsHold  *)
(* says which claims there are that the snapshot does not show, so that    *)
(* the room it leaves is there when the lease is written.                  *)
(***************************************************************************)

\* Only a run that is live and whose manifest is known to fit has claims; a run
\* that is not admitted has made nothing.
ClaimsHold ==
  /\ snapshot # Nobody => snapshot.good \subseteq cached
  /\ \A r \in Runs :
       /\ Claims(r) # {} => /\ r \in Live /\ r \in cached
                            /\ PoolSize[r] <= MaxConcurrent
                            /\ snapshot # Nobody => r \in snapshot.good
       /\ stageOf[r] = "absent" => Standing(r) = {}

SchedulingIInv == SchedulingTypeOK /\ ClaimsHold /\ SchedulingSafe

LEMMA ReservationsAreFinite ==
  ASSUME SchedulingTypeOK, NEW good
  PROVE  IsFiniteSet(Reservations(good)) /\ Reserved(good) \in Nat
<1>1. Live \subseteq Runs /\ IsFiniteSet(Live)
  BY SchedulingAssumption, FS_Subset DEF Live
<1>2. ASSUME NEW r \in Runs
      PROVE /\ ReservedSlots(r, good) \subseteq SlotsOf(r)
            /\ IsFiniteSet({r} \X ReservedSlots(r, good))
  <2>1. PoolSize[r] \in Nat /\ 0 \in Int /\ PoolSize[r] - 1 \in Int
    BY SchedulingAssumption
  <2>2. IsFiniteSet(SlotsOf(r))
    BY <2>1, FS_Interval DEF SlotsOf
  <2>3. ReservedSlots(r, good) \subseteq SlotsOf(r)
    BY DEF ReservedSlots, Standing
  <2>4. IsFiniteSet(ReservedSlots(r, good))
    BY <2>2, <2>3, FS_Subset
  <2> QED
    BY <2>3, <2>4, FS_Singleton, FS_Product
<1> DEFINE parts == {{r} \X ReservedSlots(r, good) : r \in Live}
<1>3. IsFiniteSet(parts)
  <2> DEFINE part == [r \in Live |-> {r} \X ReservedSlots(r, good)]
  <2>1. part \in Surjection(Live, parts)
    BY DEF Surjection
  <2> HIDE DEF part, parts
  <2> QED
    BY <1>1, <2>1, FS_Surjection
<1>4. \A T \in parts : IsFiniteSet(T)
  BY <1>1, <1>2
<1>5. IsFiniteSet(UNION parts)
  <2> HIDE DEF parts
  <2> QED
    BY <1>3, <1>4, FS_UNION
<1> QED
  BY <1>5, FS_CardinalityType DEF Reservations, Reserved

\* The sandboxes that a step reserves are among those that were reserved before it.
LEMMA FewerReservations ==
  ASSUME SchedulingTypeOK, WithinCapacity, Reservations(Runs)' \subseteq Reservations(Runs)
  PROVE  WithinCapacity'
<1>1. IsFiniteSet(Reservations(Runs)) /\ Reserved(Runs) \in Nat
  BY ReservationsAreFinite
<1>2. Cardinality(Reservations(Runs)') <= Cardinality(Reservations(Runs)) /\ Cardinality(Reservations(Runs)') \in Nat
  BY <1>1, FS_Subset, FS_CardinalityType
<1>3. ResourceCapacity' = ResourceCapacity /\ ResourceCapacity \in Nat
  BY SchedulingAssumption DEF ResourceCapacity
<1> QED
  BY <1>1, <1>2, <1>3 DEF WithinCapacity, Reserved

LEMMA SchedulingInitially == SchedulingInit => SchedulingIInv
<1> SUFFICES ASSUME SchedulingInit PROVE SchedulingIInv
  OBVIOUS
<1> USE DEF SchedulingInit
<1>1. SchedulingTypeOK
  BY SchedulingAssumption DEF SchedulingTypeOK
<1>2. /\ \A r \in Runs : Claims(r) = {} /\ Standing(r) = {}
      /\ Live = {}
  BY DEF Claims, Standing, Live
<1>3. Reservations(Runs) = {}
  BY <1>2 DEF Reservations
<1>4. WithinCapacity
  BY <1>3, FS_EmptySet, SchedulingAssumption DEF WithinCapacity, Reserved, ResourceCapacity
<1> QED
  BY <1>1, <1>2, <1>4 DEF SchedulingIInv, ClaimsHold, SchedulingSafe, OneClaimPerSlot

\* What a step of one run does to claims and reservations: the claims it had are
\* kept or fewer, the stage it goes to is live or over, what stands is no more.
Settles(r) ==
  /\ \A q \in Runs \ {r} : stageOf'[q] = stageOf[q] /\ Claims(q)' = Claims(q)
                           /\ Standing(q)' = Standing(q)
  /\ \/ /\ Claims(r)' = {} /\ Standing(r)' \subseteq Standing(r)
        /\ stageOf'[r] # "absent"
     \/ /\ Claims(r)' \subseteq Claims(r) /\ Standing(r)' = Standing(r)
        /\ stageOf'[r] = stageOf[r]
     \/ /\ Claims(r)' = Claims(r) /\ Claims(r) # {}
        /\ Standing(r)' \subseteq SlotsOf(r)
        /\ stageOf'[r] = stageOf[r]
  /\ stageOf[r] = "absent" => Standing(r)' = {}
  /\ r \notin Live => Standing(r)' = {} \/ r \notin Live'
  /\ snapshot' = snapshot /\ cached' = cached

LEMMA SettlingIsSafe ==
  ASSUME SchedulingIInv, NEW r \in Runs, Settles(r)
  PROVE  ClaimsHold' /\ SchedulingSafe'
<1>1. ClaimsHold'
  BY DEF SchedulingIInv, ClaimsHold, Settles, Live
<1>2. \A q \in Runs : Standing(q) \subseteq SlotsOf(q) /\ Standing(q)' \subseteq SlotsOf(q)
  BY DEF Standing, SlotsOf
<1>3. ASSUME NEW q \in Live' PROVE \/ ReservedSlots(q, Runs)' = {}
                                   \/ q \in Live /\ ReservedSlots(q, Runs)' \subseteq ReservedSlots(q, Runs)
  <2>1. q \in Runs
    BY DEF Live
  <2>2. CASE q # r
    BY <2>1, <2>2 DEF Settles, Live, ReservedSlots, SlotsOf
  <2>3. CASE q = r
    <3>1. CASE r \in Live
      BY <1>2, <2>3, <3>1 DEF Settles, ReservedSlots, SlotsOf, SchedulingIInv, ClaimsHold
    <3>2. CASE r \notin Live
      <4>1. Claims(r) = {}
        BY <3>2 DEF SchedulingIInv, ClaimsHold
      <4> QED
        BY <1>2, <2>3, <3>2, <4>1 DEF Settles, ReservedSlots, SlotsOf
    <3> QED
      BY <3>1, <3>2
  <2> QED
    BY <2>2, <2>3
<1>4. Reservations(Runs)' \subseteq Reservations(Runs)
  BY <1>3 DEF Reservations
<1>5. WithinCapacity'
  BY <1>4, FewerReservations DEF SchedulingIInv, SchedulingSafe
<1>6. OneClaimPerSlot'
  BY DEF SchedulingIInv, SchedulingSafe, OneClaimPerSlot, Settles, Live, ClaimsHold, Slot
<1> QED
  BY <1>1, <1>5, <1>6 DEF SchedulingSafe

LEMMA LeasingIsSafe ==
  ASSUME SchedulingIInv, snapshot # Nobody, snapshot' = Nobody,
         UNCHANGED <<stageOf, creates, cleaned, cached>>,
         NEW e \in Candidates,
         claim' = [claim EXCEPT ![e[1]][e[2]] =
                     IF @ = "held" THEN "correcting" ELSE "leased"]
  PROVE  ClaimsHold' /\ SchedulingSafe'
<1> USE DEF SchedulingIInv
<1>1. PICK r \in Live : \E i \in Items(r) : e = <<r, i>>
  BY DEF Candidates
<1>2. PICK i \in Items(r) : e = <<r, i>>
  BY <1>1
<1>3. /\ r \in Runs /\ r \in snapshot.good /\ r \in cached
      /\ PoolSize[r] <= MaxConcurrent /\ CanShareItsRun(r, i)
      /\ Reserved(snapshot.good) + Additional(r) <= ResourceCapacity
  <2>1. e[1] = r /\ e[2] = i
    BY <1>2
  <2>2. CanShareItsRun(e[1], e[2]) /\ Schedulable(e[1])
        /\ Reserved(snapshot.good) + Additional(e[1]) <= ResourceCapacity
    BY DEF Candidates
  <2>3. r \in snapshot.good /\ PoolSize[r] <= MaxConcurrent
    BY <2>1, <2>2 DEF Schedulable
  <2> QED
    BY <2>1, <2>2, <2>3 DEF Live, ClaimsHold
<1>4. /\ Claims(r)' = Claims(r) \cup {i}
      /\ \A q \in Runs \ {r} : Claims(q)' = Claims(q)
  BY <1>2, <1>3 DEF Claims, SchedulingTypeOK, Candidates
<1>5. /\ Live' = Live /\ \A q \in Runs : Standing(q)' = Standing(q) /\ Standing(q) \subseteq SlotsOf(q)
  BY DEF Live, Standing, SlotsOf
<1>6. ClaimsHold'
  BY <1>1, <1>3, <1>4, <1>5 DEF ClaimsHold
<1>7. OneClaimPerSlot'
  <2>1. \A j, k \in Claims(r) \cup {i} : Slot(r, j) = Slot(r, k) => j = k
    <3>1. IsFiniteSet(Claims(r) \cup {i}) /\ Claims(r) \cup {i} # {}
      <4>1. ItemCount[r] \in Nat /\ 0 \in Int /\ ItemCount[r] - 1 \in Int
        BY <1>3, SchedulingAssumption
      <4>2. IsFiniteSet(Items(r)) /\ Claims(r) \cup {i} \subseteq Items(r)
        BY <4>1, FS_Interval DEF Items, Claims
      <4> QED
        BY <4>2, FS_Subset
    <3>2. CASE Cardinality(Claims(r) \cup {i}) <= 1
      <4>1. Cardinality(Claims(r) \cup {i}) \in Nat /\ Cardinality(Claims(r) \cup {i}) # 0
        BY <3>1, FS_CardinalityType, FS_EmptySet
      <4>2. Cardinality(Claims(r) \cup {i}) = 1
        BY <3>2, <4>1
      <4>3. PICK x : Claims(r) \cup {i} = {x}
        BY <3>1, <4>2, FS_Singleton
      <4> QED
        BY <4>3
    <3>3. CASE ~(Cardinality(Claims(r) \cup {i}) <= 1)
      BY <1>3, <3>3 DEF CanShareItsRun, Fits
    <3> QED
      BY <3>2, <3>3
  <2> QED
    BY <1>4, <1>5, <2>1 DEF SchedulingSafe, OneClaimPerSlot, Slot, Live
<1>8. WithinCapacity'
  <2> DEFINE have == ReservedSlots(r, snapshot.good)
             more == {r} \X (SlotsOf(r) \ have)
             before == Reservations(snapshot.good)
  <2>1. PoolSize[r] \in Nat \ {0} /\ IsFiniteSet(SlotsOf(r)) /\ Cardinality(SlotsOf(r)) = PoolSize[r]
    <3>1. PoolSize[r] \in Nat \ {0} /\ 0 \in Int /\ PoolSize[r] - 1 \in Int
      BY <1>3, SchedulingAssumption
    <3>2. /\ IsFiniteSet(0 .. PoolSize[r] - 1)
          /\ Cardinality(0 .. PoolSize[r] - 1) =
               IF 0 > PoolSize[r] - 1 THEN 0 ELSE PoolSize[r] - 1 - 0 + 1
      BY <3>1, FS_Interval
    <3>3. ~(0 > PoolSize[r] - 1) /\ PoolSize[r] - 1 - 0 + 1 = PoolSize[r]
      BY <3>1
    <3> QED
      BY <3>1, <3>2, <3>3 DEF SlotsOf
  <2>2. have \subseteq SlotsOf(r)
    BY DEF ReservedSlots, Standing
  <2>3. /\ IsFiniteSet(SlotsOf(r) \ have)
        /\ Cardinality(SlotsOf(r) \ have) = PoolSize[r] - Cardinality(have)
        /\ Cardinality(have) \in Nat
    <3>1. SlotsOf(r) \cap have = have
      BY <2>2
    <3>2. IsFiniteSet(have)
      BY <2>1, <2>2, FS_Subset
    <3>3. /\ IsFiniteSet(SlotsOf(r) \ have)
          /\ Cardinality(SlotsOf(r) \ have) = Cardinality(SlotsOf(r)) - Cardinality(SlotsOf(r) \cap have)
      <4> HIDE DEF have
      <4> QED
        BY <2>1, FS_Difference
    <3>4. Cardinality(have) \in Nat
      BY <3>2, FS_CardinalityType
    <3> HIDE DEF have
    <3> QED
      BY <2>1, <3>1, <3>3, <3>4
  <2>4. IsFiniteSet(more) /\ Cardinality(more) = Additional(r) /\ Additional(r) \in Nat
    <3>1. IsFiniteSet(more) /\ Cardinality(more) = 1 * (PoolSize[r] - Cardinality(have))
      <4> DEFINE free == SlotsOf(r) \ have
      <4>1. IsFiniteSet(free) /\ Cardinality(free) = PoolSize[r] - Cardinality(have)
        BY <2>3
      <4>2. IsFiniteSet({r}) /\ Cardinality({r}) = 1
        BY FS_Singleton
      <4>3. more = {r} \X free
        OBVIOUS
      <4> HIDE DEF free, have, more
      <4>4. IsFiniteSet({r} \X free) /\ Cardinality({r} \X free) = Cardinality({r}) * Cardinality(free)
        BY <4>1, <4>2, FS_Product
      <4> QED
        BY <4>1, <4>2, <4>3, <4>4
    <3>2. Cardinality(more) \in Nat
      BY <3>1, FS_CardinalityType
    <3> QED
      BY <2>1, <2>3, <3>1, <3>2 DEF Additional
  <2>5. IsFiniteSet(before) /\ Cardinality(before) = Reserved(snapshot.good) /\ Reserved(snapshot.good) \in Nat
    BY ReservationsAreFinite DEF Reserved
  <2>6. Reservations(Runs)' \subseteq before \cup more
    <3>1. ASSUME NEW q \in Live PROVE {q} \X ReservedSlots(q, Runs)' \subseteq before \cup more
      <4>1. q \in Runs
        BY <3>1 DEF Live
      <4>2. CASE q # r
        <5>1. ReservedSlots(q, Runs)' \subseteq ReservedSlots(q, snapshot.good)
          BY <1>4, <1>5, <4>1, <4>2 DEF ReservedSlots, ClaimsHold, SlotsOf
        <5> QED
          BY <3>1, <5>1 DEF Reservations
      <4>3. CASE q = r
        <5>1. ReservedSlots(q, Runs)' \subseteq SlotsOf(r)
          BY <1>5, <4>1, <4>3 DEF ReservedSlots, SlotsOf
        <5> QED
          BY <3>1, <4>3, <5>1 DEF Reservations
      <4> QED
        BY <4>2, <4>3
    <3> QED
      BY <1>5, <3>1 DEF Reservations
  <2> HIDE DEF more, before, have
  <2>7. /\ IsFiniteSet(before \cup more)
        /\ Cardinality(before \cup more) <= Reserved(snapshot.good) + Additional(r)
        /\ Cardinality(before \cup more) \in Nat
    <3>1. /\ IsFiniteSet(before \cup more)
          /\ Cardinality(before \cup more) = Cardinality(before) + Cardinality(more) - Cardinality(before \cap more)
      BY <2>4, <2>5, FS_Union
    <3>2. Cardinality(before \cap more) \in Nat /\ Cardinality(before \cup more) \in Nat
      BY <2>5, <3>1, FS_Subset, FS_CardinalityType
    <3> QED
      BY <2>4, <2>5, <3>1, <3>2
  <2>8. Cardinality(Reservations(Runs)') <= Cardinality(before \cup more) /\ Cardinality(Reservations(Runs)') \in Nat
    BY <2>6, <2>7, FS_Subset, FS_CardinalityType
  <2>9. ResourceCapacity \in Nat
    BY SchedulingAssumption DEF ResourceCapacity
  <2> QED
    BY <1>3, <2>4, <2>5, <2>7, <2>8, <2>9 DEF WithinCapacity, Reserved, ResourceCapacity
<1> QED
  BY <1>6, <1>7, <1>8 DEF SchedulingSafe

\* A move gives a run the attempts of its next stage, none of them claimed.
LEMMA MovingSettles ==
  ASSUME SchedulingIInv, NEW r \in Runs, NEW stage, NEW count, Move(r, stage, count),
         stage \in {"provision", "work", "stop", "cleanup", "ended"},
         stageOf[r] # "ended", r \in Live \/ Standing(r) = {},
         UNCHANGED <<creates, cleaned, cached, snapshot>>
  PROVE  Settles(r)
<1>1. Claims(r)' = {} /\ \A q \in Runs \ {r} : Claims(q)' = Claims(q)
  BY DEF Move, Claims, SchedulingIInv, SchedulingTypeOK
<1>2. \A q \in Runs : Standing(q)' = Standing(q)
  BY DEF Standing
<1>3. stageOf'[r] = stage /\ \A q \in Runs \ {r} : stageOf'[q] = stageOf[q]
  BY DEF Move, SchedulingIInv, SchedulingTypeOK
<1>4. stageOf[r] = "absent" => Standing(r) = {}
  BY DEF SchedulingIInv, ClaimsHold
<1> QED
  BY <1>1, <1>2, <1>3, <1>4 DEF Settles

LEMMA SchedulingTypesKept ==
  ASSUME SchedulingIInv, [SchedulingNext]_schedulingVars
  PROVE  SchedulingTypeOK'
<1> USE SchedulingAssumption DEF SchedulingIInv, SchedulingTypeOK, Items, SlotsOf
<1>m. ASSUME NEW r \in Runs, NEW stage, NEW count, count \in Int, Move(r, stage, count),
             stage \in {"provision", "work", "stop", "cleanup", "ended"},
             UNCHANGED <<creates, cleaned, cached, snapshot, staleTries, flaky>>
      PROVE  SchedulingTypeOK'
  <2>1. /\ stageOf' \in [Runs -> {"absent", "provision", "work", "stop", "cleanup", "ended"}]
        /\ born' \in [Runs -> Nat] /\ clock' \in Nat /\ DOMAIN claim' = Runs
    BY <1>m DEF Move
  <2>2. \A q \in Runs : claim'[q] \in [Items(q) -> {"none", "pending", "leased", "held",
                                                  "correcting", "done"}]
    BY <1>m DEF Move
  <2> QED
    BY <1>m, <2>1, <2>2
<1>1. CASE ReadSnapshot
  <2>1. PICK failing \in SUBSET (Live \ cached) :
               /\ flaky + Cardinality(failing) <= MaxFlaky
               /\ flaky' = flaky + Cardinality(failing)
               /\ cached' = cached \cup (Live \ failing)
               /\ snapshot' = [covers |-> Live, good |-> Live \ failing]
    BY <1>1 DEF ReadSnapshot
  <2>2. Live \subseteq Runs /\ Cardinality(failing) \in Nat
    <3>1. Live \subseteq Runs
      BY DEF Live
    <3>2. failing \in SUBSET Runs /\ IsFiniteSet(Runs)
      BY <3>1
    <3> QED
      BY <3>1, <3>2, FS_Subset, FS_CardinalityType
  <2> QED
    BY <1>1, <2>1, <2>2 DEF ReadSnapshot
<1>2. CASE StaleSnapshot
  BY <1>2 DEF StaleSnapshot
<1>3. CASE LeaseNextEligible
  <2>1. CASE UNCHANGED claim
    BY <1>3, <2>1 DEF LeaseNextEligible
  <2>2. ASSUME NEW e \in Candidates,
               claim' = [claim EXCEPT ![e[1]][e[2]] =
                           IF @ = "held" THEN "correcting" ELSE "leased"]
        PROVE  SchedulingTypeOK'
    <3>1. PICK r \in Live : \E i \in Items(r) : e = <<r, i>>
      BY DEF Candidates
    <3>2. PICK i \in Items(r) : e = <<r, i>>
      BY <3>1
    <3>3. r \in Runs
      BY DEF Live
    <3>4. claim' = [claim EXCEPT ![r][i] = IF @ = "held" THEN "correcting" ELSE "leased"]
      BY <2>2, <3>2
    <3>5. /\ DOMAIN claim' = Runs
          /\ \A q \in Runs : claim'[q] \in [Items(q) -> {"none", "pending", "leased", "held",
                                                       "correcting", "done"}]
      BY <3>2, <3>3, <3>4
    <3>6. /\ snapshot' = Nobody /\ staleTries' = 0
          /\ UNCHANGED <<stageOf, born, clock, creates, cleaned, cached, flaky>>
      BY <1>3 DEF LeaseNextEligible
    <3> QED
      BY <3>5, <3>6
  <2> QED
    BY <1>3, <2>1, <2>2 DEF LeaseNextEligible
<1>4. ASSUME NEW r \in Runs, AdmitRun(r) PROVE SchedulingTypeOK'
  <2>1. Move(r, "provision", 1) /\ 1 \in Int
        /\ UNCHANGED <<creates, cleaned, cached, snapshot, staleTries, flaky>>
    BY <1>4 DEF AdmitRun
  <2> HIDE DEF SchedulingTypeOK, SchedulingIInv
  <2> QED
    BY <1>m, <2>1
<1>5. ASSUME NEW r \in Runs, ScheduleEffects(r) PROVE SchedulingTypeOK'
  BY <1>5 DEF ScheduleEffects
<1>6. ASSUME NEW r \in Runs, SettleEffects(r) PROVE SchedulingTypeOK'
  <2>1. ItemCount[r] \in Int /\ 0 \in Int /\ 1 \in Int
    BY SchedulingAssumption
  <2>2. UNCHANGED <<creates, cleaned, cached, snapshot, staleTries, flaky>>
    BY <1>6 DEF SettleEffects
  <2>3. \/ Move(r, "work", ItemCount[r]) \/ Move(r, "ended", 0)
        \/ Move(r, "stop", 1) \/ Move(r, "cleanup", 1)
    BY <1>6 DEF SettleEffects
  <2> HIDE DEF SchedulingTypeOK, SchedulingIInv
  <2> QED
    BY <1>m, <2>1, <2>2, <2>3
<1>7. ASSUME NEW r \in Runs, NEW k \in SlotsOf(r), AnswerCreate(r, k) PROVE SchedulingTypeOK'
  <2>1. PICK answer \in {"made", "refused"} : creates' = [creates EXCEPT ![r][k] = answer]
    BY <1>7 DEF AnswerCreate
  <2>2. /\ DOMAIN creates' = Runs
        /\ \A q \in Runs : creates'[q] \in [SlotsOf(q) -> {"none", "open", "made", "refused"}]
    BY <2>1
  <2>3. UNCHANGED <<stageOf, claim, born, clock, cleaned, cached, snapshot, staleTries, flaky>>
    BY <1>7 DEF AnswerCreate
  <2> QED
    BY <2>2, <2>3
<1>8. ASSUME NEW r \in Runs, NEW k \in SlotsOf(r), CleanSlot(r, k) PROVE SchedulingTypeOK'
  BY <1>8 DEF CleanSlot
<1>9. ASSUME NEW r \in Runs, NEW i \in Items(r), FinishItem(r, i) PROVE SchedulingTypeOK'
  <2>1. CASE Move(r, "stop", 1)
    <3>1. UNCHANGED <<creates, cleaned, cached, snapshot, staleTries, flaky>>
      BY <1>9 DEF FinishItem
    <3>2. 1 \in Int
      OBVIOUS
    <3> HIDE DEF SchedulingTypeOK, SchedulingIInv
    <3> QED
      BY <1>m, <2>1, <3>1, <3>2
  <2>2. ASSUME NEW new \in {"held", "done"}, claim' = [claim EXCEPT ![r][i] = new],
               UNCHANGED <<stageOf, born, clock>>
        PROVE  SchedulingTypeOK'
    BY <1>9, <2>2 DEF FinishItem
  <2> QED
    BY <1>9, <2>1, <2>2 DEF FinishItem
<1>10. CASE UNCHANGED schedulingVars
  BY <1>10 DEF schedulingVars
<1> QED
  BY <1>1, <1>2, <1>3, <1>4, <1>5, <1>6, <1>7, <1>8, <1>9, <1>10
  DEF SchedulingNext, WorkerStep, RunStep

LEMMA SchedulingInductive ==
  ASSUME SchedulingIInv, [SchedulingNext]_schedulingVars
  PROVE  SchedulingIInv'
<1>0. SchedulingTypeOK'
  BY SchedulingTypesKept
<1> SUFFICES ClaimsHold' /\ SchedulingSafe'
  BY <1>0 DEF SchedulingIInv
<1>q. ASSUME UNCHANGED <<stageOf, claim, creates, cleaned>>, ClaimsHold'
      PROVE  ClaimsHold' /\ SchedulingSafe'
  <2>1. /\ Live' = Live
        /\ \A r \in Runs : Claims(r)' = Claims(r) /\ Standing(r)' = Standing(r)
    BY <1>q DEF Live, Claims, Standing
  <2>2. Reservations(Runs)' = Reservations(Runs)
    BY <2>1 DEF Reservations, ReservedSlots, SlotsOf, Live
  <2> QED
    BY <1>q, <2>1, <2>2 DEF SchedulingIInv, SchedulingSafe, WithinCapacity, Reserved,
       ResourceCapacity, OneClaimPerSlot, Slot, Live
<1>1. CASE ReadSnapshot
  <2>1. PICK failing \in SUBSET (Live \ cached) :
               /\ cached' = cached \cup (Live \ failing)
               /\ snapshot' = [covers |-> Live, good |-> Live \ failing]
    BY <1>1 DEF ReadSnapshot
  <2>2. UNCHANGED <<stageOf, claim, creates, cleaned>>
    BY <1>1 DEF ReadSnapshot
  <2>3. ClaimsHold'
    <3>1. Live' = Live /\ \A r \in Runs : Claims(r)' = Claims(r) /\ Standing(r)' = Standing(r)
      BY <2>2 DEF Live, Claims, Standing
    <3> QED
      BY <2>1, <2>2, <3>1 DEF SchedulingIInv, ClaimsHold
  <2> QED
    BY <1>q, <2>2, <2>3
<1>2. CASE StaleSnapshot
  <2>1. UNCHANGED <<stageOf, claim, creates, cleaned, cached>> /\ snapshot' = Nobody
    BY <1>2 DEF StaleSnapshot
  <2>2. ClaimsHold'
    <3>1. Live' = Live /\ \A r \in Runs : Claims(r)' = Claims(r) /\ Standing(r)' = Standing(r)
      BY <2>1 DEF Live, Claims, Standing
    <3> QED
      BY <2>1, <3>1 DEF SchedulingIInv, ClaimsHold
  <2> QED
    BY <1>q, <2>1, <2>2
<1>3. CASE LeaseNextEligible
  <2>1. UNCHANGED <<stageOf, creates, cleaned, cached>> /\ snapshot' = Nobody /\ snapshot # Nobody
    BY <1>3 DEF LeaseNextEligible
  <2>2. CASE UNCHANGED claim
    <3>1. Live' = Live /\ \A r \in Runs : Claims(r)' = Claims(r) /\ Standing(r)' = Standing(r)
      BY <2>1, <2>2 DEF Live, Claims, Standing
    <3>2. ClaimsHold'
      BY <2>1, <3>1 DEF SchedulingIInv, ClaimsHold
    <3> QED
      BY <1>q, <2>1, <2>2, <3>2
  <2>3. ASSUME NEW e \in Candidates,
               claim' = [claim EXCEPT ![e[1]][e[2]] =
                           IF @ = "held" THEN "correcting" ELSE "leased"]
        PROVE  ClaimsHold' /\ SchedulingSafe'
    BY <2>1, <2>3, LeasingIsSafe
  <2> QED
    BY <1>3, <2>2, <2>3 DEF LeaseNextEligible
<1>4. ASSUME NEW r \in Runs, AdmitRun(r) PROVE Settles(r)
  <2>1. Standing(r) = {}
    BY <1>4 DEF AdmitRun, SchedulingIInv, ClaimsHold
  <2> QED
    BY <1>4, <2>1, MovingSettles DEF AdmitRun
<1>5. ASSUME NEW r \in Runs, ScheduleEffects(r) PROVE Settles(r)
  <2>1. Claims(r)' = Claims(r) /\ Claims(r) # {} /\ \A q \in Runs \ {r} : Claims(q)' = Claims(q)
    <3>1. 0 \in Items(r)
      BY SchedulingAssumption DEF Items
    <3> QED
      BY <1>5, <3>1 DEF ScheduleEffects, Claims, SchedulingIInv, SchedulingTypeOK
  <2>2. \A q \in Runs \ {r} : Standing(q)' = Standing(q)
    BY <1>5 DEF ScheduleEffects, Standing, SchedulingIInv, SchedulingTypeOK
  <2>3. Standing(r)' \subseteq SlotsOf(r)
    BY DEF Standing, SlotsOf
  <2> QED
    BY <1>5, <2>1, <2>2, <2>3 DEF ScheduleEffects, Settles, Live
<1>6. ASSUME NEW r \in Runs, SettleEffects(r) PROVE Settles(r)
  <2>1. r \in Live /\ stageOf[r] # "ended"
    BY <1>6 DEF SettleEffects, Live
  <2> QED
    BY <1>6, <2>1, MovingSettles DEF SettleEffects
<1>7. ASSUME NEW r \in Runs, NEW k \in SlotsOf(r), AnswerCreate(r, k) PROVE Settles(r)
  <2>1. \A q \in Runs : Claims(q)' = Claims(q)
    BY <1>7 DEF AnswerCreate, Claims
  <2>2. Standing(r)' \subseteq Standing(r) /\ \A q \in Runs \ {r} : Standing(q)' = Standing(q)
    BY <1>7 DEF AnswerCreate, Standing, SchedulingIInv, SchedulingTypeOK
  <2>3. Standing(r) \subseteq SlotsOf(r)
    BY DEF Standing
  <2>4. UNCHANGED stageOf /\ stageOf[r] # "absent" /\ UNCHANGED <<snapshot, cached>> /\ r \in Live
    BY <1>7 DEF AnswerCreate, Live
  <2> QED
    BY <2>1, <2>2, <2>3, <2>4 DEF Settles
<1>8. ASSUME NEW r \in Runs, NEW k \in SlotsOf(r), CleanSlot(r, k) PROVE Settles(r)
  <2>1. \A q \in Runs : Claims(q)' = Claims(q)
    BY <1>8 DEF CleanSlot, Claims
  <2>2. Standing(r)' \subseteq Standing(r) /\ \A q \in Runs \ {r} : Standing(q)' = Standing(q)
    BY <1>8 DEF CleanSlot, Standing, SchedulingIInv, SchedulingTypeOK
  <2>3. Standing(r) \subseteq SlotsOf(r)
    BY DEF Standing
  <2>4. UNCHANGED stageOf /\ stageOf[r] # "absent" /\ UNCHANGED <<snapshot, cached>> /\ r \in Live
    BY <1>8 DEF CleanSlot, Live
  <2> QED
    BY <2>1, <2>2, <2>3, <2>4 DEF Settles
<1>9. ASSUME NEW r \in Runs, NEW i \in Items(r), FinishItem(r, i) PROVE Settles(r)
  <2>1. r \in Live /\ stageOf[r] \notin {"ended", "absent"}
        /\ UNCHANGED <<creates, cleaned, cached, snapshot>>
    BY <1>9 DEF FinishItem, Live
  <2>2. CASE Move(r, "stop", 1)
    BY <2>1, <2>2, MovingSettles
  <2>3. CASE UNCHANGED stageOf /\ \E new \in {"held", "done"} : claim' = [claim EXCEPT ![r][i] = new]
    <3>1. Claims(r)' \subseteq Claims(r) /\ \A q \in Runs \ {r} : Claims(q)' = Claims(q)
      BY <1>9, <2>3 DEF FinishItem, Claims, SchedulingIInv, SchedulingTypeOK
    <3>2. \A q \in Runs : Standing(q)' = Standing(q)
      BY <2>1 DEF Standing
    <3> QED
      BY <2>1, <2>3, <3>1, <3>2 DEF Settles
  <2> QED
    BY <1>9, <2>2, <2>3 DEF FinishItem
<1>10. CASE UNCHANGED schedulingVars
  <2>1. Live' = Live /\ \A r \in Runs : Claims(r)' = Claims(r) /\ Standing(r)' = Standing(r)
    BY <1>10 DEF Live, Claims, Standing, schedulingVars
  <2>2. ClaimsHold'
    BY <1>10, <2>1 DEF SchedulingIInv, ClaimsHold, schedulingVars
  <2> QED
    BY <1>q, <1>10, <2>2 DEF schedulingVars
<1>11. ASSUME NEW r \in Runs, Settles(r) PROVE ClaimsHold' /\ SchedulingSafe'
  BY <1>11, SettlingIsSafe
<1> QED
  BY <1>1, <1>2, <1>3, <1>4, <1>5, <1>6, <1>7, <1>8, <1>9, <1>10, <1>11
  DEF SchedulingNext, WorkerStep, RunStep

LEMMA SchedulingInvariance == SchedulingSpec => []SchedulingIInv
<1>1. SchedulingIInv /\ [SchedulingNext]_schedulingVars => SchedulingIInv'
  BY SchedulingInductive
<1> QED
  BY <1>1, SchedulingInitially, PTL DEF SchedulingSpec

\* The rows of the runs and what the worker knows of their manifests keep their
\* types; a snapshot knows the pools of runs that it covers only.
THEOREM SchedulingTypeCorrect == SchedulingSpec => []SchedulingTypeOK
BY SchedulingInvariance, PTL DEF SchedulingIInv

\* For any runs, pools, widths and capacity: the sandboxes that stand or may still be
\* created stay within what the machine and the provider can bear, and two attempts
\* that are claimed at once have a sandbox each.
THEOREM SchedulingIsSafe == SchedulingSpec => []SchedulingSafe
BY SchedulingInvariance, PTL DEF SchedulingIInv

-----------------------------------------------------------------------------
(***************************************************************************)
(* For any checks and budget: a wait is confirmed only on checks that      *)
(* were green and rejected only when the budget was spent.  WaitHolds is   *)
(* what the two answers rest on: the runs that were seen and the failures  *)
(* that are kept.                                                          *)
(***************************************************************************)

\* What the continuation and the settlement of a wait rest on: a run that is there
\* has a number, every failure that is kept was seen, a check that passed is green.
WaitHolds ==
    /\ \A c \in Checks :
        /\ latest[c].state # "missing" => latest[c].id > 0
        /\ kept[c].failed \subseteq red[c]
        /\ kept[c].passed => c \in green
    /\ settled # "rejected" => cause = "none"

WaitIInv == WaitTypeOK /\ WaitHolds /\ ConfirmedWasGreen /\ BudgetWasSpent

LEMMA ChecksAreFinite == Checks \subseteq Nat /\ IsFiniteSet(Checks)
<1>1. Len(RequiredChecks) \in Nat /\ Checks = 1..Len(RequiredChecks)
  BY RequiredAssumption DEF Checks
<1>2. 1 \in Int /\ Len(RequiredChecks) \in Int
  BY <1>1
<1> QED
  BY <1>1, <1>2, FS_Interval

LEMMA Disjunction == ASSUME NEW a, NEW b PROVE (a \/ b) \in BOOLEAN
OBVIOUS

LEMMA WaitInitially == WaitInit => WaitIInv
<1> SUFFICES ASSUME WaitInit PROVE WaitIInv
  OBVIOUS
<1> USE DEF WaitInit
<1>1. latest \in [Checks -> [id : 0..MaxRuns, state : Observed]]
  BY WaitBoundsAssumption DEF Observed
<1>2. statuses \in [RequiredStatuses -> Observed]
  BY DEF Observed
<1>3. kept \in [Checks -> [failed : SUBSET (1..MaxRuns), age : 0..Window, passed : BOOLEAN]]
  BY WaitBoundsAssumption
<1>4. red \in [Checks -> SUBSET (1..MaxRuns)]
  OBVIOUS
<1>5. WaitTypeOK
  BY <1>1, <1>2, <1>3, <1>4 DEF WaitTypeOK
<1> QED
  BY <1>5 DEF WaitIInv, WaitHolds, ConfirmedWasGreen, BudgetWasSpent

\* What a reconciliation makes of the continuation.
LEMMA CarriedIs ==
  ASSUME WaitIInv, NEW seen \in ChecksRead
  PROVE  /\ Carried(seen) \in [Checks -> [failed : SUBSET (1..MaxRuns), age : 0..Window,
                                          passed : BOOLEAN]]
         /\ \A c \in Checks :
              /\ Counted(seen)[c].failed = kept[c].failed \cup
                     (IF seen[c] = "failure" THEN {latest[c].id} ELSE {})
              /\ Carried(seen)[c].failed = Counted(seen)[c].failed
              /\ Carried(seen)[c].passed => kept[c].passed \/ seen[c] = "success"
<1>0. kept \in [Checks -> [failed : SUBSET (1..MaxRuns), age : 0..Window, passed : BOOLEAN]]
  BY DEF WaitIInv, WaitTypeOK
<1>1. ASSUME NEW c \in Checks
      PROVE  /\ Counted(seen)[c] \in [failed : SUBSET (1..MaxRuns), age : 0..Window, passed : BOOLEAN]
             /\ Counted(seen)[c].failed = kept[c].failed \cup
                     (IF seen[c] = "failure" THEN {latest[c].id} ELSE {})
             /\ Counted(seen)[c].passed = kept[c].passed
  <2>1. kept[c] \in [failed : SUBSET (1..MaxRuns), age : 0..Window, passed : BOOLEAN]
    BY <1>0
  <2>2. seen[c] = "failure" => latest[c].id \in 1..MaxRuns
    <3>1. seen[c] = "failure" => latest[c].state = "failure"
      BY DEF ChecksRead, Unread
    <3>2. latest[c].id \in 0..MaxRuns
      BY DEF WaitIInv, WaitTypeOK
    <3> QED
      BY <3>1, <3>2, WaitBoundsAssumption DEF WaitIInv, WaitHolds
  <2>3. Counted(seen)[c] =
          IF seen[c] = "failure"
          THEN [failed |-> kept[c].failed \cup {latest[c].id}, age |-> kept[c].age,
                passed |-> kept[c].passed]
          ELSE kept[c]
    BY DEF Counted
  <2>4. CASE seen[c] = "failure"
    <3>1. kept[c].failed \cup {latest[c].id} \in SUBSET (1..MaxRuns)
      BY <2>1, <2>2, <2>4
    <3> QED
      BY <2>1, <2>3, <2>4, <3>1
  <2>5. CASE seen[c] # "failure"
    BY <2>1, <2>3, <2>5
  <2> QED
    BY <2>4, <2>5
<1>2. ASSUME NEW c \in Checks
      PROVE  /\ Carried(seen)[c] \in [failed : SUBSET (1..MaxRuns), age : 0..Window, passed : BOOLEAN]
             /\ Carried(seen)[c].failed = Counted(seen)[c].failed
             /\ Carried(seen)[c].passed => kept[c].passed \/ seen[c] = "success"
  <2> DEFINE k == Counted(seen)[c]
             p == k.passed \/ (HasFailed(kept, c) /\ seen[c] = "success")
  <2>1. k \in [failed : SUBSET (1..MaxRuns), age : 0..Window, passed : BOOLEAN]
    BY <1>1
  <2>2. p \in BOOLEAN
    BY Disjunction
  <2>3. Carried(seen)[c] = [k EXCEPT !.passed = p]
    BY DEF Carried
  <2>4. p => kept[c].passed \/ seen[c] = "success"
    BY <1>1
  <2> HIDE DEF k, p
  <2>5. /\ [k EXCEPT !.passed = p] \in [failed : SUBSET (1..MaxRuns), age : 0..Window, passed : BOOLEAN]
        /\ [k EXCEPT !.passed = p].failed = k.failed /\ [k EXCEPT !.passed = p].passed = p
    BY <2>1, <2>2
  <2> QED
    BY <2>3, <2>4, <2>5 DEF k
<1>3. Carried(seen) = [c \in Checks |-> Carried(seen)[c]]
  BY DEF Carried
<1> QED
  BY <1>1, <1>2, <1>3

\* Failures that are kept are among those that were seen.
LEMMA SeenFailures ==
  ASSUME NEW seenRed \in [Checks -> SUBSET (1..MaxRuns)], NEW k, NEW c \in Checks,
         \A d \in Checks : k[d].failed \subseteq seenRed[d]
  PROVE  Cardinality(FailuresOf(k, c)) <= Cardinality(UNION {{d} \X seenRed[d] : d \in SameName(c)})
<1> DEFINE runs == UNION {{d} \X seenRed[d] : d \in SameName(c)}
<1>1. FailuresOf(k, c) \subseteq runs
  BY DEF FailuresOf, SameName
<1>2. runs \subseteq Checks \X (1..MaxRuns)
  BY DEF SameName
<1>3. IsFiniteSet(Checks \X (1..MaxRuns))
  <2>1. IsFiniteSet(1..MaxRuns)
    BY WaitBoundsAssumption, FS_Interval
  <2> QED
    BY <2>1, ChecksAreFinite, FS_Product
<1> HIDE DEF runs
<1>4. IsFiniteSet(runs)
  BY <1>2, <1>3, FS_Subset
<1> QED
  BY <1>1, <1>4, FS_Subset DEF runs

LEMMA ReconcileKeeps ==
  ASSUME WaitIInv, Reconcile
  PROVE  /\ WaitIInv'
         /\ settled' = "open" => \A c \in Checks : kept[c].failed \subseteq kept'[c].failed
<1> USE DEF WaitIInv
<1>1. settled = "open" /\ cause = "none" /\ UNCHANGED <<latest, statuses>>
  BY DEF Reconcile, WaitHolds
<1>2. CASE Expire
  <2>1. settled' = "rejected" /\ cause' = "window" /\ UNCHANGED <<kept, green, red>>
    BY <1>2 DEF Expire, RejectWait
  <2> QED
    BY <1>1, <2>1 DEF WaitTypeOK, WaitHolds, ConfirmedWasGreen, BudgetWasSpent, Checks, SameName
<1>3. ASSUME NEW seen \in ChecksRead, NEW stated \in StatusesRead,
             Judge(seen, stated), Remember(seen, stated)
      PROVE  /\ WaitIInv'
             /\ settled' = "open" => \A c \in Checks : kept[c].failed \subseteq kept'[c].failed
  <2>1. /\ Carried(seen) \in [Checks -> [failed : SUBSET (1..MaxRuns), age : 0..Window,
                                          passed : BOOLEAN]]
        /\ \A c \in Checks :
              /\ Counted(seen)[c].failed = kept[c].failed \cup
                     (IF seen[c] = "failure" THEN {latest[c].id} ELSE {})
              /\ Carried(seen)[c].failed = Counted(seen)[c].failed
              /\ Carried(seen)[c].passed => kept[c].passed \/ seen[c] = "success"
    BY CarriedIs
  <2>2. /\ green \subseteq green' /\ green' \subseteq Checks \cup RequiredStatuses
        /\ \A c \in Checks : seen[c] = "success" => c \in green'
        /\ \A s \in RequiredStatuses : stated[s] = "success" => s \in green'
    BY <1>3 DEF Remember, WaitTypeOK
  <2>3. /\ red' \in [Checks -> SUBSET (1..MaxRuns)]
        /\ \A c \in Checks : Counted(seen)[c].failed \subseteq red'[c] /\ red[c] \subseteq red'[c]
    <3>1. ASSUME NEW c \in Checks, seen[c] = "failure" PROVE latest[c].id \in 1..MaxRuns
      <4>1. latest[c].state = "failure"
        BY <3>1 DEF ChecksRead, Unread
      <4>2. latest[c].id \in 0..MaxRuns
        BY DEF WaitTypeOK
      <4> QED
        BY <4>1, <4>2, WaitBoundsAssumption DEF WaitHolds
    <3>2. red' = [c \in Checks |-> IF seen[c] = "failure" THEN red[c] \cup {latest[c].id} ELSE red[c]]
      BY <1>3 DEF Remember
    <3>3. red \in [Checks -> SUBSET (1..MaxRuns)] /\ \A c \in Checks : kept[c].failed \subseteq red[c]
      BY DEF WaitTypeOK, WaitHolds
    <3> QED
      BY <2>1, <3>1, <3>2, <3>3
  <2>4. ASSUME NEW why \in {"status", "budget", "window"}, RejectWait(why),
               why = "budget" => BudgetWasSpent'
        PROVE  WaitIInv' /\ settled' # "open"
    <3>1. settled' = "rejected" /\ cause' = why /\ UNCHANGED kept
      BY <2>4 DEF RejectWait
    <3>2. WaitTypeOK'
      BY <1>1, <2>2, <2>3, <3>1 DEF WaitTypeOK, Checks, Observed
    <3>3. WaitHolds'
      BY <1>1, <2>1, <2>2, <2>3, <3>1 DEF WaitHolds, Checks
    <3> QED
      BY <2>4, <3>1, <3>2, <3>3 DEF ConfirmedWasGreen, BudgetWasSpent
  <2>5. ASSUME NEW k, k \in {kept, Carried(seen)}, HoldWait(k)
        PROVE  /\ WaitIInv'
               /\ \A c \in Checks : kept[c].failed \subseteq kept'[c].failed
    <3>1. kept' = k /\ UNCHANGED <<settled, cause>>
      BY <2>5 DEF HoldWait
    <3>2. kept' \in [Checks -> [failed : SUBSET (1..MaxRuns), age : 0..Window, passed : BOOLEAN]]
      BY <2>1, <2>5, <3>1 DEF WaitTypeOK
    <3>3. \A c \in Checks : /\ kept[c].failed \subseteq k[c].failed
                            /\ k[c].failed \subseteq red'[c]
                            /\ k[c].passed => c \in green'
      BY <2>1, <2>2, <2>3, <2>5 DEF WaitHolds
    <3>4. WaitTypeOK'
      BY <1>1, <2>2, <2>3, <3>1, <3>2 DEF WaitTypeOK, Checks, Observed
    <3>5. WaitHolds'
      BY <1>1, <3>1, <3>3 DEF WaitHolds, Checks
    <3> QED
      BY <1>1, <3>1, <3>3, <3>4, <3>5 DEF ConfirmedWasGreen, BudgetWasSpent, Checks
  <2>6. CASE RejectWait("status")
    BY <2>4, <2>6
  <2>7. ASSUME NEW first \in RejectedBy(Counted(seen)),
               RejectWait(IF BudgetExhausted(UpTo(Counted(seen), first), first)
                           THEN "budget" ELSE "window")
        PROVE  WaitIInv' /\ settled' # "open"
    <3>1. CASE BudgetExhausted(UpTo(Counted(seen), first), first)
      <4> DEFINE upto == UpTo(Counted(seen), first)
                 runs == UNION {{d} \X red'[d] : d \in SameName(first)}
      <4>1. first \in Checks
        BY DEF RejectedBy, Awaited
      <4>2. \A d \in Checks : upto[d].failed \subseteq red'[d]
        BY <2>1, <2>3 DEF UpTo, WaitHolds
      <4>3. Cardinality(FailuresOf(upto, first)) >= FailureLimit
        BY <3>1 DEF BudgetExhausted
      <4>4. Cardinality(FailuresOf(upto, first)) <= Cardinality(runs)
        <5> HIDE DEF upto
        <5> QED
          BY <2>3, <4>1, <4>2, SeenFailures
      <4>5. Cardinality(FailuresOf(upto, first)) \in Nat /\ Cardinality(runs) \in Nat
        <5>1. \A c \in Checks : FailuresOf(upto, c) \subseteq Checks \X (1..MaxRuns)
          BY <2>3, <4>2 DEF FailuresOf, SameName
        <5>2. runs \subseteq Checks \X (1..MaxRuns)
          BY <2>3 DEF SameName
        <5>3. IsFiniteSet(Checks \X (1..MaxRuns))
          <6>1. IsFiniteSet(1..MaxRuns)
            BY WaitBoundsAssumption, FS_Interval
          <6> QED
            BY <6>1, ChecksAreFinite, FS_Product
        <5> HIDE DEF upto, runs
        <5>4. IsFiniteSet(FailuresOf(upto, first)) /\ IsFiniteSet(runs)
          BY <4>1, <5>1, <5>2, <5>3, FS_Subset
        <5> QED
          BY <5>4, FS_CardinalityType
      <4>6. Cardinality(runs) >= FailureLimit
        <5> HIDE DEF upto, runs
        <5> QED
          BY <4>3, <4>4, <4>5, WaitBoundsAssumption
      <4>7. BudgetWasSpent'
        BY <4>1, <4>6 DEF BudgetWasSpent, SameName, Checks
      <4> QED
        BY <2>4, <2>7, <3>1, <4>7
    <3>2. CASE ~BudgetExhausted(UpTo(Counted(seen), first), first)
      BY <2>4, <2>7, <3>2
    <3> QED
      BY <3>1, <3>2
  <2>8. CASE HoldWait(Carried(seen)) \/ HoldWait(kept)
    BY <2>5, <2>8
  <2>9. CASE /\ ConfirmWait /\ ~Indeterminate(seen, stated)
             /\ ~Incomplete(Carried(seen), seen, stated)
             /\ ~ \E s \in RequiredStatuses : stated[s] = "failure"
    <3>1. settled' = "confirmed" /\ UNCHANGED <<kept, cause>>
      BY <2>9 DEF ConfirmWait
    <3>2. ASSUME NEW c \in Checks PROVE c \in green'
      <4>1. seen[c] \in Observed
        BY DEF ChecksRead, Unread, Observed, WaitTypeOK
      <4>2. seen[c] = "success" \/ Carried(seen)[c].passed
        BY <2>9, <4>1 DEF Incomplete, Indeterminate, Observed
      <4> QED
        BY <2>1, <2>2, <4>2 DEF WaitHolds
    <3>3. ASSUME NEW s \in RequiredStatuses PROVE s \in green'
      <4>1. stated[s] \in Observed
        BY DEF StatusesRead, Unread, Observed, WaitTypeOK
      <4> QED
        BY <2>2, <2>9, <4>1 DEF Incomplete, Indeterminate, Observed
    <3>4. ConfirmedWasGreen'
      BY <2>2, <3>2, <3>3 DEF ConfirmedWasGreen, Checks
    <3>5. WaitTypeOK'
      BY <1>1, <2>2, <2>3, <3>1 DEF WaitTypeOK, Checks, Observed
    <3>6. WaitHolds'
      BY <1>1, <2>2, <2>1, <2>3, <3>1 DEF WaitHolds, Checks
    <3> QED
      BY <1>1, <3>1, <3>4, <3>5, <3>6 DEF BudgetWasSpent
  <2> QED
    BY <1>3, <2>5, <2>6, <2>7, <2>8, <2>9 DEF Judge
<1> QED
  BY <1>2, <1>3 DEF Reconcile

LEMMA WaitStepKeeps ==
  ASSUME WaitIInv, [WaitNext]_waitVars
  PROVE  /\ WaitIInv'
         /\ settled' = "open" => \A c \in Checks : kept[c].failed \subseteq kept'[c].failed
<1> USE DEF WaitIInv
<1>a. ASSUME UNCHANGED kept, WaitKept, WaitTypeOK',
             \A c \in Checks : latest'[c].state # "missing" => latest'[c].id > 0
      PROVE  /\ WaitIInv'
             /\ settled' = "open" => \A c \in Checks : kept[c].failed \subseteq kept'[c].failed
  BY <1>a DEF WaitKept, WaitHolds, ConfirmedWasGreen, BudgetWasSpent, Checks, SameName
<1>1. ASSUME NEW c \in Checks, StartCheckRun(c)
      PROVE  /\ WaitTypeOK'
             /\ \A d \in Checks : latest'[d].state # "missing" => latest'[d].id > 0
  <2>1. latest[c].id \in 0..MaxRuns /\ latest[c].id < MaxRuns
    BY <1>1 DEF StartCheckRun, WaitTypeOK
  <2>2. latest[c].id + 1 \in 0..MaxRuns /\ latest[c].id + 1 > 0
    BY <2>1, WaitBoundsAssumption
  <2>3. latest' = [latest EXCEPT ![c] = [id |-> latest[c].id + 1, state |-> "pending"]]
    BY <1>1 DEF StartCheckRun
  <2>4. latest' \in [Checks -> [id : 0..MaxRuns, state : Observed]]
    BY <2>2, <2>3 DEF WaitTypeOK, Observed
  <2>5. \A d \in Checks : latest'[d].state # "missing" => latest'[d].id > 0
    BY <2>2, <2>3 DEF WaitTypeOK, WaitHolds
  <2> QED
    BY <1>1, <2>4, <2>5 DEF StartCheckRun, WaitKept, WaitTypeOK, Checks, Observed
<1>2. ASSUME NEW c \in Checks, EndCheckRun(c)
      PROVE  /\ WaitTypeOK'
             /\ \A d \in Checks : latest'[d].state # "missing" => latest'[d].id > 0
  <2>1. PICK s \in {"success", "failure", "unknown"} : latest' = [latest EXCEPT ![c].state = s]
    BY <1>2 DEF EndCheckRun
  <2>2. latest' \in [Checks -> [id : 0..MaxRuns, state : Observed]]
    BY <2>1 DEF WaitTypeOK, Observed
  <2>3. latest[c].state = "pending" /\ latest[c].id > 0
    BY <1>2 DEF EndCheckRun, WaitHolds
  <2>4. \A d \in Checks : latest'[d].state # "missing" => latest'[d].id > 0
    BY <2>1, <2>3 DEF WaitTypeOK, WaitHolds
  <2> QED
    BY <1>2, <2>2, <2>4 DEF EndCheckRun, WaitKept, WaitTypeOK, Checks, Observed
<1>3. ASSUME NEW s \in RequiredStatuses, MoveStatus(s)
      PROVE  /\ WaitTypeOK'
             /\ \A d \in Checks : latest'[d].state # "missing" => latest'[d].id > 0
  <2>1. PICK t \in {"pending", "success", "failure"} : statuses' = [statuses EXCEPT ![s] = t]
    BY <1>3 DEF MoveStatus
  <2>2. statuses' \in [RequiredStatuses -> Observed]
    BY <2>1 DEF WaitTypeOK, Observed
  <2> QED
    BY <1>3, <2>2 DEF MoveStatus, WaitKept, WaitTypeOK, WaitHolds, Checks, Observed
<1>4. ASSUME Tick
      PROVE  /\ WaitIInv'
             /\ \A c \in Checks : kept[c].failed \subseteq kept'[c].failed
  <2>1. kept' = [c \in Checks |->
          IF HasFailed(kept, c) /\ kept[c].age < Window
          THEN [kept[c] EXCEPT !.age = @ + 1] ELSE kept[c]]
    BY <1>4 DEF Tick
  <2>2. ASSUME NEW c \in Checks
        PROVE  /\ kept'[c] \in [failed : SUBSET (1..MaxRuns), age : 0..Window, passed : BOOLEAN]
               /\ kept'[c].failed = kept[c].failed /\ kept'[c].passed = kept[c].passed
    <3>1. kept[c] \in [failed : SUBSET (1..MaxRuns), age : 0..Window, passed : BOOLEAN]
      BY DEF WaitTypeOK
    <3>2. kept[c].age < Window => kept[c].age + 1 \in 0..Window
      BY <3>1, WaitBoundsAssumption
    <3> QED
      BY <2>1, <3>1, <3>2
  <2>3. kept' \in [Checks -> [failed : SUBSET (1..MaxRuns), age : 0..Window, passed : BOOLEAN]]
    BY <2>1, <2>2
  <2>4. WaitTypeOK'
    BY <1>4, <2>3 DEF Tick, WaitKept, WaitTypeOK, Checks, Observed
  <2> QED
    BY <1>4, <2>2, <2>4 DEF Tick, WaitKept, WaitHolds, ConfirmedWasGreen, BudgetWasSpent, Checks, SameName
<1>5. CASE UNCHANGED waitVars
  <2>1. /\ UNCHANGED <<kept, latest, statuses, settled, cause, green, red>>
        /\ WaitTypeOK' /\ WaitKept
    BY <1>5 DEF waitVars, WaitKept, WaitTypeOK
  <2>2. \A c \in Checks : latest'[c].state # "missing" => latest'[c].id > 0
    BY <2>1 DEF WaitHolds
  <2> HIDE DEF WaitIInv
  <2> QED
    BY <1>a, <2>1, <2>2
<1>6. ASSUME NEW c \in Checks, StartCheckRun(c) \/ EndCheckRun(c) PROVE UNCHANGED kept /\ WaitKept
  BY <1>6 DEF StartCheckRun, EndCheckRun
<1>7. ASSUME NEW s \in RequiredStatuses, MoveStatus(s) PROVE UNCHANGED kept /\ WaitKept
  BY <1>7 DEF MoveStatus
<1> HIDE DEF WaitIInv
<1> QED
  BY <1>a, <1>1, <1>2, <1>3, <1>4, <1>5, <1>6, <1>7, ReconcileKeeps DEF WaitNext

LEMMA WaitInvariance == WaitSpec => []WaitIInv
BY WaitInitially, WaitStepKeeps, PTL DEF WaitSpec

\* The observations, the continuation and the settlement keep their types: counts,
\* ages and failures stay within the policy.
THEOREM WaitTypeCorrect == WaitSpec => []WaitTypeOK
BY WaitInvariance, PTL DEF WaitIInv

\* For any policy of checks and statuses, window, limit and order of reads: what is
\* confirmed was green, a budget that rejects was spent by runs that failed, and a
\* failure that was seen is kept while the wait is open.
THEOREM WaitIsSafe == WaitSpec => WaitSafe
<1>1. WaitIInv => ConfirmedWasGreen /\ BudgetWasSpent
  BY DEF WaitIInv
<1>2. WaitIInv /\ [WaitNext]_waitVars =>
        [settled' = "open" => \A c \in Checks : kept[c].failed \subseteq kept'[c].failed]_waitVars
  BY WaitStepKeeps
<1> QED
  BY <1>1, <1>2, WaitInvariance, PTL DEF WaitSpec, WaitSafe, FailureRemembered

-----------------------------------------------------------------------------
(***************************************************************************)
(* For any publications: a publication is confirmed only on a pull         *)
(* request that was open with the head it pushed.  PullsHold says what the *)
(* pull requests at the provider have been.                                *)
(***************************************************************************)

\* A pull request that exists has a head, and while it carries what the run wrote it
\* was open with that head.
PullsHold ==
    \A i \in Turns : pulls[i].state # "none" =>
        /\ pulls[i].head \in Heads
        /\ pulls[i].exact => pulls[i].head \in opened

PublicationIInv == PublicationTypeOK /\ PullsHold /\ ConfirmedWasReviewable

Pulls == [head : Heads \cup {Nothing}, exact : BOOLEAN,
          state : {"none", "open", "closed", "merged"}]

LEMMA PublicationInitially == PublicationInit => PublicationIInv
<1> SUFFICES ASSUME PublicationInit PROVE PublicationIInv
  OBVIOUS
<1> USE PublicationAssumption DEF PublicationInit
<1>1. hasBase \in BOOLEAN /\ hasParent \in BOOLEAN /\ fenced \in BOOLEAN
  BY Zenon
<1>2. pulls \in [Turns -> Pulls]
  BY DEF NoPull, Pulls
<1>3. ends \in [Turns -> [{"push", "pull"} -> {"open", "confirmed", "rejected"}]]
  OBVIOUS
<1>4. turn \in Turns /\ anchor \in 0..Publications /\ ref \in Heads \cup {Nothing}
  BY DEF Turns
<1>5. PublicationTypeOK
  BY <1>1, <1>2, <1>3, <1>4 DEF PublicationTypeOK, Pulls
<1>6. PullsHold /\ ConfirmedWasReviewable
  BY DEF PullsHold, ConfirmedWasReviewable, NoPull
<1> QED
  BY <1>5, <1>6 DEF PublicationIInv

\* Pull requests follow the branch they are of.
LEMMA Following ==
  ASSUME PublicationIInv, NEW head \in Heads, SetRef(head)
  PROVE  /\ ref' = head /\ pulls' \in [Turns -> Pulls] /\ PullsHold'
         /\ opened \subseteq opened' /\ opened' \subseteq Heads
         /\ UNCHANGED <<hasBase, inBase, hasParent>>
<1> USE DEF PublicationIInv
<1>1. /\ ref' = head /\ pulls' = Follow(head) /\ Seen(Follow(head))
      /\ UNCHANGED <<hasBase, inBase, hasParent>>
  BY DEF SetRef
<1>2. pulls \in [Turns -> Pulls]
  BY DEF PublicationTypeOK, Pulls
<1>3. ASSUME NEW i \in Turns
      PROVE  /\ Follow(head)[i] \in Pulls
             /\ Follow(head)[i].state = pulls[i].state /\ Follow(head)[i].exact = pulls[i].exact
             /\ Follow(head)[i].head = IF IsOpen(i) THEN head ELSE pulls[i].head
  <2>1. pulls[i] \in Pulls
    BY <1>2
  <2>2. Follow(head)[i] = IF IsOpen(i) THEN [pulls[i] EXCEPT !.head = head] ELSE pulls[i]
    BY DEF Follow
  <2> QED
    BY <2>1, <2>2 DEF Pulls
<1>4. Follow(head) \in [Turns -> Pulls]
  BY <1>3 DEF Follow
<1>5. opened' = opened \cup
        {Follow(head)[i].head : i \in {j \in Turns : Follow(head)[j].state = "open" /\ Follow(head)[j].exact}}
  BY <1>1 DEF Seen
<1>6. opened \subseteq opened' /\ opened' \subseteq Heads
  BY <1>3, <1>5 DEF PublicationTypeOK, IsOpen
<1>7. PullsHold'
  <2>1. ASSUME NEW i \in Turns, Follow(head)[i].state # "none"
        PROVE  /\ Follow(head)[i].head \in Heads
               /\ Follow(head)[i].exact => Follow(head)[i].head \in opened'
    BY <1>3, <1>5, <1>6, <2>1 DEF IsOpen, PullsHold
  <2> QED
    BY <1>1, <2>1 DEF PullsHold, Turns, Heads
<1> QED
  BY <1>1, <1>4, <1>6, <1>7

\* What others do to one pull request or to all of them: it stays what it was opened
\* for, or is not what the run wrote any more.
Handled(i) ==
    \/ pulls'[i] = pulls[i]
    \/ /\ IsOpen(i) /\ pulls'[i] \in Pulls /\ pulls'[i].head = pulls[i].head
       /\ pulls'[i].exact => pulls[i].exact

LEMMA HandlingPulls ==
  ASSUME PublicationIInv, \A i \in Turns : Handled(i), pulls' = [i \in Turns |-> pulls'[i]],
         UNCHANGED opened
  PROVE  pulls' \in [Turns -> Pulls] /\ PullsHold'
<1>1. pulls \in [Turns -> Pulls]
  BY DEF PublicationIInv, PublicationTypeOK, Pulls
<1>2. \A i \in Turns : pulls'[i] \in Pulls
  BY <1>1 DEF Handled
<1>3. pulls' \in [Turns -> Pulls]
  BY <1>2
<1>4. PullsHold'
  BY DEF PublicationIInv, PullsHold, Handled, IsOpen, Turns, Heads
<1> QED
  BY <1>3, <1>4

LEMMA TouchKeeps ==
  ASSUME PublicationIInv, Touch
  PROVE  PublicationIInv' /\ (ref' \in Turns => ref' = ref)
<1> USE PublicationAssumption DEF PublicationIInv
<1>0. /\ touches' \in 0..MaxTouches /\ UNCHANGED <<turn, effect, pc, fenced, ends, anchor, deaths>>
  <2>1. touches \in 0..MaxTouches /\ touches < MaxTouches /\ touches' = touches + 1
    BY DEF Touch, PublicationTypeOK
  <2> QED
    BY <2>1 DEF Touch, DeliveryKept
<1>a. ASSUME pulls' \in [Turns -> Pulls], PullsHold', opened \subseteq opened', opened' \subseteq Heads,
             ref' \in Heads \cup {Nothing}, hasBase' \in BOOLEAN, hasParent' \in BOOLEAN,
             inBase' \subseteq Turns
      PROVE  PublicationIInv'
  <2>1. PublicationTypeOK'
    BY <1>0, <1>a DEF PublicationTypeOK, Pulls, Turns, Heads
  <2>2. ConfirmedWasReviewable'
    BY <1>0, <1>a DEF ConfirmedWasReviewable, Turns
  <2> QED
    BY <1>a, <2>1, <2>2
<1>b. /\ ref \in Heads \cup {Nothing} /\ hasBase \in BOOLEAN /\ hasParent \in BOOLEAN
      /\ inBase \subseteq Turns /\ opened \subseteq Heads /\ pulls \in [Turns -> Pulls]
      /\ FALSE \in BOOLEAN
  BY DEF PublicationTypeOK, Pulls
<1>c. Stranger \notin Turns /\ Nothing \notin Turns /\ Stranger \in Heads
  BY DEF Turns, Heads
<1>h. ASSUME \A i \in Turns : Handled(i), pulls' = [i \in Turns |-> pulls'[i]],
             UNCHANGED <<hasBase, hasParent, opened>>, inBase' \subseteq Turns,
             ref' \in {ref, Nothing}
      PROVE  PublicationIInv'
  BY <1>a, <1>b, <1>h, HandlingPulls
<1>1. CASE SetRef(Stranger)
  <2>1. /\ ref' = Stranger /\ pulls' \in [Turns -> Pulls] /\ PullsHold'
        /\ opened \subseteq opened' /\ opened' \subseteq Heads
        /\ UNCHANGED <<hasBase, inBase, hasParent>>
    BY <1>1, <1>c, Following
  <2> QED
    BY <1>a, <1>b, <1>c, <2>1
<1>2. CASE ref' = Nothing /\ pulls' = CloseAll /\ UNCHANGED <<hasBase, inBase, hasParent, opened>>
  <2>1. ASSUME NEW i \in Turns PROVE Handled(i)
    <3>1. pulls[i] \in Pulls
      BY <1>b
    <3>2. CloseAll[i] = IF IsOpen(i) THEN [pulls[i] EXCEPT !.state = "closed"] ELSE pulls[i]
      BY DEF CloseAll
    <3> QED
      BY <1>2, <3>1, <3>2 DEF Handled, Pulls
  <2>2. pulls' = [i \in Turns |-> pulls'[i]]
    BY <1>2 DEF CloseAll
  <2> QED
    BY <1>b, <1>c, <1>h, <1>2, <2>1, <2>2
<1>3. ASSUME NEW i \in OpenPulls, MergePull(i) PROVE PublicationIInv' /\ ref' = ref
  <2>1. /\ i \in Turns /\ IsOpen(i) /\ pulls' = [pulls EXCEPT ![i].state = "merged"]
        /\ UNCHANGED <<ref, hasBase, hasParent, opened>>
    BY <1>3 DEF MergePull, OpenPulls
  <2>2. inBase' \subseteq Turns
    BY <1>3, <1>b DEF MergePull
  <2>3. ASSUME NEW j \in Turns PROVE Handled(j)
    <3>1. pulls[j] \in Pulls
      BY <1>b
    <3> QED
      BY <1>b, <2>1, <3>1 DEF Handled, Pulls
  <2>4. pulls' = [j \in Turns |-> pulls'[j]]
    BY <1>b, <2>1
  <2> QED
    BY <1>h, <2>1, <2>2, <2>3, <2>4
<1>4. ASSUME NEW i \in OpenPulls,
             \/ pulls' = [pulls EXCEPT ![i].state = "closed"]
             \/ pulls' = [pulls EXCEPT ![i].exact = FALSE],
             UNCHANGED <<ref, hasBase, inBase, hasParent, opened>>
      PROVE PublicationIInv' /\ ref' = ref
  <2>1. i \in Turns /\ IsOpen(i)
    BY DEF OpenPulls
  <2>2. ASSUME NEW j \in Turns PROVE Handled(j)
    <3>1. pulls[j] \in Pulls
      BY <1>b
    <3>2. CASE pulls' = [pulls EXCEPT ![i].state = "closed"]
      BY <1>b, <2>1, <3>1, <3>2 DEF Handled, Pulls
    <3>3. CASE pulls' = [pulls EXCEPT ![i].exact = FALSE]
      <4>1. [pulls[i] EXCEPT !.exact = FALSE] \in Pulls
        BY <1>b, <2>1 DEF Pulls
      <4>2. CASE j = i
        <5>1. pulls'[i] = [pulls[i] EXCEPT !.exact = FALSE]
          BY <1>b, <2>1, <3>3
        <5>2. pulls'[i].head = pulls[i].head /\ pulls'[i].exact = FALSE
          BY <1>b, <2>1, <5>1 DEF Pulls
        <5> QED
          BY <2>1, <4>1, <4>2, <5>1, <5>2 DEF Handled
      <4>3. CASE j # i
        BY <1>b, <3>3, <4>3 DEF Handled
      <4> QED
        BY <4>2, <4>3
    <3> QED
      BY <1>4, <3>2, <3>3
  <2>3. pulls' = [j \in Turns |-> pulls'[j]]
    BY <1>4, <1>b
  <2> QED
    BY <1>4, <1>b, <1>h, <2>2, <2>3
<1>5. ASSUME \/ hasBase' = FALSE /\ UNCHANGED hasParent
             \/ hasParent' = FALSE /\ UNCHANGED hasBase,
             UNCHANGED <<ref, inBase, pulls, opened>>
      PROVE  PublicationIInv' /\ ref' = ref
  <2>1. hasBase' \in BOOLEAN /\ hasParent' \in BOOLEAN
    BY <1>5, <1>b, Zenon
  <2>2. PullsHold'
    BY <1>5 DEF PullsHold, Turns, Heads
  <2> QED
    BY <1>5, <1>a, <1>b, <2>1, <2>2
<1> QED
  BY <1>1, <1>2, <1>3, <1>4, <1>5, <1>c, Following DEF Touch

\* A lookup that settles an effect.
LEMMA SettlingEffect ==
  ASSUME PublicationIInv, NEW status \in {"confirmed", "rejected"},
         effect \in {"push", "pull"}, SettleEffect(status),
         effect = "pull" /\ status = "confirmed" => turn \in opened,
         RepositoryKept, UNCHANGED <<touches, deaths>>
  PROVE  PublicationIInv' /\ ref' = ref
<1> USE PublicationAssumption DEF PublicationIInv
<1>1. UNCHANGED <<ref, hasBase, inBase, hasParent, pulls, opened>>
  BY DEF RepositoryKept
<1>2. turn \in Turns /\ turn' \in Turns /\ effect' \in {"push", "pull", "done"}
  BY DEF SettleEffect, PublicationTypeOK, Turns
<1>3. anchor' \in 0..Publications
  BY <1>2 DEF SettleEffect, PublicationTypeOK, Turns
<1>4. fenced' \in BOOLEAN
  BY Zenon DEF SettleEffect
<1>5. /\ ends' \in [Turns -> [{"push", "pull"} -> {"open", "confirmed", "rejected"}]]
      /\ \A i \in Turns : ends'[i]["pull"] = "confirmed" =>
           ends[i]["pull"] = "confirmed" \/ (i = turn /\ effect = "pull" /\ status = "confirmed")
  BY <1>2 DEF SettleEffect, PublicationTypeOK
<1>6. pc' = "lookup"
  BY DEF SettleEffect
<1>7. PublicationTypeOK'
  BY <1>1, <1>2, <1>3, <1>4, <1>5, <1>6 DEF PublicationTypeOK, Turns, Heads
<1>8. PullsHold'
  BY <1>1 DEF PullsHold, Turns, Heads
<1>9. ConfirmedWasReviewable'
  BY <1>1, <1>5 DEF ConfirmedWasReviewable, Turns
<1> QED
  BY <1>1, <1>7, <1>8, <1>9

\* A step of a delivery that settles nothing and leaves the repository as it is.
LEMMA Passing ==
  ASSUME PublicationIInv, pc' \in {"lookup", "heads", "check", "send", "verify"},
         fenced' \in BOOLEAN, deaths' \in 0..MaxDeaths,
         UNCHANGED <<turn, effect, ends, anchor, touches>>, RepositoryKept
  PROVE  PublicationIInv' /\ ref' = ref
BY DEF PublicationIInv, PublicationTypeOK, PullsHold, ConfirmedWasReviewable,
       RepositoryKept, Turns, Heads

LEMMA DeliverKeeps ==
  ASSUME PublicationIInv, Deliver
  PROVE  PublicationIInv' /\ (ref' # ref => ref = Expected)
<1> USE PublicationAssumption DEF PublicationIInv
<1>0. fenced \in BOOLEAN /\ deaths \in 0..MaxDeaths /\ touches \in 0..MaxTouches
      /\ pc \in {"lookup", "heads", "check", "send", "verify"}
  BY DEF PublicationTypeOK
<1>a. ASSUME Absent, RepositoryKept, UNCHANGED <<touches, deaths>>
      PROVE  PublicationIInv' /\ ref' = ref
  <2>1. fenced' \in BOOLEAN
    BY <1>0, <1>a, Zenon DEF Absent
  <2>2. pc' \in {"lookup", "check"} /\ UNCHANGED <<turn, effect, ends, anchor>>
    BY <1>a DEF Absent
  <2> QED
    BY <1>0, <1>a, <2>1, <2>2, Passing
<1>b. ASSUME NEW l \in {"lookup", "heads", "check", "send", "verify"}, Goto(l),
             RepositoryKept, UNCHANGED <<touches, deaths>>
      PROVE  PublicationIInv' /\ ref' = ref
  BY <1>0, <1>b, Passing DEF Goto
<1>1. CASE LookupPush
  BY <1>1, <1>a, SettlingEffect DEF LookupPush
<1>2. CASE LookupPull
  <2>1. effect = "pull" /\ RepositoryKept /\ UNCHANGED <<touches, deaths>>
    BY <1>2 DEF LookupPull
  <2>2. ASSUME NEW i \in Owned,
               SettleEffect(IF pulls[i].state = "closed" THEN "rejected" ELSE "confirmed")
        PROVE  PublicationIInv' /\ ref' = ref
    <3>1. turn \in opened
      BY DEF Owned, OwnCoordinates, PullsHold
    <3> QED
      BY <2>1, <2>2, <3>1, SettlingEffect
  <2>3. CASE SettleEffect("rejected")
    BY <2>1, <2>3, SettlingEffect
  <2>4. CASE pc' = "heads" /\ UNCHANGED <<turn, effect, fenced, ends, anchor>>
    BY <1>0, <2>1, <2>4, Passing
  <2> QED
    BY <1>2, <2>2, <2>3, <2>4 DEF LookupPull
<1>3. CASE LookupHeads
  BY <1>3, <1>a, SettlingEffect DEF LookupHeads
<1>4. CASE CheckRemote
  BY <1>4, <1>b DEF CheckRemote
<1>5. CASE PushCheckpoint
  <2>1. effect = "push" /\ pc = "send" /\ UNCHANGED <<touches, deaths>>
    BY <1>5 DEF PushCheckpoint
  <2>2. CASE RepositoryKept /\ Goto("lookup")
    BY <1>b, <2>1, <2>2
  <2>3. CASE Lands /\ SetRef(turn) /\ Goto("verify")
    <3>1. turn \in Heads
      BY DEF PublicationTypeOK, Heads
    <3>2. /\ ref' = turn /\ pulls' \in [Turns -> Pulls] /\ PullsHold'
          /\ opened \subseteq opened' /\ opened' \subseteq Heads
          /\ UNCHANGED <<hasBase, inBase, hasParent>>
      BY <2>3, <3>1, Following
    <3>3. pc' = "verify" /\ UNCHANGED <<turn, effect, fenced, ends, anchor>>
      BY <2>3 DEF Goto
    <3>4. PublicationTypeOK'
      BY <2>1, <3>1, <3>2, <3>3 DEF PublicationTypeOK, Pulls, Turns, Heads
    <3>5. ConfirmedWasReviewable'
      BY <3>2, <3>3 DEF ConfirmedWasReviewable, Turns
    <3> QED
      BY <2>3, <3>2, <3>4, <3>5 DEF Lands
  <2> QED
    BY <1>5, <2>2, <2>3 DEF PushCheckpoint
<1>6. CASE VerifyRemote
  BY <1>6, <1>b DEF VerifyRemote
<1>7. CASE CheckTaskBranch
  BY <1>7, <1>b DEF CheckTaskBranch
<1>8. CASE ListOpen
  BY <1>8, <1>b DEF ListOpen
<1>9. CASE PostPull
  <2>1. Goto("lookup") /\ UNCHANGED <<touches, deaths>>
    BY <1>9 DEF PostPull
  <2>2. CASE RepositoryKept
    BY <1>b, <2>1, <2>2
  <2>3. CASE ~RepositoryKept
    <3> DEFINE new == [head |-> ref, state |-> "open", exact |-> TRUE]
               after == [pulls EXCEPT ![turn] = new]
    <3>1. /\ ref # Nothing /\ pulls' = after /\ Seen(after)
          /\ UNCHANGED <<ref, hasBase, inBase, hasParent>>
      BY <1>9, <2>3 DEF PostPull
    <3>2. turn \in Turns /\ pulls \in [Turns -> Pulls] /\ ref \in Heads
      BY <3>1 DEF PublicationTypeOK, Pulls
    <3>3. new \in Pulls
      <4>1. TRUE \in BOOLEAN
        OBVIOUS
      <4> QED
        BY <3>2, <4>1 DEF Pulls
    <3>4. after \in [Turns -> Pulls] /\ after[turn] = new
          /\ \A i \in Turns \ {turn} : after[i] = pulls[i]
      <4> HIDE DEF new
      <4> QED
        BY <3>2, <3>3
    <3>5. new.head = ref /\ new.state = "open" /\ new.exact
      OBVIOUS
    <3>6. opened' = opened \cup
            {after[i].head : i \in {j \in Turns : after[j].state = "open" /\ after[j].exact}}
      BY <3>1 DEF Seen
    <3> HIDE DEF after, new
    <3>7. opened \subseteq opened' /\ opened' \subseteq Heads
      <4>1. ASSUME NEW i \in Turns, after[i].state = "open" PROVE after[i].head \in Heads
        BY <3>2, <3>4, <3>5, <4>1 DEF PullsHold
      <4> QED
        BY <3>6, <4>1 DEF PublicationTypeOK
    <3>8. PullsHold'
      <4>1. ASSUME NEW i \in Turns, after[i].state # "none"
            PROVE  after[i].head \in Heads /\ (after[i].exact => after[i].head \in opened')
        BY <3>2, <3>4, <3>5, <3>6, <3>7, <4>1 DEF PullsHold
      <4> QED
        BY <3>1, <4>1 DEF PullsHold, Turns, Heads
    <3>9. pc' = "lookup" /\ UNCHANGED <<turn, effect, fenced, ends, anchor>>
      BY <2>1 DEF Goto
    <3>10. PublicationTypeOK'
      BY <2>1, <3>1, <3>4, <3>7, <3>9 DEF PublicationTypeOK, Pulls, Turns, Heads
    <3>11. ConfirmedWasReviewable'
      BY <3>7, <3>9 DEF ConfirmedWasReviewable, Turns
    <3> QED
      BY <3>1, <3>8, <3>10, <3>11
  <2> QED
    BY <2>2, <2>3
<1> QED
  BY <1>1, <1>2, <1>3, <1>4, <1>5, <1>6, <1>7, <1>8, <1>9 DEF Deliver

LEMMA PublicationStepKeeps ==
  ASSUME PublicationIInv, [PublicationNext]_githubVars
  PROVE  PublicationIInv' /\ (ref' \in Turns /\ ref' # ref => ref = Expected)
<1>1. CASE Die
  <2>1. deaths' \in 0..MaxDeaths /\ fenced' \in BOOLEAN
    <3>1. deaths \in 0..MaxDeaths /\ deaths < MaxDeaths /\ deaths' = deaths + 1
      BY <1>1 DEF Die, PublicationIInv, PublicationTypeOK
    <3>2. deaths' \in 0..MaxDeaths
      BY <3>1, PublicationAssumption
    <3> QED
      BY <1>1, <3>2 DEF Die, Goto, PublicationIInv, PublicationTypeOK
  <2> QED
    BY <1>1, <2>1, Passing DEF Die, Goto
<1>2. CASE UNCHANGED githubVars
  BY <1>2 DEF githubVars, PublicationIInv, PublicationTypeOK, PullsHold,
              ConfirmedWasReviewable, Turns, Heads
<1> QED
  BY <1>1, <1>2, TouchKeeps, DeliverKeeps DEF PublicationNext

LEMMA PublicationInvariance == PublicationSpec => []PublicationIInv
BY PublicationInitially, PublicationStepKeeps, PTL DEF PublicationSpec

\* The repository, the pull requests and the delivery keep their types.
THEOREM PublicationTypeCorrect == PublicationSpec => []PublicationTypeOK
BY PublicationInvariance, PTL DEF PublicationIInv

\* For any number of publications, touches and deaths: a pull request that is
\* confirmed was open for review with what it publishes, and the run moves its branch
\* only from the head it published last.
THEOREM PublicationIsSafe == PublicationSpec => PublicationSafe
<1>1. PublicationIInv => ConfirmedWasReviewable
  BY DEF PublicationIInv
<1>2. PublicationIInv /\ [PublicationNext]_githubVars =>
        [ref' \in Turns /\ ref' # ref => ref = Expected]_githubVars
  BY PublicationStepKeeps
<1> QED
  BY <1>1, <1>2, PublicationInvariance, PTL DEF PublicationSpec, PublicationSafe, OnlyOwnHeadIsReplaced
=============================================================================

----------------------------- MODULE ProviderWait -----------------------------
(***************************************************************************)
(* The provider wait of a published subject                                  *)
(* (GithubKernelAdapter.#reconcileProvider).                                 *)
(*                                                                          *)
(* A wait is an observation that is reconciled again and again until every   *)
(* required check run and commit status of the subject succeeded, or one has *)
(* failed for good.  A failed status is final at once; a failed check run    *)
(* may be run again on the same head, inside a window and a budget of        *)
(* failures that are counted by its name.  What was seen of failed checks is *)
(* carried from one reconciliation to the next in a continuation, which the  *)
(* effect keeps in the detail of its last unknown outcome.                   *)
(***************************************************************************)
EXTENDS Naturals, Sequences, FiniteSets, Functions

CONSTANTS
    RequiredChecks,   \* the names of the required check runs, in the order of
                      \* the policy; two apps may use one name
    RequiredStatuses, \* the required commit statuses
    Window,           \* length of the re-observation window
    FailureLimit,     \* failures of one name that reject the wait
    MaxRuns           \* bound: how often one check is run

ASSUME RequiredAssumption == RequiredChecks \in Seq(Range(RequiredChecks))
ASSUME WaitBoundsAssumption ==
    Window \in Nat \ {0} /\ FailureLimit \in Nat \ {0} /\ MaxRuns \in Nat \ {0}

VARIABLES
    latest,    \* the last run of every required check: its id and state
    statuses,  \* the state of every required status
    kept,      \* the continuation: of every check, the runs that failed, the
               \* time since the first of them was seen, and whether a run
               \* succeeded since
    settled,   \* how the wait ended
    cause,     \* what rejected it
    green,     \* history: the observations that were ever seen to succeed
    red        \* history: the runs of every check that were seen to fail

waitVars == <<latest, statuses, kept, settled, cause, green, red>>

Checks == DOMAIN RequiredChecks
SameName(c) == {d \in Checks : RequiredChecks[d] = RequiredChecks[c]}
Observed == {"missing", "pending", "success", "failure", "unknown"}

WaitTypeOK ==
    /\ latest \in [Checks -> [id : 0..MaxRuns, state : Observed]]
    /\ statuses \in [RequiredStatuses -> Observed]
    /\ kept \in [Checks -> [failed : SUBSET (1..MaxRuns), age : 0..Window,
                            passed : BOOLEAN]]
    /\ settled \in {"open", "confirmed", "rejected"}
    /\ cause \in {"none", "status", "budget", "window"}
    /\ green \subseteq Checks \cup RequiredStatuses
    /\ red \in [Checks -> SUBSET (1..MaxRuns)]

WaitInit ==
    /\ latest = [c \in Checks |-> [id |-> 0, state |-> "missing"]]
    /\ statuses = [s \in RequiredStatuses |-> "missing"]
    /\ kept = [c \in Checks |-> [failed |-> {}, age |-> 0, passed |-> FALSE]]
    /\ settled = "open" /\ cause = "none"
    /\ green = {}
    /\ red = [c \in Checks |-> {}]

-----------------------------------------------------------------------------
(* The provider and the clock                                              *)

WaitKept == UNCHANGED <<settled, cause, green, red>>

StartCheckRun(c) ==
    /\ latest[c].id < MaxRuns
    /\ latest' = [latest EXCEPT ![c] = [id |-> latest[c].id + 1, state |-> "pending"]]
    /\ UNCHANGED <<statuses, kept>> /\ WaitKept

\* A run ends; a state the adapter does not know is possible too.
EndCheckRun(c) ==
    /\ latest[c].state = "pending"
    /\ \E s \in {"success", "failure", "unknown"} :
          latest' = [latest EXCEPT ![c].state = s]
    /\ UNCHANGED <<statuses, kept>> /\ WaitKept

MoveStatus(s) ==
    /\ statuses[s] \in {"missing", "pending"}
    /\ \E t \in {"pending", "success", "failure"} :
          statuses' = [statuses EXCEPT ![s] = t]
    /\ UNCHANGED <<latest, kept>> /\ WaitKept

HasFailed(k, c) == k[c].failed # {}
Awaited(k) == {c \in Checks : HasFailed(k, c) /\ ~k[c].passed}

\* Mutant of Tick: the age of a failure is lost between reconciliations.
NeverTicks == FALSE /\ UNCHANGED waitVars

\* Time passes since the failures that were seen, awaited or not: a check is
\* judged by the oldest failure of its name.
Tick ==
    /\ \E c \in Checks : HasFailed(kept, c) /\ kept[c].age < Window
    /\ kept' = [c \in Checks |->
          IF HasFailed(kept, c) /\ kept[c].age < Window
          THEN [kept[c] EXCEPT !.age = @ + 1] ELSE kept[c]]
    /\ UNCHANGED <<latest, statuses>> /\ WaitKept

-----------------------------------------------------------------------------
(* The reconciliation                                                      *)

\* A continuation is refused when a check has used up its failures in it.
Accepted(k) == \A c \in Checks : Cardinality(k[c].failed) < FailureLimit

FailuresOf(k, c) == UNION {{d} \X k[d].failed : d \in SameName(c)}
BudgetExhausted(k, c) == Cardinality(FailuresOf(k, c)) >= FailureLimit
WindowExpired(k, c) ==
    \E d \in SameName(c) : HasFailed(k, d) /\ k[d].age >= Window

\* The pages of the checks and of the statuses are read whole or not at all:
\* a page that is malformed, that changed, or one too many makes all unknown,
\* and one that is not found makes all missing.
Unread == {"missing", "unknown"}
ChecksRead ==
    {[c \in Checks |-> latest[c].state]} \cup {[c \in Checks |-> u] : u \in Unread}
StatusesRead == {statuses} \cup {[s \in RequiredStatuses |-> u] : u \in Unread}

\* Mutant of Counted: a run is counted in every reconciliation that sees it.
CountedTwice(seen) == [c \in Checks |->
    IF seen[c] = "failure"
    THEN [failed |-> kept[c].failed \cup {latest[c].id, (latest[c].id % MaxRuns) + 1},
          age |-> kept[c].age,
          passed |-> kept[c].passed]
    ELSE kept[c]]

\* A failed run is added once, and opens the window of its check.
Counted(seen) == [c \in Checks |->
    IF seen[c] = "failure"
    THEN [failed |-> kept[c].failed \cup {latest[c].id},
          age |-> kept[c].age,
          passed |-> kept[c].passed]
    ELSE kept[c]]

\* The checks are judged in the order of the policy; the failures of a later
\* one are not counted yet.
UpTo(counted, c) == [d \in Checks |-> IF d <= c THEN counted[d] ELSE kept[d]]
RejectedBy(counted) ==
    {c \in Awaited(counted) :
        \/ BudgetExhausted(UpTo(counted, c), c)
        \/ WindowExpired(UpTo(counted, c), c)}

\* Mutant of Carried: a success closes the record of its check.
ClosedBySuccess(seen) == [c \in Checks |->
    IF HasFailed(kept, c) /\ seen[c] = "success"
    THEN [failed |-> {}, age |-> 0, passed |-> FALSE]
    ELSE Counted(seen)[c]]

\* A success of a check that failed is kept, whatever its later runs do.
Carried(seen) == [c \in Checks |->
    [Counted(seen)[c] EXCEPT
        !.passed = @ \/ (HasFailed(kept, c) /\ seen[c] = "success")]]

\* Mutant of Incomplete: a status that was not reported is not waited for.
OnlyPending(k, seen, stated) ==
    \/ \E c \in Checks : seen[c] \in {"missing", "pending", "failure"} /\ ~k[c].passed
    \/ \E s \in RequiredStatuses : stated[s] = "pending"

Incomplete(k, seen, stated) ==
    \/ \E c \in Checks : seen[c] \in {"missing", "pending", "failure"} /\ ~k[c].passed
    \/ \E s \in RequiredStatuses : stated[s] \in {"missing", "pending"}

Indeterminate(seen, stated) ==
    \/ \E c \in Checks : seen[c] = "unknown"
    \/ \E s \in RequiredStatuses : stated[s] = "unknown"

RejectWait(why) ==
    settled' = "rejected" /\ cause' = why /\ UNCHANGED kept
HoldWait(k) ==
    kept' = k /\ UNCHANGED <<settled, cause>>
ConfirmWait ==
    settled' = "confirmed" /\ UNCHANGED <<kept, cause>>

Remember(seen, stated) ==
    /\ green' = green \cup {c \in Checks : seen[c] = "success"}
                      \cup {s \in RequiredStatuses : stated[s] = "success"}
    /\ red' = [c \in Checks |->
                 IF seen[c] = "failure" THEN red[c] \cup {latest[c].id} ELSE red[c]]

\* The window of a failed check is judged before anything is read.
Expire ==
    /\ \E c \in Awaited(kept) : WindowExpired(kept, c)
    /\ RejectWait("window")
    /\ UNCHANGED <<green, red>>

Judge(seen, stated) ==
    LET counted == Counted(seen)
        carried == Carried(seen)
        failed == \E s \in RequiredStatuses : stated[s] = "failure"
        refused == RejectedBy(counted)
        held == ~failed /\ refused = {}
        quiet == held /\ Awaited(carried) = {}
    IN \/ failed /\ RejectWait("status")
       \/ ~failed /\ \E first \in refused :
             /\ \A c \in refused : first <= c
             /\ RejectWait(IF BudgetExhausted(UpTo(counted, first), first)
                           THEN "budget" ELSE "window")
       \/ held /\ Awaited(carried) # {} /\ HoldWait(carried)
       \/ quiet /\ Indeterminate(seen, stated) /\ HoldWait(kept)
       \/ quiet /\ ~Indeterminate(seen, stated)
          /\ Incomplete(carried, seen, stated) /\ HoldWait(carried)
       \/ quiet /\ ~Indeterminate(seen, stated)
          /\ ~Incomplete(carried, seen, stated) /\ ConfirmWait

\* A continuation that is refused is held as it is, for ever: no step.
Reconcile ==
    /\ settled = "open" /\ Accepted(kept)
    /\ \/ Expire
       \/ /\ \A c \in Awaited(kept) : ~WindowExpired(kept, c)
          /\ \E seen \in ChecksRead, stated \in StatusesRead :
                Judge(seen, stated) /\ Remember(seen, stated)
    /\ UNCHANGED <<latest, statuses>>

-----------------------------------------------------------------------------
WaitNext ==
    \/ settled = "open"
       /\ \/ \E c \in Checks : StartCheckRun(c) \/ EndCheckRun(c)
          \/ \E s \in RequiredStatuses : MoveStatus(s)
          \/ Tick
    \/ Reconcile

WaitSpec == WaitInit /\ [][WaitNext]_waitVars

\* A held effect is drained again at its retry time, and time passes.
WaitFairness == WF_waitVars(settled = "open" /\ Tick) /\ WF_waitVars(Reconcile)
FairWaitSpec == WaitSpec /\ WaitFairness

-----------------------------------------------------------------------------
\* A wait is confirmed only when every required observation was seen to
\* succeed on its subject, at one time or another.
ConfirmedWasGreen ==
    settled = "confirmed" => green = Checks \cup RequiredStatuses

\* A wait is rejected for its budget only when that many runs of one name were
\* seen to fail: no run is counted twice, however often it is observed.
BudgetWasSpent ==
    cause = "budget" =>
        \E c \in Checks :
            Cardinality(UNION {{d} \X red[d] : d \in SameName(c)}) >= FailureLimit

\* A failure that was seen is not forgotten while the wait is open, whatever
\* the observations after it say or fail to say.
FailureRemembered ==
    [][settled' = "open" =>
         \A c \in Checks : kept[c].failed \subseteq kept'[c].failed]_waitVars

\* What a failed check comes to: it is run again with success, or rejects the wait.
NoFailureIsAwaited == settled # "open" \/ Awaited(kept) = {}

\* A continuation the wait holds is one it accepts in its next reconciliation.
HeldIsAccepted == settled = "open" => Accepted(kept)

\* Checks that are read page by page and run by run decide rightly: what is
\* confirmed was green, a budget that is spent was spent by failures, and a failure
\* is kept through every read.
WaitSafe ==
    /\ [](ConfirmedWasGreen /\ BudgetWasSpent)
    /\ FailureRemembered
=============================================================================

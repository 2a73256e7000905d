--------------------------- MODULE GithubPublication ---------------------------
(***************************************************************************)
(* The publications of a run on GitHub: a compare-and-swap of the task ref   *)
(* and a pull request of it (GithubKernelAdapter, pushRepositoryCheckpoint,  *)
(* publishRepositoryTaskBranch), against people who push, delete, close,     *)
(* merge and edit what the run publishes.                                    *)
(*                                                                          *)
(* Publication i pushes subject i; its parent is the subject of the last     *)
(* push that was confirmed, or subject 0, the commit the run started from.   *)
(* Each of its two effects is looked up, fenced, dispatched at most once and *)
(* looked up again until it is found (EffectDelivery); a dispatch is several *)
(* calls, and the process may die before or after each.                      *)
(***************************************************************************)
EXTENDS Naturals, FiniteSets

CONSTANTS
    Publications,   \* how often the run publishes
    MaxTouches,     \* bound: what people do to the repository
    MaxDeaths,      \* bound: how often the process dies
    Nothing,        \* no ref
    Stranger        \* a head that somebody else pushed

ASSUME PublicationAssumption ==
    /\ Publications \in Nat \ {0} /\ MaxTouches \in Nat /\ MaxDeaths \in Nat
    /\ Nothing # Stranger /\ {Nothing, Stranger} \cap (1..Publications) = {}

VARIABLES
    ref,         \* the head of the task branch
    hasBase,     \* whether the base branch exists
    inBase,      \* the subjects the base branch contains
    hasParent,   \* whether the commit the run started from is still there
    pulls,       \* by the publication that opened it: head, state, and whether
                 \* it still carries the title and the body it was given
    turn,        \* the publication that is under way
    effect,      \* its effect: "push", "pull", or "done"
    pc,          \* where the delivery of that effect is
    fenced,      \* whether its one dispatch has been started
    ends,        \* how each effect of each publication was settled
    anchor,      \* the subject of the last confirmed push
    opened,      \* history: heads that an unedited open pull request has had
    touches, deaths

githubVars == <<ref, hasBase, inBase, hasParent, pulls, turn, effect, pc, fenced,
                ends, anchor, opened, touches, deaths>>

Turns == 1..Publications
Heads == Turns \cup {Stranger}
NoPull == [head |-> Nothing, state |-> "none", exact |-> TRUE]
Mode == IF anchor = 0 THEN "create" ELSE "update"
Expected == IF Mode = "create" THEN Nothing ELSE anchor

PublicationTypeOK ==
    /\ ref \in Heads \cup {Nothing}
    /\ hasBase \in BOOLEAN /\ hasParent \in BOOLEAN /\ fenced \in BOOLEAN
    /\ inBase \subseteq Turns
    /\ pulls \in [Turns -> [head : Heads \cup {Nothing}, exact : BOOLEAN,
                            state : {"none", "open", "closed", "merged"}]]
    /\ turn \in Turns /\ effect \in {"push", "pull", "done"}
    /\ pc \in {"lookup", "heads", "check", "send", "verify"}
    /\ ends \in [Turns -> [{"push", "pull"} -> {"open", "confirmed", "rejected"}]]
    /\ anchor \in 0..Publications
    /\ opened \subseteq Heads
    /\ touches \in 0..MaxTouches /\ deaths \in 0..MaxDeaths

PublicationInit ==
    /\ ref = Nothing /\ hasBase = TRUE /\ inBase = {} /\ hasParent = TRUE
    /\ pulls = [i \in Turns |-> NoPull]
    /\ turn = 1 /\ effect = "push" /\ pc = "lookup" /\ fenced = FALSE
    /\ ends = [i \in Turns |-> [e \in {"push", "pull"} |-> "open"]]
    /\ anchor = 0 /\ opened = {} /\ touches = 0 /\ deaths = 0

RepositoryKept == UNCHANGED <<ref, hasBase, inBase, hasParent, pulls, opened>>
DeliveryKept == UNCHANGED <<turn, effect, pc, fenced, ends, anchor>>

-----------------------------------------------------------------------------
(* The repository and the people who use it                                *)

IsOpen(i) == pulls[i].state = "open"
OpenPulls == {i \in Turns : IsOpen(i)}

\* The head of an open pull request is the head of its branch.
Follow(head) ==
    [i \in Turns |-> IF IsOpen(i) THEN [pulls[i] EXCEPT !.head = head] ELSE pulls[i]]
Seen(after) == opened' = opened \cup
    {after[i].head : i \in {j \in Turns : after[j].state = "open" /\ after[j].exact}}

SetRef(head) ==
    /\ ref' = head
    /\ pulls' = Follow(head) /\ Seen(Follow(head))
    /\ UNCHANGED <<hasBase, inBase, hasParent>>

CloseAll == [i \in Turns |->
    IF IsOpen(i) THEN [pulls[i] EXCEPT !.state = "closed"] ELSE pulls[i]]

\* Mutant of MergePull: what others pushed counts as published by the run.
MergeAnything(i) ==
    /\ pulls' = [pulls EXCEPT ![i].state = "merged"]
    /\ inBase' = inBase \cup {pulls[i].head}
    /\ UNCHANGED <<ref, hasBase, hasParent, opened>>

\* A merge adds the head to the base, a squash does not.
MergePull(i) ==
    /\ pulls' = [pulls EXCEPT ![i].state = "merged"]
    /\ \/ UNCHANGED inBase
       \/ inBase' = inBase \cup ({pulls[i].head} \cap Turns)
    /\ UNCHANGED <<ref, hasBase, hasParent, opened>>

Touch ==
    /\ touches < MaxTouches /\ touches' = touches + 1
    /\ \/ ref # Stranger /\ SetRef(Stranger)
       \/ /\ ref # Nothing /\ ref' = Nothing /\ pulls' = CloseAll
          /\ UNCHANGED <<hasBase, inBase, hasParent, opened>>
       \/ \E i \in OpenPulls : MergePull(i)
       \/ \E i \in OpenPulls :
             /\ \/ pulls' = [pulls EXCEPT ![i].state = "closed"]
                \/ pulls' = [pulls EXCEPT ![i].exact = FALSE]
             /\ UNCHANGED <<ref, hasBase, inBase, hasParent, opened>>
       \/ /\ hasBase /\ hasBase' = FALSE
          /\ UNCHANGED <<ref, inBase, hasParent, pulls, opened>>
       \/ /\ hasParent /\ hasParent' = FALSE
          /\ UNCHANGED <<ref, hasBase, inBase, pulls, opened>>
    /\ DeliveryKept /\ UNCHANGED deaths

-----------------------------------------------------------------------------
(* The outcome of a lookup                                                 *)

\* The publication of a later turn starts when this one has ended.
SettleEffect(status) ==
    /\ ends' = [ends EXCEPT ![turn][effect] = status]
    /\ anchor' = IF effect = "push" /\ status = "confirmed" THEN turn ELSE anchor
    /\ fenced' = FALSE /\ pc' = "lookup"
    /\ IF effect = "push" /\ status = "confirmed"
       THEN effect' = "pull" /\ UNCHANGED turn
       ELSE IF turn < Publications
       THEN effect' = "push" /\ turn' = turn + 1
       ELSE effect' = "done" /\ UNCHANGED turn

\* Nothing is there: the effect is dispatched, or held if it has been.
Absent ==
    /\ IF fenced THEN pc' = "lookup" /\ UNCHANGED fenced
                 ELSE pc' = "check" /\ fenced' = TRUE
    /\ UNCHANGED <<turn, effect, ends, anchor>>

LookupPush ==
    /\ effect = "push" /\ pc = "lookup"
    /\ \/ ref = turn /\ SettleEffect("confirmed")
       \/ ref # turn /\ ref = Expected /\ (Mode = "create" => hasParent) /\ Absent
       \/ ref # turn /\ (ref # Expected \/ (Mode = "create" /\ ~hasParent))
          /\ SettleEffect("rejected")
    /\ RepositoryKept /\ UNCHANGED <<touches, deaths>>

\* Pull requests of the branch in any state, by what they publish.
OwnCoordinates == {i \in Turns : pulls[i].state # "none" /\ pulls[i].head = turn}
\* Mutant of Owned: pull requests are compared by their branch alone.
OwnedByBranch == {i \in Turns : pulls[i].state # "none" /\ pulls[i].exact}

Owned == {i \in OwnCoordinates : pulls[i].exact}

\* More than one that is owned stays unknown.
LookupPull ==
    /\ effect = "pull" /\ pc = "lookup"
    /\ \/ /\ Cardinality(Owned) = 1
          /\ \E i \in Owned :
                SettleEffect(IF pulls[i].state = "closed" THEN "rejected" ELSE "confirmed")
       \/ Owned = {} /\ OwnCoordinates # {} /\ SettleEffect("rejected")
       \/ /\ OwnCoordinates = {} /\ pc' = "heads"
          /\ UNCHANGED <<turn, effect, fenced, ends, anchor>>
    /\ RepositoryKept /\ UNCHANGED <<touches, deaths>>

\* The branches are read after the pull requests.
LookupHeads ==
    /\ effect = "pull" /\ pc = "heads"
    /\ \/ ref = turn /\ hasBase /\ turn \notin inBase /\ Absent
       \/ (ref # turn \/ ~hasBase \/ turn \in inBase) /\ SettleEffect("rejected")
    /\ RepositoryKept /\ UNCHANGED <<touches, deaths>>

-----------------------------------------------------------------------------
(* The dispatch                                                            *)

Goto(l) == pc' = l /\ UNCHANGED <<turn, effect, fenced, ends, anchor>>

\* git ls-remote; a ref that is neither expected nor advanced is refused.
CheckRemote ==
    /\ effect = "push" /\ pc = "check"
    /\ Goto(IF ref = Expected THEN "send" ELSE "lookup")
    /\ RepositoryKept /\ UNCHANGED <<touches, deaths>>

\* Mutant of Lands: the lease of the push is left out.
LandsAnyway == TRUE

\* git push --force-with-lease: the remote compares again.
Lands == ref = Expected
PushCheckpoint ==
    /\ effect = "push" /\ pc = "send"
    /\ IF Lands THEN SetRef(turn) /\ Goto("verify")
                ELSE RepositoryKept /\ Goto("lookup")
    /\ UNCHANGED <<touches, deaths>>

\* Whatever the last ls-remote says, the lookup that follows decides.
VerifyRemote ==
    /\ effect = "push" /\ pc = "verify" /\ Goto("lookup")
    /\ RepositoryKept /\ UNCHANGED <<touches, deaths>>

\* The head of the branch, and the open pull requests of it: one that is there
\* is the publication or a conflict, and nothing is created.
CheckTaskBranch ==
    /\ effect = "pull" /\ pc = "check"
    /\ Goto(IF ref = turn THEN "verify" ELSE "lookup")
    /\ RepositoryKept /\ UNCHANGED <<touches, deaths>>

ListOpen ==
    /\ effect = "pull" /\ pc = "verify"
    /\ Goto(IF OpenPulls = {} THEN "send" ELSE "lookup")
    /\ RepositoryKept /\ UNCHANGED <<touches, deaths>>

\* GitHub refuses a second pull request of a branch, and one without commits;
\* what it creates has the head that the branch has now.
PostPull ==
    /\ effect = "pull" /\ pc = "send"
    /\ IF OpenPulls = {} /\ hasBase /\ ref # Nothing /\ ref \notin inBase
       THEN LET after == [pulls EXCEPT ![turn] =
                            [head |-> ref, state |-> "open", exact |-> TRUE]]
            IN pulls' = after /\ Seen(after)
               /\ UNCHANGED <<ref, hasBase, inBase, hasParent>>
       ELSE RepositoryKept
    /\ Goto("lookup") /\ UNCHANGED <<touches, deaths>>

\* The process dies, or an answer is lost: the effect is looked up again.
Die ==
    /\ deaths < MaxDeaths /\ pc # "lookup"
    /\ deaths' = deaths + 1 /\ Goto("lookup")
    /\ RepositoryKept /\ UNCHANGED touches

-----------------------------------------------------------------------------
Deliver == LookupPush \/ LookupPull \/ LookupHeads \/ CheckRemote \/ PushCheckpoint
           \/ VerifyRemote \/ CheckTaskBranch \/ ListOpen \/ PostPull

PublicationNext == Deliver \/ Touch \/ Die

PublicationSpec == PublicationInit /\ [][PublicationNext]_githubVars

\* The worker drains an effect that is not settled again and again.
FairPublicationSpec == PublicationSpec /\ WF_githubVars(Deliver)

-----------------------------------------------------------------------------
\* The run moves its branch only from the head it published last to the head it
\* publishes now: what somebody pushed in between is never overwritten, however
\* their push falls between the checks of the dispatch.
OnlyOwnHeadIsReplaced ==
    [][ref' \in Turns /\ ref' # ref => ref = Expected]_githubVars

\* A pull request is confirmed for a head only when that head could be reviewed:
\* an open pull request carried it, with the title and the body of the run.
ConfirmedWasReviewable ==
    \A i \in Turns : ends[i]["pull"] = "confirmed" => i \in opened

\* A request that took effect settles its effect, whatever dies and whatever
\* people do to the result, unless the branch it created is deleted again.
TakenEffectSettles ==
    \A i \in Turns :
        /\ (ref = i /\ effect = "push" /\ turn = i)
              ~> (ends[i]["push"] # "open" \/ ref = Nothing)
        /\ (pulls[i].state # "none") ~> (ends[i]["pull"] # "open")

\* What a unit publishes is its own: a pull request that is confirmed was open for
\* review, and a branch is moved only from the head that was expected.
PublicationSafe ==
    /\ []ConfirmedWasReviewable
    /\ OnlyOwnHeadIsReplaced
=============================================================================

--------------------------- MODULE MCInboxIntake ---------------------------
(* Instances of InboxIntake for TLC.  `opened` and `labeled` are two events  *)
(* of a GitHub issue; `created`, `halt` and `control` are of a Linear issue, *)
(* and `again` is the event of `created` under another delivery id.          *)
EXTENDS IntakeRefinement, TLC

CONSTANTS opened, again, labeled, stop, early, control, created, halt, broken, g, l, w1, w2

KindOf == [d \in Deliveries |->
    CASE d \in {opened, labeled, created, again} -> "admission"
      [] d \in {stop, early, halt} -> "stop"
      [] d = control -> "control"
      [] d = broken -> "malformed"]

ItemOf == [d \in Deliveries |-> IF d \in {created, again, halt, control} THEN l ELSE g]

GroupOf == [d \in Deliveries |-> IF d = again THEN created ELSE d]

OccurredAt == [d \in Deliveries |->
    CASE d = opened -> 1
      [] d = early -> 2
      [] d \in {labeled, created, again} -> 3
      [] OTHER -> 4]

Symmetry == Permutations(Workers)

\* The deliveries of a behaviour are those of a GitHub issue while the fence is
\* open, an event of a Linear issue that comes under two delivery ids, or such an
\* event, a stop and a control message.
GithubAgenda == {opened, labeled, early}
LinearAgendas == {{created, again}, {created, halt, control}}
OnAgenda ==
    LET known == arriving \cup {d \in Deliveries : status[d] # "absent"}
    IN  \/ known \subseteq GithubAgenda /\ ~closed
        \/ \E agenda \in LinearAgendas : known \subseteq agenda

\* What is accepted settles, whoever dies on the way, and a stop that may end its
\* run has ended it, unless a row about it is damaged.
IntakeSettles ==
    /\ AcceptedSettles
    /\ StopTakesEffect
=============================================================================

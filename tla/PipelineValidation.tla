-------------------------- MODULE PipelineValidation --------------------------
(***************************************************************************)
(* Which pipelines are accepted, and what a run can rely on because they   *)
(* were.  A pipeline is a graph of stages; each outcome of a stage leads   *)
(* to another stage or ends the run, and an edge may be taken a bounded    *)
(* number of times (max_reentries).  validateStages refuses a graph with   *)
(* an edge to nowhere, a stage that nothing reaches, or a cycle of edges   *)
(* that are not bounded.  It runs twice: over the authored pipeline, where *)
(* reachability waits if a loop keeps its body in a file, and over the     *)
(* compiled manifest, whose loops have their bodies.                       *)
(*                                                                         *)
(* The two searches are modelled step by step with their worklists; then a *)
(* run walks the accepted graph with any outcomes, as effectiveTransition  *)
(* moves its cursor.  The runtime stages that the compiler adds are the    *)
(* end of the walk here and are the subject of PipelineLifecycle.          *)
(***************************************************************************)
EXTENDS Naturals, Sequences, FiniteSets, SequencesExt

CONSTANTS Stages,   \* the stage IDs
          Entry,    \* the entry stage
          StageOutcomes, \* the outcomes a stage declares
          Unknown,  \* an ID no stage has
          Terminal, \* the target of an edge that ends the run
          Graphs    \* the pipelines somebody submits

GraphEdges == [to : Stages \cup {Unknown, Terminal}, reentries : Nat]

ASSUME GraphAssumption ==
  /\ Entry \in Stages /\ {Unknown, Terminal} \cap Stages = {}
  /\ Unknown # Terminal
  /\ \A g \in Graphs :
       /\ g \in [Stages -> [on : [StageOutcomes -> GraphEdges], body : SUBSET (Stages \cup {Unknown}),
                            file : BOOLEAN]]
       /\ \A s \in Stages, o \in StageOutcomes :
            g[s].on[o].to = Terminal => g[s].on[o].reentries = 0

VARIABLES graph,     \* the pipeline, or <<>> before one is submitted
          verdict,     \* authored, compiled, then accepted or rejected
          search,      \* the search that is running
          pending,   \* the worklist of the reachability search
          reachable,
          path,      \* the frames of visit, innermost last
          visited,
          position,    \* the stage of the run, Terminal when it has ended
          taken      \* per stage and outcome, how often its bounded edge was taken

validationVars == <<graph, verdict, search, pending, reachable, path, visited, position, taken>>

ValidationInit ==
  /\ graph = <<>> /\ verdict = "none" /\ search = "none"
  /\ pending = {} /\ reachable = {}
  /\ path = <<>> /\ visited = {}
  /\ position = Terminal
  /\ taken = [s \in Stages |-> [o \in StageOutcomes |-> 0]]

TargetsOf(s) == {graph[s].on[o].to : o \in StageOutcomes}

\* A body that is kept in a file is not there before it is compiled.
LoopBody(s) == IF graph[s].file /\ verdict = "authored" THEN {} ELSE graph[s].body

\* Mutant of UnboundedNext: every edge counts as bounded once one of them is
BoundedOnce(s) ==
  IF \E o \in StageOutcomes : graph[s].on[o].reentries > 0
    THEN {} ELSE TargetsOf(s) \cap Stages

\* The stages that visit(s) goes on to.
UnboundedNext(s) ==
  {t \in Stages : \E o \in StageOutcomes : graph[s].on[o] = [to |-> t, reentries |-> 0]}

Checking == verdict \in {"authored", "compiled"}

Search(first) ==
  /\ search' = "known" /\ verdict' = first
  /\ pending' = {Entry} /\ reachable' = {} /\ path' = <<>> /\ visited' = {}

Submit(g) ==
  /\ verdict = "none"
  /\ graph' = g
  /\ Search("authored")
  /\ UNCHANGED <<position, taken>>

Reject ==
  /\ verdict' = "rejected" /\ search' = "none"
  /\ UNCHANGED <<graph, pending, reachable, path, visited, position, taken>>

\* Every edge and every body leads to a stage.
CheckKnown ==
  /\ Checking /\ search = "known"
  /\ IF \E s \in Stages : Unknown \in TargetsOf(s) \cup LoopBody(s)
       THEN Reject
       ELSE /\ search' = "reach"
            /\ UNCHANGED <<graph, verdict, pending, reachable, path, visited,
                           position, taken>>

\* A stage is taken off the worklist and what it leads to is added.
Reach ==
  /\ Checking /\ search = "reach"
  /\ \E id \in pending :
       /\ reachable' = reachable \cup {id}
       /\ pending' = (pending \cup (TargetsOf(id) \cap Stages) \cup LoopBody(id)) \ reachable'
  /\ UNCHANGED <<graph, verdict, search, path, visited, position, taken>>

\* Mutant of Deferred: a pipeline with a file is never checked in whole
DeferredForEver == \E s \in Stages : graph[s].file

Deferred == verdict = "authored" /\ \E s \in Stages : graph[s].file

Reached ==
  /\ Checking /\ search = "reach" /\ pending = {}
  /\ IF ~Deferred /\ reachable # Stages
       THEN Reject
       ELSE /\ search' = "cycles"
            /\ UNCHANGED <<graph, verdict, pending, reachable, path, visited,
                           position, taken>>

-----------------------------------------------------------------------------
(* visit, as frames of a stage and the successors it has yet to visit      *)

Frame(s) == [id |-> s, left |-> UnboundedNext(s)]
Visiting == {path[i].id : i \in DOMAIN path}

\* visit(s) returns at once if the stage was left before.
Entered(s, rest) == IF s \in visited THEN rest ELSE Append(rest, Frame(s))

\* The outermost loop starts a visit at every stage that has none yet.
VisitStage ==
  /\ Checking /\ search = "cycles" /\ path = <<>>
  /\ \E s \in Stages \ visited : path' = Entered(s, <<>>)
  /\ UNCHANGED <<graph, verdict, search, pending, reachable, visited, position, taken>>

\* The next successor of the innermost stage; one that is being visited closes
\* a cycle.
VisitNext ==
  /\ Checking /\ search = "cycles" /\ path # <<>>
  /\ \E s \in Last(path).left :
       IF s \in Visiting
         THEN Reject
         ELSE /\ path' = Entered(s, Append(Front(path),
                                          [Last(path) EXCEPT !.left = @ \ {s}]))
              /\ UNCHANGED <<graph, verdict, search, pending, reachable, visited,
                             position, taken>>

LeaveStage ==
  /\ Checking /\ search = "cycles" /\ path # <<>> /\ Last(path).left = {}
  /\ path' = Front(path)
  /\ visited' = visited \cup {Last(path).id}
  /\ UNCHANGED <<graph, verdict, search, pending, reachable, position, taken>>

\* The authored pipeline is compiled and validated again as a manifest.
Compile ==
  /\ verdict = "authored" /\ search = "cycles" /\ path = <<>> /\ visited = Stages
  /\ Search("compiled")
  /\ UNCHANGED <<graph, position, taken>>

Admit ==
  /\ verdict = "compiled" /\ search = "cycles" /\ path = <<>> /\ visited = Stages
  /\ verdict' = "accepted" /\ search' = "none"
  /\ position' = Entry
  /\ UNCHANGED <<graph, pending, reachable, path, visited, taken>>

-----------------------------------------------------------------------------
\* Where a bounded edge that is exhausted leads: to the end of the run.
ExhaustedEdge(s, o) == taken[s][o] >= graph[s].on[o].reentries

\* A stage has the outcome o: effectiveTransition moves the cursor.
Walk(o) ==
  /\ verdict = "accepted" /\ position # Terminal
  /\ LET edge == graph[position].on[o] IN
       IF edge.reentries = 0
         THEN position' = edge.to /\ UNCHANGED taken
         ELSE IF ExhaustedEdge(position, o)
           THEN position' = Terminal /\ UNCHANGED taken
           ELSE /\ position' = edge.to
                /\ taken' = [taken EXCEPT ![position][o] = @ + 1]
  /\ UNCHANGED <<graph, verdict, search, pending, reachable, path, visited>>

ValidationStep ==
  \/ CheckKnown \/ Reach \/ Reached \/ VisitStage \/ VisitNext \/ LeaveStage
  \/ Compile \/ Admit \/ \E o \in StageOutcomes : Walk(o)
ValidationNext == ValidationStep \/ \E g \in Graphs : Submit(g)

ValidationSpec == ValidationInit /\ [][ValidationNext]_validationVars
FairValidationSpec == ValidationSpec /\ WF_validationVars(ValidationStep)

-----------------------------------------------------------------------------
(* What the searches are to find out, without a search                     *)

\* Every set of stages that holds the entry and is closed holds s.
Reachable(s) ==
  \A S \in SUBSET Stages :
    /\ Entry \in S
    /\ \A t \in S : (TargetsOf(t) \cap Stages) \cup graph[t].body \subseteq S
    => s \in S

\* A set of stages that a run need not leave, taking no bounded edge.
Endless ==
  \E S \in (SUBSET Stages) \ {{}} : \A s \in S : \E t \in S, o \in StageOutcomes :
    graph[s].on[o] = [to |-> t, reentries |-> 0]

Legal ==
  /\ \A s \in Stages : Unknown \notin TargetsOf(s) \cup graph[s].body /\ Reachable(s)
  /\ ~Endless

ValidationTypeOK ==
  /\ verdict # "none" => graph \in Graphs
  /\ verdict \in {"none", "authored", "compiled", "accepted", "rejected"}
  /\ search \in {"none", "known", "reach", "cycles"}
  /\ pending \subseteq Stages
  /\ reachable \subseteq Stages /\ visited \subseteq Stages
  /\ \A i \in DOMAIN path :
       path[i].id \in Stages /\ path[i].left \subseteq Stages
  /\ position \in Stages \cup {Terminal}
  /\ taken \in [Stages -> [StageOutcomes -> Nat]]

(***************************************************************************)
(* The searches decide what they are for: a pipeline is accepted if and    *)
(* only if every edge leads somewhere, every stage can be reached, also    *)
(* through bodies that were compiled from files, and no set of stages can  *)
(* be walked without end.                                                  *)
(***************************************************************************)
VerdictIsRight ==
  /\ verdict = "accepted" => Legal
  /\ verdict = "rejected" => ~Legal

(***************************************************************************)
(* A run of an accepted pipeline ends, whatever the outcomes of its stages *)
(* are.                                                                    *)
(***************************************************************************)
AcceptedRunEnds == verdict = "accepted" ~> position = Terminal
=============================================================================

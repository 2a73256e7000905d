------------------------------- MODULE Steering -------------------------------
(***************************************************************************)
(* Guidance for a run that is under way: from a comment to the agent.        *)
(*                                                                          *)
(* A comment is a provider event of the inbox.  The worker turns it into a   *)
(* steering event whose envelope is sealed with the session that is live at  *)
(* that moment, delivers the steering event as a file of the sandbox when    *)
(* the session is still the same, and the hook of the agent's tool calls     *)
(* emits and then removes the files that are sealed for it.  The worker is   *)
(* one cycle: expired leases are recovered and executed, the inbox is        *)
(* drained, a new turn is leased and executed.  A turn is one lease of an    *)
(* attempt: its work, a retry of it, or the correction of its result; the    *)
(* epoch is the generation of that lease.                                    *)
(***************************************************************************)
EXTENDS Naturals, FiniteSets

CONSTANTS
    Comments,     \* the comments
    Long,         \* those with a body over the hook's limit of characters and
                  \* within the envelope's limit of bytes
    MaxTurns,     \* bound: the turns of the run
    MaxCrashes,   \* bound: deaths of the supervisor
    MaxFlukes,    \* bound: journals that cannot be written, fences in the way
    NoWords       \* nothing at hand

ASSUME SteeringAssumption ==
    Long \subseteq Comments /\ MaxTurns \in Nat /\ MaxCrashes \in Nat /\ MaxFlukes \in Nat

VARIABLES
    prompt,     \* the provider event of every comment
    steer,      \* its steering event and the session it is sealed with
    file,       \* the comments whose envelope is in the sandbox
    phase,      \* where the worker's cycle is; "down" when the process is dead
    after,      \* the phase that follows an execution
    hand,       \* the event at hand: its comment and what is left to do with it
    turn,       \* the current turn
    claimed,      \* its lease, and the epoch of it
    epoch,
    known,      \* the session of the turn is known
    agent,      \* the process of the turn: not launched, running, over
    admits,      \* the epoch the sandbox accepts
    emitted,    \* the files the hook has emitted and not removed yet
    ended,      \* the run is over
    heard,      \* history: the turns in which a comment was emitted
    crashes, flukes

steeringVars == <<prompt, steer, file, phase, after, hand, turn, claimed, epoch,
                  known, agent, admits, emitted, ended, heard, crashes, flukes>>

inbox == <<prompt, steer>>
session == <<turn, claimed, epoch, known, ended>>
sandbox == <<file, agent, admits, emitted, heard>>
worker == <<phase, after, hand>>

Binding == [turn : 0..MaxTurns, epoch : 0..MaxCrashes]
Unsealed == [turn |-> 0, epoch |-> 0]

SteeringTypeOK ==
    /\ prompt \in [Comments -> {"absent", "open", "consumed", "stale"}]
    /\ steer \in [Comments -> [status : {"absent", "open", "consumed", "stale"},
                              binding : Binding]]
    /\ file \subseteq Comments
    /\ phase \in {"down", "recover", "inbox", "lease", "execute"}
    /\ after \in {"inbox", "recover"}
    /\ hand \in [comment : Comments, todo : {"complete", "deliver", "finish"}]
               \cup {NoWords}
    /\ turn \in 0..MaxTurns /\ claimed \in {"none", "held", "expired"}
    /\ epoch \in 0..MaxCrashes /\ known \in BOOLEAN
    /\ agent \in {"off", "on", "over"} /\ admits \in 0..MaxCrashes \cup {NoWords}
    /\ emitted \subseteq file /\ ended \in BOOLEAN
    /\ heard \in [Comments -> SUBSET (1..MaxTurns)]
    /\ crashes \in 0..MaxCrashes /\ flukes \in 0..MaxFlukes

SteeringInit ==
    /\ prompt = [m \in Comments |-> "absent"]
    /\ steer = [m \in Comments |-> [status |-> "absent", binding |-> Unsealed]]
    /\ file = {} /\ phase = "recover" /\ after = "recover" /\ hand = NoWords
    /\ turn = 0 /\ claimed = "none" /\ epoch = 0 /\ known = FALSE
    /\ agent = "off" /\ admits = NoWords /\ emitted = {} /\ ended = FALSE
    /\ heard = [m \in Comments |-> {}]
    /\ crashes = 0 /\ flukes = 0

-----------------------------------------------------------------------------
(* Comments arrive                                                         *)

Arrive(m) ==
    /\ prompt[m] = "absent"
    /\ prompt' = [prompt EXCEPT ![m] = "open"]
    /\ UNCHANGED <<steer, session, sandbox, worker, crashes, flukes>>

-----------------------------------------------------------------------------
(* The inbox of a cycle                                                    *)

\* The session a message can be sealed with: bound, of a live phase, and with
\* a lease that has not expired.
Live == known /\ claimed = "held"
ThisTurn == [turn |-> turn, epoch |-> epoch]

\* Mutant of MayEnqueue: an event that exists is sealed again.
SealsAgain(m) == TRUE

\* The steering event of a comment is inserted once; the same event with
\* another binding is refused, and the comment's event is tried again later.
MayEnqueue(m) ==
    steer[m].status = "absent" \/ steer[m].binding = ThisTurn

Enqueue(m) ==
    /\ phase = "inbox" /\ hand = NoWords
    /\ prompt[m] = "open" /\ ~ended /\ Live /\ MayEnqueue(m)
    /\ steer' = IF steer[m].binding = ThisTurn THEN steer
                ELSE [steer EXCEPT ![m] = [status |-> "open", binding |-> ThisTurn]]
    /\ hand' = [comment |-> m, todo |-> "complete"]
    /\ UNCHANGED <<prompt, phase, after, session, sandbox, crashes, flukes>>

\* Mutant of TooLate: the status of the run is not looked at.
WaitsForASession(m) == FALSE /\ prompt[m] = "open" /\ UNCHANGED steeringVars

\* A comment for a run that is over is stale.
TooLate(m) ==
    /\ phase = "inbox" /\ hand = NoWords
    /\ prompt[m] = "open" /\ ended
    /\ prompt' = [prompt EXCEPT ![m] = "stale"]
    /\ UNCHANGED <<steer, session, sandbox, worker, crashes, flukes>>

CompletePrompt ==
    /\ phase = "inbox" /\ hand # NoWords /\ hand.todo = "complete"
    /\ prompt' = [prompt EXCEPT ![hand.comment] = "consumed"]
    /\ hand' = NoWords
    /\ UNCHANGED <<steer, phase, after, session, sandbox, crashes, flukes>>

\* An envelope is delivered to the session it is sealed with, live and at the
\* same epoch of its lease.
Authorized(m) == Live /\ steer[m].binding = ThisTurn

Authorize(m) ==
    /\ phase = "inbox" /\ hand = NoWords /\ steer[m].status = "open"
    /\ \/ /\ Authorized(m)
          /\ hand' = [comment |-> m, todo |-> "deliver"]
          /\ UNCHANGED steer
       \/ /\ ~Authorized(m)
          /\ steer' = [steer EXCEPT ![m].status = "stale"]
          /\ UNCHANGED hand
    /\ UNCHANGED <<prompt, phase, after, session, sandbox, crashes, flukes>>

\* The file is staged, moved into place and read back; one that is there with
\* the same bytes is left alone.  A file that was drained is put back.
Deliver ==
    /\ phase = "inbox" /\ hand # NoWords /\ hand.todo = "deliver"
    /\ file' = file \cup {hand.comment}
    /\ hand' = [hand EXCEPT !.todo = "finish"]
    /\ UNCHANGED <<inbox, phase, after, session, agent, admits, emitted, heard,
                   crashes, flukes>>

FinishDelivery ==
    /\ phase = "inbox" /\ hand # NoWords /\ hand.todo = "finish"
    /\ steer' = [steer EXCEPT ![hand.comment].status = "consumed"]
    /\ hand' = NoWords
    /\ UNCHANGED <<prompt, phase, after, session, sandbox, crashes, flukes>>

-----------------------------------------------------------------------------
(* The rest of the cycle                                                   *)

\* An expired lease is taken over with the next epoch, and executed before
\* anything else of the cycle.
Recover ==
    /\ phase = "recover"
    /\ \/ /\ claimed = "expired"
          /\ claimed' = "held" /\ epoch' = epoch + 1
          /\ phase' = "execute" /\ after' = "inbox"
       \/ /\ claimed # "expired"
          /\ phase' = "inbox"
          /\ UNCHANGED <<claimed, epoch, after>>
    /\ UNCHANGED <<inbox, hand, turn, known, ended, sandbox, crashes, flukes>>

\* Events that are not due or that were put back do not hold the cycle.
LeaveInbox ==
    /\ phase = "inbox" /\ hand = NoWords
    /\ phase' = "lease"
    /\ UNCHANGED <<inbox, after, hand, session, sandbox, crashes, flukes>>

\* A new turn is a new lease; a correction keeps the session of the work.
LeaseTurn ==
    /\ phase = "lease"
    /\ \/ /\ claimed = "none" /\ turn < MaxTurns /\ ~ended
          /\ turn' = turn + 1 /\ claimed' = "held" /\ epoch' = 0
          /\ known' = FALSE \/ known' = known
          /\ agent' = "off" /\ admits' = NoWords
          /\ phase' = "execute" /\ after' = "recover"
       \/ /\ claimed # "none" \/ turn = MaxTurns \/ ended
          /\ phase' = "recover"
          /\ UNCHANGED <<turn, claimed, epoch, known, agent, admits, after>>
    /\ UNCHANGED <<inbox, hand, ended, file, emitted, heard, crashes, flukes>>

\* The fence is moved under the lock that the hook shares while it emits.
LockFree == emitted = {}

FenceTurn ==
    /\ phase = "execute" /\ LockFree /\ admits # epoch
    /\ admits' = epoch
    /\ UNCHANGED <<inbox, worker, session, file, agent, emitted, heard, crashes,
                   flukes>>

Launch ==
    /\ phase = "execute" /\ admits = epoch /\ agent = "off"
    /\ agent' = "on"
    /\ UNCHANGED <<inbox, worker, session, file, admits, emitted, heard, crashes,
                   flukes>>

\* The runner's report of its session is bound through the lease of the turn.
BindTurn ==
    /\ phase = "execute" /\ admits = epoch /\ agent = "on" /\ ~known
    /\ known' = TRUE
    /\ UNCHANGED <<inbox, worker, turn, claimed, epoch, ended, sandbox, crashes,
                   flukes>>

\* The turn's result is collected; the next turn is its correction, a retry or
\* a successor, and the last one ends the run.
CollectTurn ==
    /\ phase = "execute" /\ admits = epoch /\ agent = "over"
    /\ claimed' = "none"
    /\ ended' = TRUE \/ ended' = (turn = MaxTurns)
    /\ phase' = after
    /\ UNCHANGED <<inbox, after, hand, turn, epoch, known, sandbox, crashes, flukes>>

-----------------------------------------------------------------------------
(* The sandbox                                                             *)

\* Mutant of ForThisAgent: the hook does not compare the epoch of the lease.
AnyEpoch(m) == steer[m].binding.turn = turn /\ m \notin Long

\* What the hook takes: sealed for the turn it was launched for and for the
\* epoch the sandbox accepts, with a body within its limit.
ForThisAgent(m) ==
    /\ steer[m].binding.turn = turn
    /\ steer[m].binding.epoch = admits
    /\ m \notin Long

Emit ==
    LET due == {m \in file : ForThisAgent(m)}
    IN /\ agent = "on" /\ known /\ emitted = {} /\ due # {}
       /\ emitted' = due
       /\ heard' = [m \in Comments |->
                      IF m \in due THEN heard[m] \cup {turn} ELSE heard[m]]
       /\ UNCHANGED <<inbox, worker, session, file, agent, admits, crashes, flukes>>

Journal ==
    /\ emitted # {}
    /\ file' = file \ emitted
    /\ emitted' = {}
    /\ UNCHANGED <<inbox, worker, session, agent, admits, heard, crashes, flukes>>

\* A journal that cannot be written keeps the file.
JournalFails ==
    /\ emitted # {} /\ flukes < MaxFlukes
    /\ flukes' = flukes + 1 /\ emitted' = {}
    /\ UNCHANGED <<inbox, worker, session, file, agent, admits, heard, crashes>>

AgentEnds ==
    /\ agent = "on"
    /\ agent' = "over" /\ emitted' = {}
    /\ UNCHANGED <<inbox, worker, session, file, admits, heard, crashes, flukes>>

-----------------------------------------------------------------------------
(* Leases and the process                                                  *)

\* The lease is renewed while its turn is executed.
Expire ==
    /\ claimed = "held" /\ phase # "execute"
    /\ claimed' = "expired"
    /\ UNCHANGED <<inbox, worker, turn, epoch, known, ended, sandbox, crashes, flukes>>

Crash ==
    /\ phase # "down" /\ crashes < MaxCrashes
    /\ crashes' = crashes + 1
    /\ phase' = "down" /\ hand' = NoWords
    /\ UNCHANGED <<inbox, after, session, sandbox, flukes>>

Boot ==
    /\ phase = "down"
    /\ phase' = "recover"
    /\ UNCHANGED <<inbox, after, hand, session, sandbox, crashes, flukes>>

-----------------------------------------------------------------------------
HandleInbox ==
    \/ CompletePrompt \/ Deliver \/ FinishDelivery
    \/ \E m \in Comments : Enqueue(m) \/ TooLate(m) \/ Authorize(m)

Cycle ==
    \/ Boot \/ Recover \/ LeaveInbox \/ LeaseTurn
    \/ FenceTurn \/ Launch \/ BindTurn \/ CollectTurn

SteeringNext ==
    \/ \E m \in Comments : Arrive(m)
    \/ HandleInbox \/ Cycle
    \/ Emit \/ Journal \/ JournalFails \/ AgentEnds
    \/ Expire \/ Crash

SteeringSpec == SteeringInit /\ [][SteeringNext]_steeringVars

\* The worker's timer runs its cycles, every pass over the inbox takes what is
\* there, agents come to an end and time passes.
SteeringFairness ==
    /\ WF_steeringVars(Cycle) /\ SF_steeringVars(HandleInbox)
    /\ \A m \in Comments : SF_steeringVars(TooLate(m))
    /\ WF_steeringVars(Journal) /\ WF_steeringVars(AgentEnds) /\ WF_steeringVars(Expire)
FairSteeringSpec == SteeringSpec /\ SteeringFairness

-----------------------------------------------------------------------------
\* Guidance is heard in one turn at most, the one that was live when it was
\* sealed: not in the retry after it, nor in the successor it was not meant for,
\* whatever crashes and is handled again.
HeardInItsTurn ==
    \A m \in Comments : heard[m] \subseteq {steer[m].binding.turn}

\* What is emitted was sealed in the epoch the supervisor holds the lease with,
\* or in the one before, while the sandbox still accepts it.
EmittedInItsEpoch ==
    \A m \in emitted : steer[m].binding.epoch = admits /\ admits <= epoch

\* The event of a comment does not stay open: it is turned into guidance, or
\* it is stale when the run is over.
CommentSettles == \A m \in Comments : prompt[m] = "open" ~> prompt[m] # "open"

\* Guidance whose comment was consumed is heard, unless its turn ended first.
ConsumedIsHeard ==
    \A m \in Comments :
        (prompt[m] = "consumed" /\ steer[m].binding.turn = turn /\ agent = "over")
        => heard[m] # {}

\* A comment that arrives while a bound session is at work finds it still at
\* work when it is handled, when no process died.
HandledWhileAtWork ==
    [][\A m \in Comments :
         (crashes = 0 /\ prompt[m] = "open" /\ prompt'[m] # "open") => ~ended]_steeringVars

\* A comment is heard in the turn it was bound to and emitted in the epoch of the
\* agent that was to hear it.
SteeringSafe ==
    /\ HeardInItsTurn
    /\ EmittedInItsEpoch
=============================================================================

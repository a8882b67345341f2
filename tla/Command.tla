------------------------------- MODULE Command -------------------------------
(***************************************************************************)
(* services/command: a static registry of commands in groups, executed by  *)
(* ID, and a snapshot of the most recent result that other parts of the    *)
(* main loop (menu, telemetry) poll.  Calls are serial and a handler may   *)
(* not re-enter the service, so an execution is one step.                  *)
(***************************************************************************)
EXTENDS Integers, Sequences, FiniteSetsExt

CONSTANTS
    Registries,     \* the group tables offered to init
    CommandId,      \* the IDs passed to execute, registered or not
    HandlerStatus,  \* what handlers return
    MaxGroups,      \* MIZU_COMMAND_MAX_GROUPS, 16
    MaxCommands,    \* MIZU_COMMAND_MAX_COMMANDS, 64
    SequenceModulus \* 2^32: snapshot.sequence is uint32_t

ASSUME LimitsAssumption ==
    MaxGroups \in Nat /\ MaxCommands \in Nat /\ SequenceModulus \in Nat \ {0, 1}

(* A registry is a sequence of groups; a group has an ID, the validity of  *)
(* its name and pointers, and a sequence of commands with the same fields. *)
Entries(s) == {s[i] : i \in DOMAIN s}
ASSUME RegistriesAssumption ==
    \A registry \in Registries :
        /\ registry \in Seq(Entries(registry))
        /\ \A group \in Entries(registry) : group.commands \in Seq(Entries(group.commands))

VARIABLES
    initialized, groups, snapshot,  \* mizu_command_service_t
    result,     \* what the last call returned
    poll        \* the snapshot a client holds, and the executions since it

vars == <<initialized, groups, snapshot, result, poll>>

NoSnapshot == [command_id |-> 0, status |-> "OK", sequence |-> 0, has_result |-> FALSE]

-----------------------------------------------------------------------------
(* Plausible slips; no action uses them. *)
AfterExecutionSaturating(id, status) ==
    [command_id |-> id, status |-> status, has_result |-> TRUE,
     sequence |-> IF snapshot.sequence + 1 < SequenceModulus
                  THEN snapshot.sequence + 1 ELSE snapshot.sequence]

-----------------------------------------------------------------------------
(* mizu_command_id_exists: is the ID of command c of group g used earlier, *)
(* in a previous group or before c in g?                                   *)
IdExists(registry, g, c) ==
    \E h \in 1 .. g :
        \E d \in 1 .. (IF h = g THEN c - 1 ELSE Len(registry[h].commands)) :
            registry[h].commands[d].id = registry[g].commands[c].id

(* mizu_command_group_id_exists *)
GroupIdExists(registry, g) == \E h \in 1 .. g - 1 : registry[h].id = registry[g].id

PositionsBefore(registry, g) == UNION {{h} \X DOMAIN registry[h].commands : h \in 1 .. g - 1}
CommandsBefore(registry, g) == Cardinality(PositionsBefore(registry, g))

\* A plausible slip; nothing uses it.
GroupStatusPerGroupLimit(registry, g) ==
    IF ~registry[g].valid \/ registry[g].commands = << >> \/ GroupIdExists(registry, g)
    THEN "INVALID_ARGUMENT"
    ELSE IF Len(registry[g].commands) > MaxCommands THEN "OUT_OF_RANGE"
    ELSE IF \E c \in DOMAIN registry[g].commands :
               ~registry[g].commands[c].valid \/ IdExists(registry, g, c)
    THEN "INVALID_ARGUMENT" ELSE "OK"

(* The checks that mizu_command_service_init makes of one group, in order. *)
GroupStatus(registry, g) ==
    LET commands == registry[g].commands
    IN  IF ~registry[g].valid \/ commands = << >> \/ GroupIdExists(registry, g)
        THEN "INVALID_ARGUMENT"
        ELSE IF Len(commands) > MaxCommands - CommandsBefore(registry, g)
        THEN "OUT_OF_RANGE"
        ELSE IF \E c \in DOMAIN commands : ~commands[c].valid \/ IdExists(registry, g, c)
        THEN "INVALID_ARGUMENT"
        ELSE "OK"

RegistryStatus(registry) ==
    IF registry = << >> THEN "INVALID_ARGUMENT"
    ELSE IF Len(registry) > MaxGroups THEN "OUT_OF_RANGE"
    ELSE LET faulty == {g \in DOMAIN registry : GroupStatus(registry, g) # "OK"}
         IN  IF faulty = {} THEN "OK" ELSE GroupStatus(registry, Min(faulty))

(* mizu_command_find: the positions that hold the ID; the code takes the   *)
(* first one, and a bound registry has no second.                          *)
Positions(id) ==
    {p \in PositionsBefore(groups, Len(groups) + 1) : groups[p[1]].commands[p[2]].id = id}

(* What execute stores when the handler, or the failed lookup, has returned. *)
AfterExecution(id, status) ==
    [command_id |-> id, status |-> status, has_result |-> TRUE,
     sequence |-> (snapshot.sequence + 1) % SequenceModulus]

-----------------------------------------------------------------------------
Init ==
    /\ initialized = FALSE
    /\ groups = << >>
    /\ snapshot = NoSnapshot
    /\ result = "OK"
    /\ poll = [seen |-> NoSnapshot, since |-> 0]

ServiceInit(registry) ==
    /\ ~initialized
    /\ result' = RegistryStatus(registry)
    /\ IF RegistryStatus(registry) = "OK"
       THEN initialized' = TRUE /\ groups' = registry /\ snapshot' = NoSnapshot
       ELSE UNCHANGED <<initialized, groups, snapshot>>
    /\ UNCHANGED poll

(* A second init, or an execute before init. *)
CallRejected ==
    /\ result' = IF initialized THEN "INVALID_STATE" ELSE "NOT_INITIALIZED"
    /\ UNCHANGED <<initialized, groups, snapshot, poll>>

(* The client may fall behind, but not by a whole turn of the sequence.    *)
Executed(id, status) ==
    /\ initialized
    /\ poll.since < SequenceModulus - 1
    /\ snapshot' = AfterExecution(id, status)
    /\ result' = status
    /\ poll' = [poll EXCEPT !.since = @ + 1]
    /\ UNCHANGED <<initialized, groups>>

(* mizu_command_service_execute *)
Execute(id) ==
    /\ Positions(id) # {}
    /\ \E status \in HandlerStatus : Executed(id, status)

ExecuteUnknown(id) ==
    /\ Positions(id) = {}
    /\ Executed(id, "OUT_OF_RANGE")

(* A client calls mizu_command_service_get_snapshot. *)
Poll ==
    /\ initialized
    /\ poll' = [seen |-> snapshot, since |-> 0]
    /\ result' = "OK"
    /\ UNCHANGED <<initialized, groups, snapshot>>

Next ==
    \/ \E registry \in Registries : ServiceInit(registry)
    \/ CallRejected
    \/ \E id \in CommandId : Execute(id) \/ ExecuteUnknown(id)
    \/ Poll

Spec == Init /\ [][Next]_vars

-----------------------------------------------------------------------------
(* Properties *)

(* The nested searches of init accept exactly the tables without a fault:  *)
(* none with an ID repeated anywhere slips through, and none is refused    *)
(* without a reason.                                                       *)
SoundRegistry(registry) ==
    /\ Len(registry) \in 1 .. MaxGroups
    /\ \A g \in DOMAIN registry :
          /\ registry[g].valid /\ registry[g].commands # << >>
          /\ \A h \in DOMAIN registry :
                /\ registry[g].id = registry[h].id => g = h
                /\ \A c \in DOMAIN registry[g].commands, d \in DOMAIN registry[h].commands :
                      /\ registry[g].commands[c].valid
                      /\ registry[g].commands[c].id = registry[h].commands[d].id =>
                            <<g, c>> = <<h, d>>
    /\ CommandsBefore(registry, Len(registry) + 1) <= MaxCommands
ExactlySoundRegistriesAccepted ==
    ~initialized =>
        \A registry \in Registries : RegistryStatus(registry) = "OK" <=> SoundRegistry(registry)

(* A client that compares snapshots notices every execution, across the    *)
(* wrap of the sequence and for unregistered IDs too, and is never told of *)
(* one that did not happen.                                                *)
PollNoticesEveryExecution == poll.seen = snapshot <=> poll.since = 0
=============================================================================

--------------------------- MODULE ParameterService ---------------------------
(***************************************************************************)
(* services/parameter: a static registry of parameters in groups.  Calls   *)
(* by ID are routed to the getter and the setter of the parameter's owner, *)
(* as the service itself keeps no value; owners change theirs at any time. *)
(* Calls are serial.  A call that fails changes nothing, and neither does  *)
(* an init that is refused: a stutter.                                     *)
(***************************************************************************)
EXTENDS ParameterValue, Sequences, FiniteSets

CONSTANTS
    Registries,         \* the group tables offered to init
    MaxGroups,          \* MIZU_PARAMETER_MAX_GROUPS, 16
    MaxParameters,      \* MIZU_PARAMETER_MAX_PARAMETERS, 64
    Contexts,           \* the owners
    Held,               \* what each owner gives itself and is asked for
    StepCounts          \* of adjustments

(* A registry is a sequence of groups; a group has an ID, the validity of  *)
(* its name and pointers, and a sequence of parameters: descriptors with   *)
(* an ID and a context.                                                    *)
VARIABLES
    groups,     \* what init has bound, or << >>
    owners,     \* the values of the owners
    request     \* history: the last call by ID that changed a value, or "owner"

NoRequest == [op |-> "owner", id |-> 0, step_count |-> 0]

-----------------------------------------------------------------------------
(* A plausible slip; nothing uses it. *)
IdExistsInGroup(registry, g, p) ==
    \E q \in 1 .. p - 1 : registry[g].parameters[q].id = registry[g].parameters[p].id

-----------------------------------------------------------------------------
(* mizu_parameter_id_exists: in an earlier group, or earlier in this one.  *)
IdExists(registry, g, p) ==
    \E h \in 1 .. g :
        \E q \in 1 .. (IF h = g THEN p - 1 ELSE Len(registry[h].parameters)) :
            registry[h].parameters[q].id = registry[g].parameters[p].id

(* mizu_parameter_validate_current, for a getter that does not fail *)
CurrentValid(d) == InRange(d, owners[d.context])

(* What mizu_parameter_service_init demands of one group. *)
GroupSound(registry, g) ==
    LET parameters == registry[g].parameters
        before == Cardinality(UNION {{h} \X DOMAIN registry[h].parameters : h \in 1 .. g - 1})
    IN  /\ registry[g].valid /\ parameters # << >>
        /\ \A h \in 1 .. g - 1 : registry[h].id # registry[g].id
        /\ Len(parameters) <= MaxParameters - before
        /\ \A p \in DOMAIN parameters :
              /\ DescriptorStatus(parameters[p]) = "OK"
              /\ ~IdExists(registry, g, p)
              /\ CurrentValid(parameters[p])

ServiceInit(registry) ==
    /\ groups = << >>
    /\ Len(registry) \in 1 .. MaxGroups
    /\ \A g \in DOMAIN registry : GroupSound(registry, g)
    /\ groups' = registry
    /\ UNCHANGED <<owners, request>>

(* mizu_parameter_find: the first parameter with the ID. *)
Positions(id) ==
    {p \in UNION {{<<g, i>> : i \in DOMAIN groups[g].parameters} : g \in DOMAIN groups} :
        groups[p[1]].parameters[p[2]].id = id}
Find(id) ==
    LET first == CHOOSE p \in Positions(id) : \A q \in Positions(id) :
                    p[1] < q[1] \/ (p[1] = q[1] /\ p[2] <= q[2])
    IN  groups[first[1]].parameters[first[2]]

(* mizu_parameter_service_set_by_id, up to a setter that succeeds *)
MaySet(d, value) == d.writable /\ InRange(d, value)

Requested(op, id, step_count, value) ==
    /\ owners' = [owners EXCEPT ![Find(id).context] = value]
    /\ request' = [op |-> op, id |-> id, step_count |-> step_count]
    /\ UNCHANGED groups

SetById(id, value) ==
    /\ Positions(id) # {} /\ MaySet(Find(id), value)
    /\ Requested("set", id, 0, value)

(* mizu_parameter_service_get_by_id, for a getter that does not fail *)
GetById(id) == IF CurrentValid(Find(id)) THEN "OK" ELSE "INVALID_DATA"

(* mizu_parameter_service_adjust_by_id: read, adjust, write. *)
AdjustById(id, step_count) ==
    /\ Positions(id) # {} /\ Find(id).writable /\ step_count # 0
    /\ GetById(id) = "OK"
    /\ LET d == Find(id)
           value == owners[d.context]
           adjusted == AdjustValue(d, value, d.step, step_count)
       IN  /\ AdjustStatus(d, value, d.step) = "OK" /\ MaySet(d, adjusted)
           /\ Requested("adjust", id, step_count, adjusted)

(* The business changes its own value, to anything it likes. *)
OwnerChanges(context, value) ==
    /\ owners' = [owners EXCEPT ![context] = value]
    /\ request' = NoRequest
    /\ UNCHANGED groups

RegisteredIds == UNION {{groups[g].parameters[p].id : p \in DOMAIN groups[g].parameters} :
                           g \in DOMAIN groups}

Init ==
    /\ groups = << >> /\ request = NoRequest
    /\ owners \in {values \in [Contexts -> UNION {Held[context] : context \in Contexts}] :
                      \A context \in Contexts : values[context] \in Held[context]}

Next ==
    \/ \E registry \in Registries : ServiceInit(registry)
    \/ \E id \in RegisteredIds : \/ \E value \in Held[Find(id).context] : SetById(id, value)
                                 \/ \E step_count \in StepCounts : AdjustById(id, step_count)
    \/ \E context \in Contexts : \E value \in Held[context] : OwnerChanges(context, value)

Spec == Init /\ [][Next]_<<groups, owners, request>>

-----------------------------------------------------------------------------
(* In every registry that init has accepted, each parameter is found under *)
(* its ID, and what a client does by ID changes the value of that owner    *)
(* only: to one within its limits, by an adjustment only from one within   *)
(* its limits and in the direction that was asked for.                     *)
ServesOwner ==
    /\ \A g \in DOMAIN groups : \A p \in DOMAIN groups[g].parameters :
          Find(groups[g].parameters[p].id) = groups[g].parameters[p]
    /\ \A context \in Contexts :
          owners'[context] # owners[context] /\ request'.op # "owner" =>
              LET d == Find(request'.id)
              IN  /\ d.context = context /\ MaySet(d, owners'[context])
                  /\ request'.op = "adjust" =>
                        /\ InRange(d, owners[context])
                        /\ owners'[context] > owners[context] <=> request'.step_count > 0
=============================================================================

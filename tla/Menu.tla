-------------------------------- MODULE Menu --------------------------------
(***************************************************************************)
(* services/menu: the debug menus of a device.  Every interaction channel  *)
(* (a display with keys, a Bluetooth session) has a menu of its own, with  *)
(* its own navigation, draft and step cache; all menus share the parameter *)
(* service, which routes reads and writes to the owners of the values, and *)
(* the command service.  All calls are serial, in any order.               *)
(*                                                                         *)
(* An event the current state does not accept returns INVALID_STATE and    *)
(* changes nothing, as does an init that is refused: a stutter.            *)
(***************************************************************************)
EXTENDS ParameterValue, FiniteSets

CONSTANTS
    MenuId,             \* the menu instances
    Descriptor,         \* the registered parameters: descriptors by ID
    Commands,           \* the IDs of the registered commands
    OwnerValue,         \* the values a parameter may ever have
    Configs,            \* the configurations, by name
    Devices,            \* the devices to check: see DevicesAssumption
    Failure,            \* what getters, setters and handlers return, other than OK
    TimeModulus,        \* 2^32: times are uint32_t milliseconds
    SequenceModulus,    \* 2^32: the sequence of the command snapshot
    VisibleCounts,      \* how many components a display shows at once
    None                \* no editing session, no configuration

(* A configuration has roots by index, the feedback duration and the size  *)
(* of the step cache.  A root item is a group with items by index, or a    *)
(* display page with a page_count, and has an id.  An item is a parameter, *)
(* or a command with a flag that asks for confirmation.                    *)
Indexed(sequence) ==
    /\ IsFiniteSet(DOMAIN sequence)
    /\ DOMAIN sequence = 0 .. Cardinality(DOMAIN sequence) - 1
ASSUME ConfigsAssumption == \A name \in DOMAIN Configs :
    /\ Indexed(Configs[name].roots)
    /\ \A r \in DOMAIN Configs[name].roots :
          LET root == Configs[name].roots[r]
          IN  \/ root.kind = "PAGE" /\ root.page_count \in Nat
              \/ root.kind = "GROUP" /\ Indexed(root.items)

ParameterId == DOMAIN Descriptor
ASSUME DescriptorsAssumption == \A p \in ParameterId :
    Typed(Descriptor[p]) /\ DescriptorStatus(Descriptor[p]) = "OK"
ASSUME ValuesAssumption ==
    /\ OwnerValue \subseteq Int
    /\ \A p \in ParameterId : Descriptor[p].minimum .. Descriptor[p].maximum \subseteq OwnerValue
ASSUME VisibleAssumption == VisibleCounts \subseteq Nat \ {0}
ASSUME NoneAssumption == None \notin [parameter : ParameterId, base : Int]

(* A device has some of the menus, which its code tries to initialise with *)
(* any of the configs, and an environment: the parameters that matter, the *)
(* values their owners give them (also out of range), the amounts in the   *)
(* events, and how much time may pass between two calls.                   *)
ASSUME DevicesAssumption == \A d \in Devices :
    /\ d.menus \subseteq MenuId /\ d.configs \subseteq DOMAIN Configs
    /\ d.parameters \subseteq ParameterId /\ d.values \subseteq OwnerValue
    /\ d.amounts \subseteq Int /\ d.elapse \subseteq Nat
ASSUME TimeModulusAssumption == TimeModulus \in Nat \ {0}

VARIABLES
    device,     \* which device this is; it never changes
    owner,      \* the business owners' values, by parameter
    snapshot,   \* the command service's snapshot
    now,        \* the time the callers pass
    menu,       \* mizu_menu_service_t of each instance
    age         \* history: time since the feedback of each menu was set

vars == <<device, owner, snapshot, now, menu, age>>

-----------------------------------------------------------------------------
(* Plausible slips; no action uses them. *)
MoveIndexTruncating(index, count, amount) ==
    IF amount >= 0 THEN (index + amount) % count
    ELSE LET delta == (-amount) % count
         IN  IF delta >= index THEN count - (delta - index) ELSE index - delta
ExpiredUnsigned(deadline) == now >= deadline
PageCountFull(total, visible) == total \div visible + 1
Lesser(a, b) == IF a < b THEN a ELSE b

-----------------------------------------------------------------------------
(* mizu_menu_move_index: a cyclic move that never leaves size_t. *)
MoveIndex(index, count, amount) ==
    LET delta == Magnitude(amount) % count
    IN  IF amount >= 0
        THEN IF delta > count - index - 1 THEN index - (count - delta) ELSE index + delta
        ELSE IF delta > index THEN count - (delta - index) ELSE index - delta

Config(m) == Configs[menu[m].config]
Roots(m) == Config(m).roots
Root(m) == Roots(m)[menu[m].root_index]
Item(m) == Root(m).items[menu[m].item_index]
Edited(m) == Item(m).parameter
D(m) == Descriptor[Edited(m)]
At(m, state) == menu[m].state = state
OnParameter(m) == Item(m).kind = "PARAMETER"

Initialized == {m \in MenuId : ~At(m, "UNINITIALIZED")}
Editing(m) == menu[m].state \in {"PARAMETER_EDIT", "STEP_EDIT"}

NoFeedback == [active |-> FALSE, reason |-> "NONE", status |-> "OK", deadline |-> 0]

(* mizu_menu_set_parameter_feedback and mizu_menu_set_command_feedback *)
Feedback(m, reason, status) ==
    [active |-> TRUE, reason |-> reason, status |-> status,
     deadline |-> (now + Config(m).feedback_duration) % TimeModulus]

\* Slips again: a read that trusts the owner, a commit that trusts its draft.
GetStatusTrusting(p, g) == g
UnchangedSinceRead(m) == TRUE
MayRunAnyCommand(m) == At(m, "COMMAND_CONFIRM") \/ (At(m, "GROUP") /\ ~OnParameter(m))

(* mizu_parameter_service_get_by_id for a getter that returns status g. *)
GetStatus(p, g) == IF g # "OK" THEN g
                   ELSE IF InRange(Descriptor[p], owner[p]) THEN "OK" ELSE "INVALID_DATA"

(* The owner's value, read again at the commit, is still the one that the  *)
(* draft started from.                                                     *)
StillOriginal(m) == owner[Edited(m)] = menu[m].original_value

(* mizu_parameter_service_set_by_id for a setter that returns status s. *)
SetStatus(p, v, s) == IF InRange(Descriptor[p], v) THEN s ELSE "OUT_OF_RANGE"

(* A menu without a draft; the code leaves dead values in these fields.    *)
Undrafted(r) == [r EXCEPT !.edit_value = 0, !.original_value = 0]

Becomes(m, record) ==
    menu' = [menu EXCEPT ![m] = record] /\ UNCHANGED <<device, owner, snapshot, now, age>>
BecomesWith(m, record, feedback) ==
    /\ menu' = [menu EXCEPT ![m] = [record EXCEPT !.feedback = feedback]]
    /\ age' = [age EXCEPT ![m] = 0]
    /\ UNCHANGED device

(* What an item is bound to. *)
Target(item) == IF item.kind = "PARAMETER" THEN <<item.kind, item.parameter>>
                ELSE <<item.kind, item.command>>

CallStatus == Failure \cup {"OK"}

-----------------------------------------------------------------------------
Uninitialized ==
    [config |-> None, state |-> "UNINITIALIZED", root_index |-> 0, item_index |-> 0,
     subpage |-> 0, step |-> << >>, edit_value |-> 0, original_value |-> 0,
     original_step |-> 0, feedback |-> NoFeedback]

Init ==
    /\ device \in Devices
    /\ owner \in [ParameterId -> device.values]
    /\ \A p \in ParameterId \ device.parameters : owner[p] = CHOOSE v \in device.values : TRUE
    /\ snapshot = [command |-> 0, sequence |-> 0]
    /\ now = 0
    /\ menu = [m \in MenuId |-> Uninitialized]
    /\ age = [m \in MenuId |-> 0]

(* mizu_menu_group_id_exists and mizu_menu_page_id_exists *)
IdExists(roots, r) ==
    \E earlier \in 0 .. r - 1 : roots[earlier].kind = roots[r].kind /\ roots[earlier].id = roots[r].id

(* mizu_menu_binding_exists: an earlier item shows the same target.        *)
BindingExists(roots, r, i) ==
    \E earlier \in 0 .. r :
        /\ roots[earlier].kind = "GROUP"
        /\ \E j \in DOMAIN roots[earlier].items :
              /\ earlier = r => j < i
              /\ Target(roots[earlier].items[j]) = Target(roots[r].items[i])

(* mizu_menu_validate_item *)
ItemSound(roots, r, i) ==
    LET item == roots[r].items[i]
    IN  /\ IF item.kind = "PARAMETER"
           THEN item.parameter \in ParameterId /\ Descriptor[item.parameter].writable
           ELSE item.command \in Commands
        /\ ~BindingExists(roots, r, i)

(* mizu_menu_validate_roots *)
RootSound(roots, r) ==
    /\ IF roots[r].kind = "GROUP"
       THEN /\ DOMAIN roots[r].items # {}
            /\ \A i \in DOMAIN roots[r].items : ItemSound(roots, r, i)
       ELSE roots[r].page_count > 0
    /\ ~IdExists(roots, r)

(* The checks of mizu_menu_init *)
ConfigSound(config) ==
    /\ DOMAIN config.roots # {}
    /\ config.feedback_duration \in 1 .. TimeModulus \div 2 - 1
    /\ config.step_cache_count = Cardinality(ParameterId)
    /\ \A r \in DOMAIN config.roots : RootSound(config.roots, r)

MenuInit(m, name) ==
    /\ At(m, "UNINITIALIZED") /\ ConfigSound(Configs[name])
    /\ Becomes(m, [Uninitialized EXCEPT !.config = name, !.state = "ROOT",
                      !.step = [p \in ParameterId |-> Descriptor[p].step]])

(* mizu_menu_handle_root *)
RootMove(m, amount) ==
    /\ At(m, "ROOT")
    /\ Becomes(m, [menu[m] EXCEPT !.root_index = MoveIndex(@, Cardinality(DOMAIN Roots(m)), amount)])

RootActivate(m) ==
    /\ At(m, "ROOT")
    /\ Becomes(m, IF Root(m).kind = "GROUP"
                  THEN [menu[m] EXCEPT !.state = "GROUP", !.item_index = 0]
                  ELSE [menu[m] EXCEPT !.state = "DISPLAY_PAGE", !.subpage = 0])

(* mizu_menu_handle_group *)
GroupMove(m, amount) ==
    /\ At(m, "GROUP")
    /\ Becomes(m, [menu[m] EXCEPT
          !.item_index = MoveIndex(@, Cardinality(DOMAIN Root(m).items), amount)])

GroupBack(m) == At(m, "GROUP") /\ Becomes(m, [menu[m] EXCEPT !.state = "ROOT"])

\* mizu_menu_enter_parameter_edit, with the getter's status
EnterEdit(m, g) ==
    /\ At(m, "GROUP") /\ OnParameter(m)
    /\ GetStatus(Edited(m), g) = "OK"
    /\ Becomes(m, [menu[m] EXCEPT !.state = "PARAMETER_EDIT",
                      !.edit_value = owner[Edited(m)], !.original_value = owner[Edited(m)]])

EnterEditFails(m, g) ==
    /\ At(m, "GROUP") /\ OnParameter(m)
    /\ GetStatus(Edited(m), g) # "OK"
    /\ BecomesWith(m, menu[m], Feedback(m, "READ_FAILED", GetStatus(Edited(m), g)))
    /\ UNCHANGED <<owner, snapshot, now>>

OpenConfirm(m) ==
    /\ At(m, "GROUP") /\ ~OnParameter(m) /\ Item(m).confirm
    /\ Becomes(m, [menu[m] EXCEPT !.state = "COMMAND_CONFIRM"])

(* Where ACTIVATE runs the shown command. *)
MayRun(m) == \/ At(m, "GROUP") /\ ~OnParameter(m) /\ ~Item(m).confirm
             \/ At(m, "COMMAND_CONFIRM")

(* mizu_menu_execute_command, from the group or from the confirmation; the *)
(* handler does what the business wants, which may be to set a parameter.  *)
ExecuteCommand(m, status) ==
    /\ MayRun(m)
    /\ \/ UNCHANGED owner
       \/ \E p \in device.parameters : owner' = [owner EXCEPT ![p] = Descriptor[p].minimum]
    /\ snapshot' = [command |-> Item(m).command,
                    sequence |-> (snapshot.sequence + 1) % SequenceModulus]
    /\ BecomesWith(m, [menu[m] EXCEPT !.state = "GROUP"], Feedback(m, "RESULT", status))
    /\ UNCHANGED now

(* mizu_menu_handle_command_confirm *)
ConfirmBack(m) == At(m, "COMMAND_CONFIRM") /\ Becomes(m, [menu[m] EXCEPT !.state = "GROUP"])

-----------------------------------------------------------------------------
(* mizu_menu_handle_parameter_edit *)
EditAdjust(m, amount) ==
    /\ At(m, "PARAMETER_EDIT")
    /\ LET step == menu[m].step[Edited(m)]
           status == AdjustStatus(D(m), menu[m].edit_value, step)
       IN  IF status = "OK"
           THEN Becomes(m, [menu[m] EXCEPT
                              !.edit_value = AdjustValue(D(m), @, step, amount)])
           ELSE /\ BecomesWith(m, menu[m], Feedback(m, "WRITE_FAILED", status))
                /\ UNCHANGED <<owner, snapshot, now>>

OpenStepEditor(m) ==
    /\ At(m, "PARAMETER_EDIT")
    /\ D(m).type # "BOOL" /\ D(m).minimum # D(m).maximum
    /\ Becomes(m, [menu[m] EXCEPT !.state = "STEP_EDIT",
                                  !.original_step = menu[m].step[Edited(m)]])

EditBack(m) ==
    At(m, "PARAMETER_EDIT") /\ Becomes(m, [Undrafted(menu[m]) EXCEPT !.state = "GROUP"])

\* ACTIVATE: the commit reads the owner's value again before it writes.
CommitReadFails(m, g) ==
    /\ At(m, "PARAMETER_EDIT")
    /\ GetStatus(Edited(m), g) # "OK"
    /\ BecomesWith(m, menu[m], Feedback(m, "READ_FAILED", GetStatus(Edited(m), g)))
    /\ UNCHANGED <<owner, snapshot, now>>

CommitConflict(m) ==
    /\ At(m, "PARAMETER_EDIT")
    /\ GetStatus(Edited(m), "OK") = "OK" /\ ~StillOriginal(m)
    /\ BecomesWith(m, [menu[m] EXCEPT !.edit_value = owner[Edited(m)],
                                      !.original_value = owner[Edited(m)]],
                   Feedback(m, "CONFLICT", "INVALID_STATE"))
    /\ UNCHANGED <<owner, snapshot, now>>

CommitRejected(m, s) ==
    /\ At(m, "PARAMETER_EDIT")
    /\ GetStatus(Edited(m), "OK") = "OK" /\ StillOriginal(m)
    /\ SetStatus(Edited(m), menu[m].edit_value, s) # "OK"
    /\ BecomesWith(m, menu[m],
                   Feedback(m, "WRITE_FAILED", SetStatus(Edited(m), menu[m].edit_value, s)))
    /\ UNCHANGED <<owner, snapshot, now>>

CommitApplied(m) ==
    /\ At(m, "PARAMETER_EDIT")
    /\ GetStatus(Edited(m), "OK") = "OK" /\ StillOriginal(m)
    /\ SetStatus(Edited(m), menu[m].edit_value, "OK") = "OK"
    /\ owner' = [owner EXCEPT ![Edited(m)] = menu[m].edit_value]
    /\ BecomesWith(m, [Undrafted(menu[m]) EXCEPT !.state = "GROUP"], Feedback(m, "APPLIED", "OK"))
    /\ UNCHANGED <<snapshot, now>>

(* mizu_menu_handle_step_edit *)
StepScale(m, direction) ==
    /\ At(m, "STEP_EDIT")
    /\ Becomes(m, [menu[m] EXCEPT !.step[Edited(m)] = ScaleStep(D(m), @, direction)])

StepAccept(m) ==
    At(m, "STEP_EDIT") /\ Becomes(m, [menu[m] EXCEPT !.state = "PARAMETER_EDIT",
                                                     !.original_step = 0])

StepCancel(m) ==
    /\ At(m, "STEP_EDIT")
    /\ Becomes(m, [menu[m] EXCEPT !.state = "PARAMETER_EDIT", !.original_step = 0,
                                  !.step[Edited(m)] = menu[m].original_step])

(* mizu_menu_handle_display_page *)
PageMove(m, amount) ==
    /\ At(m, "DISPLAY_PAGE")
    /\ Becomes(m, [menu[m] EXCEPT !.subpage = MoveIndex(@, Root(m).page_count, amount)])

PageBack(m) == At(m, "DISPLAY_PAGE") /\ Becomes(m, [menu[m] EXCEPT !.state = "ROOT"])

-----------------------------------------------------------------------------
(* mizu_menu_process: (int32_t)(now - deadline) >= 0 *)
Expired(deadline) == (now - deadline) % TimeModulus < TimeModulus \div 2

Process(m) ==
    /\ menu[m].feedback.active /\ Expired(menu[m].feedback.deadline)
    /\ menu' = [menu EXCEPT ![m].feedback = NoFeedback]
    /\ age' = [age EXCEPT ![m] = 0]
    /\ UNCHANGED <<device, owner, snapshot, now>>

(* Time passes.  Callers process an active feedback at least once in the   *)
(* half range after its deadline, as the signed comparison demands.        *)
Tick(ms) ==
    /\ \A m \in MenuId :
          menu[m].feedback.active =>
              age[m] + ms < Config(m).feedback_duration + TimeModulus \div 2
    /\ now' = (now + ms) % TimeModulus
    /\ age' = [m \in MenuId |-> IF menu[m].feedback.active THEN age[m] + ms ELSE 0]
    /\ UNCHANGED <<device, owner, snapshot, menu>>

(* The owner, or a client that calls mizu_parameter_service_set_by_id.     *)
OwnerChanges(p, v) ==
    /\ owner' = [owner EXCEPT ![p] = v]
    /\ UNCHANGED <<device, snapshot, now, menu, age>>

Event(m) ==
    \/ \E amount \in device.amounts : \/ RootMove(m, amount) \/ GroupMove(m, amount)
                               \/ PageMove(m, amount) \/ EditAdjust(m, amount)
    \/ RootActivate(m) \/ GroupBack(m) \/ PageBack(m)
    \/ \E status \in CallStatus : \/ EnterEdit(m, status) \/ EnterEditFails(m, status)
                                  \/ ExecuteCommand(m, status)
                                  \/ CommitReadFails(m, status) \/ CommitRejected(m, status)
    \/ OpenConfirm(m) \/ ConfirmBack(m)
    \/ OpenStepEditor(m) \/ EditBack(m) \/ CommitConflict(m) \/ CommitApplied(m)
    \/ \E direction \in {-1, 0, 1} : StepScale(m, direction)
    \/ StepAccept(m) \/ StepCancel(m)

Next ==
    \/ \E m \in device.menus :
          Event(m) \/ Process(m) \/ \E name \in device.configs : MenuInit(m, name)
    \/ \E ms \in device.elapse : Tick(ms)
    \/ \E p \in device.parameters, v \in device.values : OwnerChanges(p, v)

Spec == Init /\ [][Next]_vars

-----------------------------------------------------------------------------
(* What mizu_menu_query_view shows.  Components are known by the index of  *)
(* their item; getters succeed here, as a failing one only marks its own   *)
(* component.                                                              *)
PageCount(total, visible) ==
    total \div visible + IF total % visible # 0 THEN 1 ELSE 0

ListView(total, index, visible) ==
    LET first == (index \div visible) * visible
        count == Lesser(total - first, visible)
    IN  [total |-> total, shown |-> first .. first + count - 1, selected |-> index,
         page_index |-> first \div visible, page_count |-> PageCount(total, visible)]

SingleView(index) ==
    [total |-> 1, shown |-> {index}, selected |-> index, page_index |-> 0, page_count |-> 1]

QueryView(m, visible) ==
    CASE At(m, "ROOT") ->
            ListView(Cardinality(DOMAIN Roots(m)), menu[m].root_index, visible)
      [] At(m, "GROUP") ->
            ListView(Cardinality(DOMAIN Root(m).items), menu[m].item_index, visible)
      [] At(m, "DISPLAY_PAGE") ->
            [SingleView(menu[m].subpage) EXCEPT !.page_index = menu[m].subpage,
                                                !.page_count = Root(m).page_count]
      [] OTHER -> SingleView(menu[m].item_index)

(* mizu_menu_fill_group_component and mizu_menu_fill_editor_component: the *)
(* value, and its status.                                                  *)
ShownValue(m, i) ==
    LET p == Root(m).items[i].parameter
    IN  IF Editing(m) THEN [parameter |-> p, value |-> menu[m].edit_value, status |-> "OK"]
        ELSE [parameter |-> p, value |-> owner[p], status |-> GetStatus(p, "OK")]

-----------------------------------------------------------------------------
(* Properties *)

(* The handlers read menu->config through the indices and a union without  *)
(* any check: whatever configuration init accepted, and whatever cyclic    *)
(* moves led here, the indices exist, the selected target is of the kind   *)
(* that the state takes it for, and no two items edit one parameter.       *)
TargetMatchesState ==
    \A m \in Initialized :
        /\ menu[m].root_index \in DOMAIN Roots(m)
        /\ menu[m].state = "DISPLAY_PAGE" =>
              Root(m).kind = "PAGE" /\ menu[m].subpage \in 0 .. Root(m).page_count - 1
        /\ menu[m].state \notin {"ROOT", "DISPLAY_PAGE"} =>
              /\ Root(m).kind = "GROUP" /\ menu[m].item_index \in DOMAIN Root(m).items
              /\ ~BindingExists(Roots(m), menu[m].root_index, menu[m].item_index)
        /\ Editing(m) => OnParameter(m)
        /\ menu[m].state = "COMMAND_CONFIRM" => ~OnParameter(m) /\ Item(m).confirm

(* Whatever the owner holds and however the draft, its base and its step   *)
(* are adjusted, the draft of an editor can be adjusted and committed: a   *)
(* write only fails because the owner's setter refuses it.                 *)
DraftCommittable ==
    \A m \in MenuId :
        /\ Editing(m) =>
              /\ InRange(D(m), menu[m].edit_value)
              /\ InRange(D(m), menu[m].original_value)
              /\ AdjustStatus(D(m), menu[m].edit_value, menu[m].step[Edited(m)]) = "OK"
        /\ menu[m].state = "STEP_EDIT" => RuntimeStepStatus(D(m), menu[m].original_step) = "OK"
        /\ menu[m].feedback.reason = "WRITE_FAILED" => menu[m].feedback.status \in Failure

(* Whatever size the display has, a list is shown on as few pages as its   *)
(* components need, and on the page that has the selected one, which is    *)
(* full unless it is the last; a value that is shown as valid is within    *)
(* the limits shown with it.                                               *)
ViewShowsSelection ==
    \A m \in Initialized, visible \in VisibleCounts :
        LET view == QueryView(m, visible)
        IN  /\ view.selected \in view.shown /\ Cardinality(view.shown) <= visible
            /\ view.page_index \in 0 .. view.page_count - 1
            /\ ~At(m, "DISPLAY_PAGE") =>
                  /\ (view.page_count - 1) * visible < view.total
                  /\ view.total <= view.page_count * visible
                  /\ view.page_index < view.page_count - 1 => Cardinality(view.shown) = visible
            /\ ~At(m, "ROOT") /\ Root(m).kind = "GROUP" =>
                  \A i \in {j \in view.shown : Root(m).items[j].kind = "PARAMETER"} :
                      LET shown == ShownValue(m, i)
                      IN  shown.status = "OK" => InRange(Descriptor[shown.parameter], shown.value)

(* A feedback is shown for exactly its duration, also when the deadline or *)
(* the clock wraps: process finds it expired when its age says so, neither *)
(* earlier nor later.                                                      *)
FeedbackTimely ==
    \A m \in MenuId :
        menu[m].feedback.active =>
            (Expired(menu[m].feedback.deadline) <=> age[m] >= Config(m).feedback_duration)

(* A command runs because one menu shows it to its user, who has confirmed *)
(* it there where the menu asks for that, whatever the other menus do; and *)
(* that user is told the result.                                           *)
CommandRunsAsConfirmed ==
    [][snapshot' # snapshot =>
         \E m \in Initialized :
            /\ ~OnParameter(m) /\ Item(m).command = snapshot'.command
            /\ Item(m).confirm => menu[m].state = "COMMAND_CONFIRM"
            /\ menu'[m].feedback.reason = "RESULT" /\ menu'[m].feedback.active
            /\ menu'[m].state = "GROUP"]_vars

(* The menus together implement optimistic editing: no commit overwrites a *)
(* value that the user has not seen.                                       *)
EditedAbstract(m) ==
    IF Editing(m) THEN [parameter |-> Edited(m), base |-> menu[m].original_value] ELSE None
EditorsAbstract == INSTANCE Editors WITH
    Menu <- MenuId, Parameter <- ParameterId, Value <- OwnerValue,
    values <- owner, session <- [m \in MenuId |-> EditedAbstract(m)]
ImplementsEditors == EditorsAbstract!Spec
=============================================================================

----------------------------- MODULE Menu_proofs -----------------------------
(***************************************************************************)
(* A menu never loses its way: for every configuration that init accepts,  *)
(* any number of menus and any sequence of events, the indices through     *)
(* which the handlers read the configuration exist, and what they find     *)
(* there is of the kind that the state takes it for.  On top of that: what *)
(* a page shows, that drafts can be committed, for which the lemmas on     *)
(* parameter values are extended, and that menus implement editors.        *)
(***************************************************************************)
EXTENDS Menu, ParameterEdit_proofs, FiniteSetTheorems, TLAPS

RootsOf(r) == Configs[r.config].roots
RootOf(r) == RootsOf(r)[r.root_index]
ItemOf(r) == RootOf(r).items[r.item_index]

InGroup == {"GROUP", "PARAMETER_EDIT", "STEP_EDIT", "COMMAND_CONFIRM"}

IsMenu(r) ==
    DOMAIN r = {"config", "state", "root_index", "item_index", "subpage", "step",
                "edit_value", "original_value", "original_step", "feedback"}

OnRoot(r) ==
    /\ r.config \in DOMAIN Configs /\ ConfigSound(Configs[r.config])
    /\ r.root_index \in DOMAIN RootsOf(r)

OnItem(r) == RootOf(r).kind = "GROUP" /\ r.item_index \in DOMAIN RootOf(r).items

OnTarget(r) ==
    /\ r.state \in {"UNINITIALIZED", "ROOT", "DISPLAY_PAGE"} \cup InGroup
    /\ r.state # "UNINITIALIZED" => OnRoot(r)
    /\ r.state = "DISPLAY_PAGE" =>
          RootOf(r).kind = "PAGE" /\ r.subpage \in 0 .. RootOf(r).page_count - 1
    /\ r.state \in InGroup => OnItem(r)
    /\ r.state \in {"PARAMETER_EDIT", "STEP_EDIT"} => ItemOf(r).kind = "PARAMETER"
    /\ r.state = "COMMAND_CONFIRM" => ItemOf(r).kind # "PARAMETER" /\ ItemOf(r).confirm

IInv ==
    /\ device \in Devices
    /\ menu = [m \in MenuId |-> menu[m]]
    /\ \A m \in MenuId : IsMenu(menu[m]) /\ OnTarget(menu[m])

-----------------------------------------------------------------------------
(* A cyclic move stays among the indices, whatever the amount.             *)
LEMMA MoveStaysInside ==
    ASSUME NEW count \in Nat \ {0}, NEW index \in 0 .. count - 1, NEW amount \in Int
    PROVE  MoveIndex(index, count, amount) \in 0 .. count - 1
<1> DEFINE delta == Magnitude(amount) % count
<1>1. delta \in 0 .. count - 1
  <2>1. Magnitude(amount) \in Nat
    BY DEF Magnitude
  <2> QED BY <2>1
<1> HIDE DEF delta
<1>2. MoveIndex(index, count, amount) =
          IF amount >= 0
          THEN IF delta > count - index - 1 THEN index - (count - delta) ELSE index + delta
          ELSE IF delta > index THEN count - (delta - index) ELSE index - delta
  BY DEF MoveIndex, delta
<1> QED BY <1>1, <1>2

LEMMA MoveStaysIndexed ==
    ASSUME NEW sequence, Indexed(sequence), NEW index \in DOMAIN sequence, NEW amount \in Int
    PROVE  MoveIndex(index, Cardinality(DOMAIN sequence), amount) \in DOMAIN sequence
<1>1. Cardinality(DOMAIN sequence) \in Nat \ {0}
  BY FS_CardinalityType, FS_EmptySet DEF Indexed
<1> QED BY <1>1, MoveStaysInside DEF Indexed

(* What init has checked of a root *)
LEMMA SoundRoot ==
    ASSUME NEW r, OnRoot(r)
    PROVE  /\ Indexed(RootsOf(r))
           /\ \/ /\ RootOf(r).kind = "PAGE" /\ RootOf(r).page_count \in Nat \ {0}
              \/ /\ RootOf(r).kind = "GROUP" /\ Indexed(RootOf(r).items)
                 /\ 0 \in DOMAIN RootOf(r).items
           /\ RootOf(r).kind = "GROUP" =>
                 \A i \in DOMAIN RootOf(r).items : ~BindingExists(RootsOf(r), r.root_index, i)
<1>1. RootSound(RootsOf(r), r.root_index)
  BY DEF OnRoot, ConfigSound, RootsOf
<1>2. /\ Indexed(RootsOf(r))
      /\ \/ RootOf(r).kind = "PAGE" /\ RootOf(r).page_count \in Nat
         \/ RootOf(r).kind = "GROUP" /\ Indexed(RootOf(r).items)
  BY ConfigsAssumption DEF OnRoot, RootsOf, RootOf
<1>3. CASE RootOf(r).kind = "PAGE"
  BY <1>1, <1>2, <1>3 DEF RootSound, RootOf
<1>4. CASE RootOf(r).kind = "GROUP"
  <2>1. Indexed(RootOf(r).items) /\ DOMAIN RootOf(r).items # {}
    BY <1>1, <1>2, <1>4 DEF RootSound, RootOf
  <2>2. 0 \in DOMAIN RootOf(r).items
    <3>1. Cardinality(DOMAIN RootOf(r).items) \in Nat \ {0}
      BY <2>1, FS_CardinalityType, FS_EmptySet DEF Indexed
    <3> QED BY <2>1, <3>1 DEF Indexed
  <2>3. \A i \in DOMAIN RootOf(r).items : ~BindingExists(RootsOf(r), r.root_index, i)
    BY <1>1, <1>4 DEF RootSound, RootOf, ItemSound
  <2> QED BY <1>2, <1>4, <2>1, <2>2, <2>3
<1> QED BY <1>2, <1>3, <1>4

-----------------------------------------------------------------------------
(* One menu changes to a record that is on its target.                     *)
LEMMA OneChanges ==
    ASSUME IInv, NEW m \in MenuId, NEW r, IsMenu(r), OnTarget(r), UNCHANGED device,
           menu' = [menu EXCEPT ![m] = r]
    PROVE  IInv'
<1>1. \A n \in MenuId : menu'[n] = IF n = m THEN r ELSE menu[n]
  BY DEF IInv
<1>2. menu' = [n \in MenuId |-> menu'[n]]
  BY DEF IInv
<1> QED BY <1>1, <1>2 DEF IInv

(* The menu stays where it is, in the same state or in one that fits.      *)
LEMMA StaysThere ==
    ASSUME IInv, NEW m \in MenuId, NEW r, IsMenu(r), UNCHANGED device,
           menu' = [menu EXCEPT ![m] = r],
           r.config = menu[m].config, r.root_index = menu[m].root_index,
           r.item_index = menu[m].item_index, r.subpage = menu[m].subpage,
           \/ r.state = menu[m].state
           \/ menu[m].state # "UNINITIALIZED" /\ r.state = "ROOT"
           \/ menu[m].state \in InGroup /\ r.state = "GROUP"
           \/ /\ menu[m].state \in InGroup /\ OnParameter(m)
              /\ r.state \in {"PARAMETER_EDIT", "STEP_EDIT"}
           \/ /\ menu[m].state \in InGroup /\ ~OnParameter(m) /\ Item(m).confirm
              /\ r.state = "COMMAND_CONFIRM"
    PROVE  IInv'
<1>1. IsMenu(menu[m]) /\ OnTarget(menu[m])
  BY DEF IInv
<1>2. /\ OnRoot(menu[m]) => OnRoot(r)
      /\ RootOf(r) = RootOf(menu[m]) /\ ItemOf(r) = ItemOf(menu[m])
      /\ OnItem(menu[m]) => OnItem(r)
  BY DEF OnRoot, OnItem, RootOf, RootsOf, ItemOf
<1>3. Item(m) = ItemOf(menu[m])
  BY DEF Item, Root, Roots, Config, ItemOf, RootOf, RootsOf
<1>4. OnTarget(r)
  BY <1>1, <1>2, <1>3 DEF OnTarget, InGroup, OnParameter
<1> QED BY <1>4, OneChanges

-----------------------------------------------------------------------------
LEMMA Initiation == Init => IInv
<1> SUFFICES ASSUME Init PROVE IInv
  OBVIOUS
<1>1. menu = [m \in MenuId |-> Uninitialized] /\ device \in Devices
  BY DEF Init
<1>2. IsMenu(Uninitialized) /\ OnTarget(Uninitialized)
  BY DEF IsMenu, Uninitialized, OnTarget, InGroup
<1> QED BY <1>1, <1>2 DEF IInv

LEMMA InitStep ==
    ASSUME IInv, NEW m \in MenuId, NEW name \in device.configs, MenuInit(m, name)
    PROVE  IInv'
<1> DEFINE step == [p \in ParameterId |-> Descriptor[p].step]
           r == [Uninitialized EXCEPT !.config = name, !.state = "ROOT", !.step = step]
<1>1. name \in DOMAIN Configs /\ ConfigSound(Configs[name])
  BY DevicesAssumption DEF IInv, MenuInit
<1>2. 0 \in DOMAIN Configs[name].roots
  <2>1. Indexed(Configs[name].roots) /\ DOMAIN Configs[name].roots # {}
    BY <1>1, ConfigsAssumption DEF ConfigSound
  <2>2. Cardinality(DOMAIN Configs[name].roots) \in Nat \ {0}
    BY <2>1, FS_CardinalityType, FS_EmptySet DEF Indexed
  <2> QED BY <2>1, <2>2 DEF Indexed
<1>3. r.config = name /\ r.state = "ROOT" /\ r.root_index = 0 /\ IsMenu(r)
  <2>1. IsMenu(Uninitialized) /\ Uninitialized.root_index = 0
    BY DEF IsMenu, Uninitialized
  <2> HIDE DEF step
  <2>2. r = [Uninitialized EXCEPT !.config = name, !.state = "ROOT", !.step = step]
    OBVIOUS
  <2> HIDE DEF r
  <2> QED BY <2>1, <2>2 DEF IsMenu
<1>4. menu' = [menu EXCEPT ![m] = r] /\ UNCHANGED device
  BY DEF MenuInit, Becomes
<1> HIDE DEF r
<1>5. OnTarget(r)
  BY <1>1, <1>2, <1>3 DEF OnTarget, OnRoot, RootsOf, InGroup
<1> QED BY <1>3, <1>4, <1>5, OneChanges

(* Moves among the roots, the items of a group and the pages of a display. *)
LEMMA MoveSteps ==
    ASSUME IInv, NEW m \in MenuId, NEW amount \in device.amounts,
           RootMove(m, amount) \/ GroupMove(m, amount) \/ PageMove(m, amount)
    PROVE  IInv'
<1>1. amount \in Int
  BY DevicesAssumption DEF IInv
<1>2. IsMenu(menu[m]) /\ OnTarget(menu[m])
  BY DEF IInv
<1>3. CASE RootMove(m, amount)
  <2> DEFINE index == MoveIndex(menu[m].root_index, Cardinality(DOMAIN Roots(m)), amount)
             r == [menu[m] EXCEPT !.root_index = index]
  <2>1. menu' = [menu EXCEPT ![m] = r] /\ UNCHANGED device /\ menu[m].state = "ROOT"
    BY <1>3 DEF RootMove, Becomes, At
  <2>2. OnRoot(menu[m]) /\ Roots(m) = RootsOf(menu[m])
    BY <1>2, <2>1 DEF OnTarget, Roots, Config, RootsOf
  <2>3. index \in DOMAIN RootsOf(menu[m])
    BY <1>1, <2>2, SoundRoot, MoveStaysIndexed DEF OnRoot
  <2> HIDE DEF index
  <2>4. /\ IsMenu(r) /\ r.config = menu[m].config /\ r.root_index = index
        /\ r.state = "ROOT"
    BY <1>2, <2>1 DEF IsMenu
  <2> HIDE DEF r
  <2>5. OnTarget(r)
    BY <2>2, <2>3, <2>4 DEF OnTarget, OnRoot, RootsOf, InGroup
  <2> QED BY <2>1, <2>4, <2>5, OneChanges
<1>4. CASE GroupMove(m, amount)
  <2> DEFINE index == MoveIndex(menu[m].item_index, Cardinality(DOMAIN Root(m).items), amount)
             r == [menu[m] EXCEPT !.item_index = index]
  <2>1. menu' = [menu EXCEPT ![m] = r] /\ UNCHANGED device /\ menu[m].state = "GROUP"
    BY <1>4 DEF GroupMove, Becomes, At
  <2>2. OnRoot(menu[m]) /\ OnItem(menu[m]) /\ Root(m) = RootOf(menu[m])
    BY <1>2, <2>1 DEF OnTarget, InGroup, Root, Roots, Config, RootOf, RootsOf
  <2>3. index \in DOMAIN RootOf(menu[m]).items
    BY <1>1, <2>2, SoundRoot, MoveStaysIndexed DEF OnItem
  <2> HIDE DEF index
  <2>4. /\ IsMenu(r) /\ r.config = menu[m].config /\ r.root_index = menu[m].root_index
        /\ r.item_index = index /\ r.state = "GROUP"
    BY <1>2, <2>1 DEF IsMenu
  <2> HIDE DEF r
  <2>5. OnTarget(r)
    BY <2>2, <2>3, <2>4 DEF OnTarget, OnRoot, OnItem, RootOf, RootsOf, InGroup
  <2> QED BY <2>1, <2>4, <2>5, OneChanges
<1>5. CASE PageMove(m, amount)
  <2> DEFINE index == MoveIndex(menu[m].subpage, Root(m).page_count, amount)
             r == [menu[m] EXCEPT !.subpage = index]
  <2>1. menu' = [menu EXCEPT ![m] = r] /\ UNCHANGED device /\ menu[m].state = "DISPLAY_PAGE"
    BY <1>5 DEF PageMove, Becomes, At
  <2>2. /\ OnRoot(menu[m]) /\ Root(m) = RootOf(menu[m]) /\ RootOf(menu[m]).kind = "PAGE"
        /\ menu[m].subpage \in 0 .. RootOf(menu[m]).page_count - 1
    BY <1>2, <2>1 DEF OnTarget, Root, Roots, Config, RootOf, RootsOf
  <2>3. index \in 0 .. RootOf(menu[m]).page_count - 1
    <3>1. RootOf(menu[m]).page_count \in Nat \ {0}
      BY <2>2, SoundRoot
    <3> QED BY <1>1, <2>2, <3>1, MoveStaysInside
  <2> HIDE DEF index
  <2>4. /\ IsMenu(r) /\ r.config = menu[m].config /\ r.root_index = menu[m].root_index
        /\ r.subpage = index /\ r.state = "DISPLAY_PAGE"
    BY <1>2, <2>1 DEF IsMenu
  <2> HIDE DEF r
  <2>5. OnTarget(r)
    BY <2>2, <2>3, <2>4 DEF OnTarget, OnRoot, RootOf, RootsOf, InGroup
  <2> QED BY <2>1, <2>4, <2>5, OneChanges
<1> QED BY <1>3, <1>4, <1>5

(* ACTIVATE on a root enters its group or its pages.                       *)
LEMMA ActivateStep ==
    ASSUME IInv, NEW m \in MenuId, RootActivate(m)
    PROVE  IInv'
<1>1. IsMenu(menu[m]) /\ OnRoot(menu[m]) /\ UNCHANGED device /\ menu[m].state = "ROOT"
  BY DEF IInv, RootActivate, Becomes, OnTarget, At
<1>2. Root(m) = RootOf(menu[m])
  BY DEF Root, Roots, Config, RootOf, RootsOf
<1>3. CASE RootOf(menu[m]).kind = "GROUP"
  <2> DEFINE r == [menu[m] EXCEPT !.state = "GROUP", !.item_index = 0]
  <2>1. menu' = [menu EXCEPT ![m] = r]
    BY <1>2, <1>3 DEF RootActivate, Becomes
  <2>2. /\ IsMenu(r) /\ r.config = menu[m].config /\ r.root_index = menu[m].root_index
        /\ r.item_index = 0 /\ r.state = "GROUP"
    <3>1. r = [menu[m] EXCEPT !.state = "GROUP", !.item_index = 0]
      OBVIOUS
    <3> HIDE DEF r
    <3> QED BY <1>1, <3>1 DEF IsMenu
  <2>3. 0 \in DOMAIN RootOf(menu[m]).items
    BY <1>1, <1>3, SoundRoot
  <2> HIDE DEF r
  <2>4. OnTarget(r)
    BY <1>1, <1>3, <2>2, <2>3 DEF OnTarget, OnRoot, OnItem, RootOf, RootsOf, InGroup
  <2> QED BY <1>1, <2>1, <2>2, <2>4, OneChanges
<1>4. CASE RootOf(menu[m]).kind # "GROUP"
  <2> DEFINE r == [menu[m] EXCEPT !.state = "DISPLAY_PAGE", !.subpage = 0]
  <2>1. menu' = [menu EXCEPT ![m] = r]
    BY <1>2, <1>4 DEF RootActivate, Becomes
  <2>2. /\ IsMenu(r) /\ r.config = menu[m].config /\ r.root_index = menu[m].root_index
        /\ r.subpage = 0 /\ r.state = "DISPLAY_PAGE"
    <3>1. r = [menu[m] EXCEPT !.state = "DISPLAY_PAGE", !.subpage = 0]
      OBVIOUS
    <3> HIDE DEF r
    <3> QED BY <1>1, <3>1 DEF IsMenu
  <2>3. RootOf(menu[m]).kind = "PAGE" /\ RootOf(menu[m]).page_count \in Nat \ {0}
    BY <1>1, <1>4, SoundRoot
  <2> HIDE DEF r
  <2>4. OnTarget(r)
    BY <1>1, <2>2, <2>3 DEF OnTarget, OnRoot, RootOf, RootsOf, InGroup
  <2> QED BY <1>1, <2>1, <2>2, <2>4, OneChanges
<1> QED BY <1>3, <1>4

(* A change that leaves the menu where it is                               *)
InPlace(r, s) ==
    /\ IsMenu(s)
    /\ s.config = r.config /\ s.root_index = r.root_index
    /\ s.item_index = r.item_index /\ s.subpage = r.subpage

LEMMA Fed ==
    ASSUME NEW x, NEW r, InPlace(x, r), NEW f
    PROVE  InPlace(x, [r EXCEPT !.feedback = f]) /\ [r EXCEPT !.feedback = f].state = r.state
BY DEF InPlace, IsMenu

(* Where such a change may lead                                            *)
Leads(m, state) ==
    \/ state = menu[m].state
    \/ menu[m].state # "UNINITIALIZED" /\ state = "ROOT"
    \/ menu[m].state \in InGroup /\ state = "GROUP"
    \/ menu[m].state \in InGroup /\ OnParameter(m) /\ state \in {"PARAMETER_EDIT", "STEP_EDIT"}
    \/ /\ menu[m].state \in InGroup /\ ~OnParameter(m) /\ Item(m).confirm
       /\ state = "COMMAND_CONFIRM"

LEMMA PlaceKept ==
    ASSUME IInv, NEW m \in MenuId, NEW r, InPlace(menu[m], r), Leads(m, r.state),
           UNCHANGED device, menu' = [menu EXCEPT ![m] = r]
    PROVE  IInv'
BY StaysThere DEF InPlace, Leads

(* The same with a feedback                                                *)
LEMMA PlaceKeptWith ==
    ASSUME IInv, NEW m \in MenuId, NEW r, InPlace(menu[m], r), Leads(m, r.state),
           NEW f, BecomesWith(m, r, f)
    PROVE  IInv'
<1> DEFINE s == [r EXCEPT !.feedback = f]
<1>1. InPlace(menu[m], s) /\ s.state = r.state
  BY Fed
<1>2. menu' = [menu EXCEPT ![m] = s] /\ UNCHANGED device
  BY DEF BecomesWith
<1> HIDE DEF s
<1> QED BY <1>1, <1>2, PlaceKept

-----------------------------------------------------------------------------
(* What every other event does to the record of its menu                   *)
LEMMA StateSteps ==
    ASSUME IInv, NEW m \in MenuId,
           \/ GroupBack(m) \/ OpenConfirm(m) \/ ConfirmBack(m) \/ PageBack(m)
    PROVE  IInv'
<1>1. IsMenu(menu[m])
  BY DEF IInv
<1>2. PICK state : /\ menu' = [menu EXCEPT ![m] = [menu[m] EXCEPT !.state = state]]
                   /\ UNCHANGED device /\ Leads(m, state)
  BY DEF GroupBack, OpenConfirm, ConfirmBack, PageBack, Becomes, At, Leads, InGroup
<1> DEFINE r == [menu[m] EXCEPT !.state = state]
<1>3. InPlace(menu[m], r) /\ r.state = state
  BY <1>1 DEF InPlace, IsMenu
<1>4. menu' = [menu EXCEPT ![m] = r]
  BY <1>2
<1> HIDE DEF r
<1> QED BY <1>2, <1>3, <1>4, PlaceKept

LEMMA EditorSteps ==
    ASSUME IInv, NEW m \in MenuId,
           \/ \E g \in CallStatus : EnterEdit(m, g)
           \/ OpenStepEditor(m) \/ EditBack(m) \/ StepAccept(m) \/ StepCancel(m)
           \/ \E direction \in {-1, 0, 1} : StepScale(m, direction)
    PROVE  IInv'
<1>1. IsMenu(menu[m]) /\ OnTarget(menu[m]) /\ Item(m) = ItemOf(menu[m])
  BY DEF IInv, Item, Root, Roots, Config, ItemOf, RootOf, RootsOf
<1>2. CASE \E g \in CallStatus : EnterEdit(m, g)
  <2>1. PICK g \in CallStatus : EnterEdit(m, g)
    BY <1>2
  <2> DEFINE v == owner[Edited(m)]
             r == [menu[m] EXCEPT !.state = "PARAMETER_EDIT", !.edit_value = v,
                                  !.original_value = v]
  <2>2. menu' = [menu EXCEPT ![m] = r] /\ UNCHANGED device /\ Leads(m, "PARAMETER_EDIT")
    BY <2>1 DEF EnterEdit, Becomes, At, Leads, InGroup
  <2> HIDE DEF v
  <2>3. r = [menu[m] EXCEPT !.state = "PARAMETER_EDIT", !.edit_value = v, !.original_value = v]
    OBVIOUS
  <2> HIDE DEF r
  <2>4. InPlace(menu[m], r) /\ r.state = "PARAMETER_EDIT"
    BY <1>1, <2>3 DEF InPlace, IsMenu
  <2> QED BY <2>2, <2>4, PlaceKept
<1>3. CASE OpenStepEditor(m)
  <2> DEFINE v == menu[m].step[Edited(m)]
             r == [menu[m] EXCEPT !.state = "STEP_EDIT", !.original_step = v]
  <2>1. menu' = [menu EXCEPT ![m] = r] /\ UNCHANGED device
    BY <1>3 DEF OpenStepEditor, Becomes
  <2>2. Leads(m, "STEP_EDIT")
    BY <1>1, <1>3 DEF OpenStepEditor, At, Leads, InGroup, OnTarget, OnParameter
  <2> HIDE DEF v
  <2>3. r = [menu[m] EXCEPT !.state = "STEP_EDIT", !.original_step = v]
    OBVIOUS
  <2> HIDE DEF r
  <2>4. InPlace(menu[m], r) /\ r.state = "STEP_EDIT"
    BY <1>1, <2>3 DEF InPlace, IsMenu
  <2> QED BY <2>1, <2>2, <2>4, PlaceKept
<1>4. CASE EditBack(m)
  <2> DEFINE r == [Undrafted(menu[m]) EXCEPT !.state = "GROUP"]
  <2>1. menu' = [menu EXCEPT ![m] = r] /\ UNCHANGED device /\ Leads(m, "GROUP")
    BY <1>4 DEF EditBack, Becomes, At, Leads, InGroup
  <2>2. r = [[menu[m] EXCEPT !.edit_value = 0, !.original_value = 0] EXCEPT !.state = "GROUP"]
    BY DEF Undrafted
  <2> HIDE DEF r
  <2>3. InPlace(menu[m], r) /\ r.state = "GROUP"
    BY <1>1, <2>2 DEF InPlace, IsMenu
  <2> QED BY <2>1, <2>3, PlaceKept
<1>5. CASE StepAccept(m)
  <2> DEFINE r == [menu[m] EXCEPT !.state = "PARAMETER_EDIT", !.original_step = 0]
  <2>1. menu' = [menu EXCEPT ![m] = r] /\ UNCHANGED device
    BY <1>5 DEF StepAccept, Becomes
  <2>2. Leads(m, "PARAMETER_EDIT")
    BY <1>1, <1>5 DEF StepAccept, At, Leads, InGroup, OnTarget, OnParameter
  <2>3. r = [menu[m] EXCEPT !.state = "PARAMETER_EDIT", !.original_step = 0]
    OBVIOUS
  <2> HIDE DEF r
  <2>4. InPlace(menu[m], r) /\ r.state = "PARAMETER_EDIT"
    BY <1>1, <2>3 DEF InPlace, IsMenu
  <2> QED BY <2>1, <2>2, <2>4, PlaceKept
<1>6. CASE StepCancel(m)
  <2> DEFINE v == [menu[m].step EXCEPT ![Edited(m)] = menu[m].original_step]
             r == [menu[m] EXCEPT !.state = "PARAMETER_EDIT", !.original_step = 0, !.step = v]
  <2>1. menu' = [menu EXCEPT ![m] = r] /\ UNCHANGED device
    BY <1>1, <1>6 DEF StepCancel, Becomes, IsMenu
  <2>2. Leads(m, "PARAMETER_EDIT")
    BY <1>1, <1>6 DEF StepCancel, At, Leads, InGroup, OnTarget, OnParameter
  <2> HIDE DEF v
  <2>3. r = [menu[m] EXCEPT !.state = "PARAMETER_EDIT", !.original_step = 0, !.step = v]
    OBVIOUS
  <2> HIDE DEF r
  <2>4. InPlace(menu[m], r) /\ r.state = "PARAMETER_EDIT"
    BY <1>1, <2>3 DEF InPlace, IsMenu
  <2> QED BY <2>1, <2>2, <2>4, PlaceKept
<1>7. CASE \E direction \in {-1, 0, 1} : StepScale(m, direction)
  <2>1. PICK direction \in {-1, 0, 1} : StepScale(m, direction)
    BY <1>7
  <2> DEFINE v == [menu[m].step EXCEPT ![Edited(m)] = ScaleStep(D(m), @, direction)]
             r == [menu[m] EXCEPT !.step = v]
  <2>2. menu' = [menu EXCEPT ![m] = r] /\ UNCHANGED device
    BY <2>1 DEF StepScale, Becomes
  <2> HIDE DEF v
  <2>3. InPlace(menu[m], r) /\ r.state = menu[m].state
    BY <1>1 DEF InPlace, IsMenu
  <2> HIDE DEF r
  <2> QED BY <2>2, <2>3, PlaceKept DEF Leads
<1> QED BY <1>2, <1>3, <1>4, <1>5, <1>6, <1>7

LEMMA FeedbackSteps ==
    ASSUME IInv, NEW m \in MenuId,
           \/ \E status \in CallStatus :
                 \/ EnterEditFails(m, status) \/ ExecuteCommand(m, status)
                 \/ CommitReadFails(m, status) \/ CommitRejected(m, status)
           \/ \E amount \in device.amounts : EditAdjust(m, amount)
           \/ CommitConflict(m) \/ CommitApplied(m)
    PROVE  IInv'
<1>1. IsMenu(menu[m]) /\ InPlace(menu[m], menu[m]) /\ Leads(m, menu[m].state)
  BY DEF IInv, InPlace, Leads
<1>2. CASE \E f : BecomesWith(m, menu[m], f)
  BY <1>1, <1>2, PlaceKeptWith
<1>3. CASE \E v : Becomes(m, [menu[m] EXCEPT !.edit_value = v])
  <2>1. PICK v : Becomes(m, [menu[m] EXCEPT !.edit_value = v])
    BY <1>3
  <2> DEFINE r == [menu[m] EXCEPT !.edit_value = v]
  <2>2. InPlace(menu[m], r) /\ r.state = menu[m].state
    BY <1>1 DEF InPlace, IsMenu
  <2>3. menu' = [menu EXCEPT ![m] = r] /\ UNCHANGED device
    BY <2>1 DEF Becomes
  <2> HIDE DEF r
  <2> QED BY <2>2, <2>3, PlaceKept DEF Leads
<1>4. CASE \E status \in CallStatus : ExecuteCommand(m, status)
  <2> DEFINE r == [menu[m] EXCEPT !.state = "GROUP"]
  <2>1. PICK f : BecomesWith(m, r, f) /\ Leads(m, "GROUP")
    BY <1>4 DEF ExecuteCommand, MayRun, At, Leads, InGroup
  <2>2. InPlace(menu[m], r) /\ r.state = "GROUP"
    BY <1>1 DEF InPlace, IsMenu
  <2> HIDE DEF r
  <2> QED BY <2>1, <2>2, PlaceKeptWith
<1>5. CASE CommitConflict(m)
  <2> DEFINE v == owner[Edited(m)]
             r == [menu[m] EXCEPT !.edit_value = v, !.original_value = v]
  <2>1. PICK f : BecomesWith(m, r, f)
    BY <1>5 DEF CommitConflict
  <2> HIDE DEF v
  <2>2. r = [menu[m] EXCEPT !.edit_value = v, !.original_value = v]
    OBVIOUS
  <2> HIDE DEF r
  <2>3. InPlace(menu[m], r) /\ r.state = menu[m].state
    BY <1>1, <2>2 DEF InPlace, IsMenu
  <2> QED BY <1>1, <2>1, <2>3, PlaceKeptWith
<1>6. CASE CommitApplied(m)
  <2> DEFINE r == [Undrafted(menu[m]) EXCEPT !.state = "GROUP"]
  <2>1. PICK f : BecomesWith(m, r, f) /\ Leads(m, "GROUP")
    BY <1>6 DEF CommitApplied, At, Leads, InGroup
  <2>2. r = [[menu[m] EXCEPT !.edit_value = 0, !.original_value = 0] EXCEPT !.state = "GROUP"]
    BY DEF Undrafted
  <2> HIDE DEF r
  <2>3. InPlace(menu[m], r) /\ r.state = "GROUP"
    BY <1>1, <2>2 DEF InPlace, IsMenu
  <2> QED BY <2>1, <2>3, PlaceKeptWith
<1>7. CASE \E status \in CallStatus :
               \/ EnterEditFails(m, status) \/ CommitReadFails(m, status)
               \/ CommitRejected(m, status)
  <2>1. \E f : BecomesWith(m, menu[m], f)
    BY <1>7 DEF EnterEditFails, CommitReadFails, CommitRejected
  <2> QED BY <1>2, <2>1
<1>8. CASE \E amount \in device.amounts : EditAdjust(m, amount)
  <2>1. PICK amount \in device.amounts : EditAdjust(m, amount)
    BY <1>8
  <2>2. \/ \E f : BecomesWith(m, menu[m], f)
        \/ \E v : Becomes(m, [menu[m] EXCEPT !.edit_value = v])
    <3> DEFINE step == menu[m].step[Edited(m)]
               status == AdjustStatus(D(m), menu[m].edit_value, step)
    <3>1. CASE status = "OK"
      <4>1. Becomes(m, [menu[m] EXCEPT !.edit_value = AdjustValue(D(m), @, step, amount)])
        BY <2>1, <3>1 DEF EditAdjust
      <4> DEFINE v == AdjustValue(D(m), menu[m].edit_value, step, amount)
      <4>2. Becomes(m, [menu[m] EXCEPT !.edit_value = v])
        BY <4>1
      <4> HIDE DEF v
      <4> QED BY <4>2
    <3>2. CASE status # "OK"
      BY <2>1, <3>2 DEF EditAdjust
    <3> QED BY <3>1, <3>2
  <2> QED BY <1>2, <1>3, <2>2
<1> QED BY <1>4, <1>5, <1>6, <1>7, <1>8

LEMMA ProcessStep ==
    ASSUME IInv, NEW m \in MenuId, Process(m)
    PROVE  IInv'
<1> DEFINE r == [menu[m] EXCEPT !.feedback = NoFeedback]
<1>1. menu' = [menu EXCEPT ![m] = r] /\ UNCHANGED device
  BY DEF Process
<1>2. InPlace(menu[m], r) /\ r.state = menu[m].state
  BY DEF IInv, InPlace, IsMenu
<1> HIDE DEF r
<1> QED BY <1>1, <1>2, PlaceKept DEF Leads

-----------------------------------------------------------------------------
LEMMA Consecution == IInv /\ [Next]_vars => IInv'
<1> SUFFICES ASSUME IInv, [Next]_vars PROVE IInv'
  OBVIOUS
<1>1. CASE UNCHANGED <<device, menu>>
  BY <1>1 DEF IInv
<1>2. CASE \E ms \in device.elapse : Tick(ms)
  BY <1>1, <1>2 DEF Tick
<1>3. CASE \E p \in device.parameters, v \in device.values : OwnerChanges(p, v)
  BY <1>1, <1>3 DEF OwnerChanges
<1>4. ASSUME NEW m \in device.menus, Event(m) PROVE IInv'
  <2>1. m \in MenuId
    BY DevicesAssumption DEF IInv
  <2>2. \/ \E amount \in device.amounts :
              RootMove(m, amount) \/ GroupMove(m, amount) \/ PageMove(m, amount)
        \/ RootActivate(m)
        \/ GroupBack(m) \/ OpenConfirm(m) \/ ConfirmBack(m) \/ PageBack(m)
        \/ \E g \in CallStatus : EnterEdit(m, g)
        \/ OpenStepEditor(m) \/ EditBack(m) \/ StepAccept(m) \/ StepCancel(m)
        \/ \E direction \in {-1, 0, 1} : StepScale(m, direction)
        \/ \E status \in CallStatus :
              \/ EnterEditFails(m, status) \/ ExecuteCommand(m, status)
              \/ CommitReadFails(m, status) \/ CommitRejected(m, status)
        \/ \E amount \in device.amounts : EditAdjust(m, amount)
        \/ CommitConflict(m) \/ CommitApplied(m)
    BY <1>4 DEF Event
  <2> QED BY <2>1, <2>2, MoveSteps, ActivateStep, StateSteps, EditorSteps, FeedbackSteps
<1>5. ASSUME NEW m \in device.menus, Process(m) PROVE IInv'
  BY <1>5, ProcessStep, DevicesAssumption DEF IInv
<1>6. ASSUME NEW m \in device.menus, NEW name \in device.configs, MenuInit(m, name) PROVE IInv'
  BY <1>6, InitStep, DevicesAssumption DEF IInv
<1> QED BY <1>1, <1>2, <1>3, <1>4, <1>5, <1>6 DEF Next, vars

LEMMA Sufficiency == IInv => TargetMatchesState
<1> SUFFICES ASSUME IInv, NEW m \in Initialized
             PROVE  /\ menu[m].root_index \in DOMAIN Roots(m)
                    /\ menu[m].state = "DISPLAY_PAGE" =>
                          /\ Root(m).kind = "PAGE"
                          /\ menu[m].subpage \in 0 .. Root(m).page_count - 1
                    /\ menu[m].state \notin {"ROOT", "DISPLAY_PAGE"} =>
                          /\ Root(m).kind = "GROUP"
                          /\ menu[m].item_index \in DOMAIN Root(m).items
                          /\ ~BindingExists(Roots(m), menu[m].root_index, menu[m].item_index)
                    /\ Editing(m) => OnParameter(m)
                    /\ menu[m].state = "COMMAND_CONFIRM" => ~OnParameter(m) /\ Item(m).confirm
  BY DEF TargetMatchesState
<1>1. m \in MenuId /\ OnTarget(menu[m]) /\ menu[m].state # "UNINITIALIZED"
  BY DEF IInv, Initialized, At
<1>2. /\ Roots(m) = RootsOf(menu[m]) /\ Root(m) = RootOf(menu[m])
      /\ Item(m) = ItemOf(menu[m])
  BY DEF Item, Root, Roots, Config, ItemOf, RootOf, RootsOf
<1>3. OnRoot(menu[m])
  BY <1>1 DEF OnTarget
<1>4. menu[m].state \notin {"ROOT", "DISPLAY_PAGE"} => menu[m].state \in InGroup
  BY <1>1 DEF OnTarget, InGroup
<1>5. menu[m].state \in InGroup =>
          /\ OnItem(menu[m])
          /\ ~BindingExists(RootsOf(menu[m]), menu[m].root_index, menu[m].item_index)
  BY <1>1, <1>3, SoundRoot DEF OnTarget, OnItem
<1> QED BY <1>1, <1>2, <1>3, <1>4, <1>5 DEF OnTarget, OnRoot, OnItem, Editing, OnParameter

(* A command runs only from the menu that shows it.                        *)
LEMMA OnlyAsConfirmed ==
    ASSUME IInv, [Next]_vars, snapshot' # snapshot
    PROVE  \E m \in Initialized :
              /\ ~OnParameter(m) /\ Item(m).command = snapshot'.command
              /\ Item(m).confirm => menu[m].state = "COMMAND_CONFIRM"
              /\ menu'[m].feedback.reason = "RESULT" /\ menu'[m].feedback.active
              /\ menu'[m].state = "GROUP"
<1>1. PICK m \in device.menus, status \in CallStatus : ExecuteCommand(m, status)
  BY DEF Next, Event, vars, Process, MenuInit, Tick, OwnerChanges, RootMove, GroupMove,
         PageMove, EditAdjust, RootActivate, GroupBack, PageBack, EnterEdit, EnterEditFails,
         CommitReadFails, CommitRejected, OpenConfirm, ConfirmBack, OpenStepEditor, EditBack,
         CommitConflict, CommitApplied, StepScale, StepAccept, StepCancel, Becomes
<1>2. m \in MenuId /\ IsMenu(menu[m]) /\ OnTarget(menu[m])
  BY DevicesAssumption DEF IInv
<1>3. Item(m) = ItemOf(menu[m])
  BY DEF Item, Root, Roots, Config, ItemOf, RootOf, RootsOf
<1>4. /\ menu[m].state \in {"GROUP", "COMMAND_CONFIRM"} /\ ~OnParameter(m)
      /\ Item(m).confirm => menu[m].state = "COMMAND_CONFIRM"
  BY <1>1, <1>2, <1>3 DEF ExecuteCommand, MayRun, At, OnTarget, OnParameter
<1>5. m \in Initialized
  BY <1>2, <1>4 DEF Initialized, At
<1>6. snapshot'.command = Item(m).command
  BY <1>1 DEF ExecuteCommand
<1> DEFINE f == Feedback(m, "RESULT", status)
           r == [menu[m] EXCEPT !.state = "GROUP"]
           s == [r EXCEPT !.feedback = f]
<1>7. menu' = [menu EXCEPT ![m] = s]
  BY <1>1 DEF ExecuteCommand, BecomesWith
<1>8. f.reason = "RESULT" /\ f.active
  BY DEF Feedback
<1>9. s.state = "GROUP" /\ s.feedback = f
  <2> HIDE DEF f
  <2>1. IsMenu(r) /\ r.state = "GROUP"
    BY <1>2 DEF IsMenu
  <2> HIDE DEF r
  <2> QED BY <2>1 DEF IsMenu
<1> HIDE DEF f, s
<1>10. menu'[m] = s
  BY <1>2, <1>7 DEF IInv
<1> QED BY <1>4, <1>5, <1>6, <1>8, <1>9, <1>10

-----------------------------------------------------------------------------
(***************************************************************************)
(* The feedback.  Of an active one, the time since its deadline is the     *)
(* time that it is shown less its duration, apart from whole turns of the  *)
(* clock.                                                                  *)
(***************************************************************************)
Duration(r) == Configs[r.config].feedback_duration

Timed(r, shown) ==
    /\ r.state # "UNINITIALIZED"
    /\ shown \in Nat /\ shown < Duration(r) + TimeModulus \div 2
    /\ r.feedback.deadline \in Int
    /\ \E turns \in Int :
          now - r.feedback.deadline = shown - Duration(r) + TimeModulus * turns

TimeInv ==
    /\ now \in Nat /\ age = [m \in MenuId |-> age[m]]
    /\ \A m \in MenuId : menu[m].feedback.active => Timed(menu[m], age[m])

LEMMA RemainderIsUnique ==
    ASSUME NEW y \in Int, NEW k \in Int, NEW m \in Nat \ {0}, NEW r \in 0 .. m - 1,
           y = m * k + r
    PROVE  y % m = r
<1> DEFINE d == y \div m
           s == y % m
<1>1. d \in Int /\ s \in 0 .. m - 1 /\ y = m * d + s
  OBVIOUS
<1> HIDE DEF d, s
<1>2. m * (k - d) = s - r
  <2>1. m * (k - d) = m * k - m * d
    BY <1>1
  <2> QED BY <1>1, <2>1
<1>3. ~(k - d >= 1)
  <2> SUFFICES ASSUME k - d >= 1 PROVE FALSE
    OBVIOUS
  <2>1. m * (k - d) >= m
    BY <1>1
  <2> QED BY <1>1, <1>2, <2>1
<1>4. ~(k - d <= -1)
  <2> SUFFICES ASSUME k - d <= -1 PROVE FALSE
    OBVIOUS
  <2>1. m * (k - d) <= -m
    BY <1>1
  <2> QED BY <1>1, <1>2, <2>1
<1>5. k = d
  BY <1>1, <1>3, <1>4
<1> QED BY <1>1, <1>5 DEF s

LEMMA SoundDuration ==
    ASSUME NEW r, OnTarget(r), r.state # "UNINITIALIZED"
    PROVE  Duration(r) \in 1 .. TimeModulus \div 2 - 1
BY DEF OnTarget, OnRoot, ConfigSound, Duration

(* The signed comparison of process finds what the age says.               *)
LEMMA TimedExpires ==
    ASSUME now \in Nat, NEW r, OnTarget(r), NEW shown, Timed(r, shown)
    PROVE  Expired(r.feedback.deadline) <=> shown >= Duration(r)
<1> DEFINE half == TimeModulus \div 2
           deadline == r.feedback.deadline
           duration == Duration(r)
           y == now - deadline
<1>1. /\ TimeModulus \in Nat \ {0} /\ half \in Nat /\ 2 * half <= TimeModulus
      /\ shown \in Nat /\ shown < duration + half /\ deadline \in Int /\ y \in Int
  BY TimeModulusAssumption DEF Timed
<1>2. PICK turns \in Int : y = shown - duration + TimeModulus * turns
  BY DEF Timed
<1>3. duration \in 1 .. half - 1
  BY SoundDuration DEF Timed
<1>4. Expired(deadline) <=> y % TimeModulus < half
  BY DEF Expired
<1> HIDE DEF half, deadline, duration, y
<1>5. CASE shown >= duration
  <2>1. shown - duration \in 0 .. TimeModulus - 1 /\ y = TimeModulus * turns + (shown - duration)
    BY <1>1, <1>2, <1>3, <1>5
  <2>2. y % TimeModulus = shown - duration
    BY <1>1, <2>1, RemainderIsUnique
  <2> QED BY <1>1, <1>3, <1>4, <1>5, <2>2 DEF deadline, duration
<1>6. CASE shown < duration
  <2> DEFINE rest == shown - duration + TimeModulus
  <2>1. rest \in 0 .. TimeModulus - 1 /\ rest >= half
    BY <1>1, <1>3, <1>6
  <2>2. y = TimeModulus * (turns - 1) + rest
    <3>1. TimeModulus * (turns - 1) = TimeModulus * turns - TimeModulus
      BY <1>1
    <3> QED BY <1>1, <1>2, <1>3, <3>1
  <2> HIDE DEF rest
  <2>3. y % TimeModulus = rest
    BY <1>1, <2>1, <2>2, RemainderIsUnique
  <2> QED BY <1>1, <1>3, <1>4, <1>6, <2>1, <2>3 DEF deadline, duration
<1> QED BY <1>1, <1>3, <1>5, <1>6

(* The rest of a menu may change without its feedback.                     *)
Quiet(r, s) ==
    IsMenu(s) /\ s.config = r.config /\ s.feedback = r.feedback /\ s.state # "UNINITIALIZED"

LEMMA EventTells ==
    ASSUME IInv, NEW m \in MenuId, Event(m)
    PROVE  /\ menu[m].state # "UNINITIALIZED"
           /\ \/ \E r : Quiet(menu[m], r) /\ Becomes(m, r)
              \/ \E r, reason, status : /\ Quiet(menu[m], r) /\ UNCHANGED now
                                        /\ BecomesWith(m, r, Feedback(m, reason, status))
<1>1. IsMenu(menu[m]) /\ OnTarget(menu[m])
  BY DEF IInv
<1>2. menu[m].state # "UNINITIALIZED"
  BY <1>1 DEF Event, At, RootMove, GroupMove, PageMove, EditAdjust, RootActivate, GroupBack,
         PageBack, EnterEdit, EnterEditFails, ExecuteCommand, MayRun, CommitReadFails,
         CommitRejected, OpenConfirm, ConfirmBack, OpenStepEditor, EditBack, CommitConflict,
         CommitApplied, StepScale, StepAccept, StepCancel
<1>3. Quiet(menu[m], menu[m])
  BY <1>1, <1>2 DEF Quiet
<1>4. \A v : /\ Quiet(menu[m], [menu[m] EXCEPT !.root_index = v])
             /\ Quiet(menu[m], [menu[m] EXCEPT !.item_index = v])
             /\ Quiet(menu[m], [menu[m] EXCEPT !.subpage = v])
             /\ Quiet(menu[m], [menu[m] EXCEPT !.edit_value = v])
             /\ Quiet(menu[m], [menu[m] EXCEPT !.step = v])
             /\ v # "UNINITIALIZED" => Quiet(menu[m], [menu[m] EXCEPT !.state = v])
  BY <1>1, <1>2 DEF Quiet, IsMenu
<1>5. \A v, w : Quiet(menu[m], [menu[m] EXCEPT !.edit_value = v, !.original_value = w])
  BY <1>1, <1>2 DEF Quiet, IsMenu
<1>6. \A u, v : u # "UNINITIALIZED" =>
          /\ Quiet(menu[m], [menu[m] EXCEPT !.state = u, !.item_index = v])
          /\ Quiet(menu[m], [menu[m] EXCEPT !.state = u, !.subpage = v])
          /\ Quiet(menu[m], [menu[m] EXCEPT !.state = u, !.original_step = v])
  BY <1>1 DEF Quiet, IsMenu
<1>7. \A v, w : Quiet(menu[m], [menu[m] EXCEPT !.state = "PARAMETER_EDIT",
                                    !.edit_value = v, !.original_value = w])
  BY <1>1 DEF Quiet, IsMenu
<1>8. \A v, w : Quiet(menu[m], [menu[m] EXCEPT !.state = "PARAMETER_EDIT",
                                    !.original_step = v, !.step = w])
  BY <1>1 DEF Quiet, IsMenu
<1>9. Quiet(menu[m], [Undrafted(menu[m]) EXCEPT !.state = "GROUP"])
  <2>1. [Undrafted(menu[m]) EXCEPT !.state = "GROUP"] =
            [menu[m] EXCEPT !.edit_value = 0, !.original_value = 0, !.state = "GROUP"]
    BY DEF Undrafted
  <2> QED BY <1>1, <2>1 DEF Quiet, IsMenu
<1>10. CASE \E amount \in device.amounts :
               RootMove(m, amount) \/ GroupMove(m, amount) \/ PageMove(m, amount)
  BY <1>2, <1>4, <1>10 DEF RootMove, GroupMove, PageMove
<1>11. CASE RootActivate(m)
  BY <1>2, <1>6, <1>11 DEF RootActivate
<1>12. CASE GroupBack(m) \/ PageBack(m) \/ OpenConfirm(m) \/ ConfirmBack(m)
  BY <1>2, <1>4, <1>12 DEF GroupBack, PageBack, OpenConfirm, ConfirmBack
<1>13. CASE \/ \E status \in CallStatus : EnterEdit(m, status) \/ ExecuteCommand(m, status)
            \/ CommitConflict(m)
  BY <1>2, <1>4, <1>5, <1>7, <1>13 DEF EnterEdit, ExecuteCommand, CommitConflict
<1>14. CASE \E status \in CallStatus : \/ EnterEditFails(m, status)
                                       \/ CommitReadFails(m, status) \/ CommitRejected(m, status)
  BY <1>2, <1>3, <1>14 DEF EnterEditFails, CommitReadFails, CommitRejected
<1>15. CASE OpenStepEditor(m) \/ StepAccept(m)
  BY <1>2, <1>6, <1>15 DEF OpenStepEditor, StepAccept
<1>16. CASE EditBack(m) \/ CommitApplied(m)
  BY <1>2, <1>9, <1>16 DEF EditBack, CommitApplied
<1>17. CASE StepCancel(m)
  <2>1. PICK v : Becomes(m, [menu[m] EXCEPT !.state = "PARAMETER_EDIT",
                                            !.original_step = 0, !.step = v])
    BY <1>1, <1>17 DEF StepCancel, IsMenu
  <2> QED BY <1>2, <1>8, <2>1
<1>18. CASE \E direction \in {-1, 0, 1} : StepScale(m, direction)
  <2>1. PICK direction \in {-1, 0, 1} : StepScale(m, direction)
    BY <1>18
  <2>2. PICK v : Becomes(m, [menu[m] EXCEPT !.step = v])
    BY <2>1 DEF StepScale
  <2> QED BY <1>2, <1>4, <2>2
<1>19. CASE \E amount \in device.amounts : EditAdjust(m, amount)
  <2>1. PICK amount \in device.amounts : EditAdjust(m, amount)
    BY <1>19
  <2> DEFINE step == menu[m].step[Edited(m)]
             status == AdjustStatus(D(m), menu[m].edit_value, step)
             v == AdjustValue(D(m), menu[m].edit_value, step, amount)
  <2>2. CASE status = "OK"
    <3>1. Becomes(m, [menu[m] EXCEPT !.edit_value = v])
      BY <2>1, <2>2 DEF EditAdjust
    <3> HIDE DEF v
    <3> QED BY <1>2, <1>4, <3>1
  <2>3. CASE status # "OK"
    <3>1. BecomesWith(m, menu[m], Feedback(m, "WRITE_FAILED", status)) /\ UNCHANGED now
      BY <2>1, <2>3 DEF EditAdjust
    <3> HIDE DEF status
    <3> QED BY <1>2, <1>3, <3>1
  <2> QED BY <2>2, <2>3
<1> QED BY <1>10, <1>11, <1>12, <1>13, <1>14, <1>15, <1>16, <1>17, <1>18, <1>19 DEF Event

LEMMA MenuChanged ==
    ASSUME IInv, NEW m \in MenuId, NEW r, menu' = [menu EXCEPT ![m] = r]
    PROVE  \A n \in MenuId : menu'[n] = IF n = m THEN r ELSE menu[n]
BY DEF IInv

LEMMA TimeInitiation == Init => TimeInv
<1> SUFFICES ASSUME Init PROVE TimeInv
  OBVIOUS
<1>1. \A m \in MenuId : ~menu[m].feedback.active
  BY DEF Init, Uninitialized, NoFeedback
<1> QED BY <1>1 DEF Init, TimeInv

(* No step of a menu but the next event changes when it began to show.     *)
LEMMA QuietStep ==
    ASSUME IInv, TimeInv, NEW m \in MenuId, NEW r, Quiet(menu[m], r), Becomes(m, r)
    PROVE  TimeInv'
<1>1. /\ menu' = [menu EXCEPT ![m] = r] /\ UNCHANGED <<now, age>>
      /\ \A n \in MenuId : menu'[n] = IF n = m THEN r ELSE menu[n]
  BY MenuChanged DEF Becomes
<1>2. ASSUME NEW n \in MenuId, menu'[n].feedback.active PROVE Timed(menu[n], age[n])'
  <2>1. /\ Timed(menu[n], age[n]) /\ menu'[n].feedback = menu[n].feedback
        /\ menu'[n].config = menu[n].config /\ menu'[n].state # "UNINITIALIZED"
    BY <1>1, <1>2 DEF TimeInv, Quiet, Timed
  <2> QED BY <1>1, <2>1 DEF Timed, Duration
<1> QED BY <1>1, <1>2 DEF TimeInv

LEMMA FeedbackStep ==
    ASSUME IInv, TimeInv, NEW m \in MenuId, menu[m].state # "UNINITIALIZED",
           NEW r, Quiet(menu[m], r), UNCHANGED now,
           NEW reason, NEW status, BecomesWith(m, r, Feedback(m, reason, status))
    PROVE  TimeInv'
<1> DEFINE f == Feedback(m, reason, status)
           s == [r EXCEPT !.feedback = f]
           duration == Duration(menu[m])
<1>1. /\ menu' = [menu EXCEPT ![m] = s] /\ age' = [age EXCEPT ![m] = 0]
  BY DEF BecomesWith
<1>2. f.deadline = (now + duration) % TimeModulus
  BY DEF Feedback, Duration, Config
<1>3. duration \in 1 .. TimeModulus \div 2 - 1 /\ now \in Nat /\ TimeModulus \in Nat \ {0}
  BY SoundDuration, TimeModulusAssumption DEF IInv, TimeInv
<1> HIDE DEF f, duration
<1>4. s.feedback = f /\ s.config = menu[m].config /\ s.state # "UNINITIALIZED"
  BY DEF Quiet, IsMenu
<1> HIDE DEF s
<1>5. \A n \in MenuId : menu'[n] = IF n = m THEN s ELSE menu[n]
  BY <1>1, MenuChanged
<1>6. \A n \in MenuId : age'[n] = IF n = m THEN 0 ELSE age[n]
  BY <1>1 DEF TimeInv
<1>7. Timed(menu[m], age[m])'
  <2> DEFINE turns == (now + duration) \div TimeModulus
             deadline == (now + duration) % TimeModulus
  <2>1. turns \in Int /\ deadline \in Int /\ now + duration = TimeModulus * turns + deadline
    <3>1. now + duration \in Nat
      BY <1>3
    <3> HIDE DEF duration
    <3> QED BY <1>3, <3>1, Turns
  <2> HIDE DEF turns, deadline
  <2>2. now - deadline = 0 - duration + TimeModulus * turns
    BY <1>3, <2>1
  <2>3. /\ menu'[m].feedback.deadline = deadline /\ Duration(menu'[m]) = duration
        /\ age'[m] = 0 /\ menu'[m].state # "UNINITIALIZED" /\ now' = now
    BY <1>2, <1>4, <1>5, <1>6 DEF Duration, duration, deadline
  <2>4. 0 < duration + TimeModulus \div 2
    BY <1>3
  <2> QED BY <2>1, <2>2, <2>3, <2>4 DEF Timed
<1>8. ASSUME NEW n \in MenuId, n # m, menu'[n].feedback.active PROVE Timed(menu[n], age[n])'
  <2>1. Timed(menu[n], age[n]) /\ menu'[n] = menu[n] /\ age'[n] = age[n]
    BY <1>5, <1>6, <1>8 DEF TimeInv
  <2> QED BY <2>1 DEF Timed
<1>9. age' = [n \in MenuId |-> age'[n]]
  BY <1>1 DEF TimeInv
<1> QED BY <1>3, <1>7, <1>8, <1>9 DEF TimeInv

\* The arithmetic of a tick: both sides of the deadline's distance move by it.
LEMMA Rearranged ==
    ASSUME NEW a \in Int, NEW b \in Int, NEW ms \in Int, NEW y \in Int, NEW x \in Int,
           NEW d \in Int, NEW s \in Int, NEW u \in Int,
           a + ms = y + b, a - d = s - u + x
    PROVE  b - d = (s + ms) - u + (x - y)
OBVIOUS

LEMMA ClockStep ==
    ASSUME IInv, TimeInv, NEW ms \in device.elapse, Tick(ms)
    PROVE  TimeInv'
<1>1. ms \in Nat /\ now \in Nat /\ TimeModulus \in Nat \ {0}
  BY DevicesAssumption, TimeModulusAssumption DEF IInv, TimeInv
<1> DEFINE turn == (now + ms) \div TimeModulus
<1>2. now' \in Nat /\ turn \in Int /\ now + ms = TimeModulus * turn + now'
  BY <1>1 DEF Tick
<1> HIDE DEF turn
<1>3. menu' = menu /\ \A n \in MenuId :
          age'[n] = IF menu[n].feedback.active THEN age[n] + ms ELSE 0
  BY DEF Tick
<1>4. ASSUME NEW n \in MenuId, menu'[n].feedback.active PROVE Timed(menu[n], age[n])'
  <2> DEFINE deadline == menu[n].feedback.deadline
             duration == Duration(menu[n])
  <2>1. Timed(menu[n], age[n]) /\ age'[n] = age[n] + ms
    BY <1>3, <1>4 DEF TimeInv
  <2>2. duration \in 1 .. TimeModulus \div 2 - 1
    BY <2>1, SoundDuration DEF IInv, Timed
  <2>3. age[n] + ms < duration + TimeModulus \div 2
    BY <1>3, <1>4 DEF Tick, Config, Duration
  <2>4. PICK turns \in Int : now - deadline = age[n] - duration + TimeModulus * turns
    BY <2>1 DEF Timed
  <2>5. deadline \in Int /\ age[n] \in Nat
    BY <2>1 DEF Timed
  <2> HIDE DEF deadline, duration
  <2>6. now' - deadline = age'[n] - duration + TimeModulus * (turns - turn)
    <3> DEFINE x == TimeModulus * turns
               y == TimeModulus * turn
               shown == age[n]
               next == now'
    <3>1. TimeModulus * (turns - turn) = x - y
      BY <1>1, <1>2
    <3>2. x \in Int /\ y \in Int /\ next \in Int
      BY <1>1, <1>2
    <3>3. now + ms = y + next /\ now - deadline = shown - duration + x
      BY <1>2, <2>4
    <3>4. /\ now \in Int /\ duration \in Int /\ shown \in Int
          /\ ms \in Int /\ deadline \in Int
      BY <1>1, <2>2, <2>5
    <3> HIDE DEF x, y, shown, next
    <3>5. next - deadline = (shown + ms) - duration + (x - y)
      BY <3>2, <3>3, <3>4, Rearranged
    <3> QED BY <2>1, <3>1, <3>5 DEF shown, next
  <2>7. turns - turn \in Int /\ age'[n] \in Nat /\ age'[n] < duration + TimeModulus \div 2
    BY <1>1, <1>2, <2>1, <2>3, <2>5
  <2>8. menu'[n] = menu[n] /\ menu[n].state # "UNINITIALIZED"
    BY <1>3, <2>1 DEF Timed
  <2> QED BY <2>5, <2>6, <2>7, <2>8 DEF Timed, deadline, duration
<1>5. age' = [n \in MenuId |-> age'[n]]
  BY DEF Tick
<1> QED BY <1>2, <1>4, <1>5 DEF TimeInv

LEMMA SilentStep ==
    ASSUME IInv, TimeInv, NEW m \in MenuId,
           Process(m) \/ \E name \in device.configs : MenuInit(m, name)
    PROVE  TimeInv'
<1>1. /\ UNCHANGED now /\ age' = [n \in MenuId |-> age'[n]]
      /\ \A n \in MenuId \ {m} : menu'[n] = menu[n] /\ age'[n] = age[n]
  BY DEF Process, MenuInit, Becomes, IInv, TimeInv
<1>2. ~menu'[m].feedback.active
  <2>1. CASE Process(m)
    <3>1. menu'[m].feedback = NoFeedback
      BY <2>1 DEF Process, IInv, IsMenu
    <3> QED BY <3>1 DEF NoFeedback
  <2>2. ASSUME NEW name \in device.configs, MenuInit(m, name) PROVE ~menu'[m].feedback.active
    <3> DEFINE step == [p \in ParameterId |-> Descriptor[p].step]
               r == [Uninitialized EXCEPT !.config = name, !.state = "ROOT", !.step = step]
    <3>1. r.feedback = NoFeedback
      <4> HIDE DEF step
      <4> QED BY DEF Uninitialized
    <3>2. menu' = [menu EXCEPT ![m] = r]
      BY <2>2 DEF MenuInit, Becomes
    <3> HIDE DEF r
    <3>3. menu'[m] = r
      BY <3>2 DEF IInv
    <3> QED BY <3>1, <3>3 DEF NoFeedback
  <2> QED BY <2>1, <2>2
<1>3. ASSUME NEW n \in MenuId, menu'[n].feedback.active PROVE Timed(menu[n], age[n])'
  <2>1. Timed(menu[n], age[n]) /\ menu'[n] = menu[n] /\ age'[n] = age[n]
    BY <1>1, <1>2, <1>3 DEF TimeInv
  <2> QED BY <1>1, <2>1 DEF Timed
<1> QED BY <1>1, <1>3 DEF TimeInv

LEMMA TimeConsecution == IInv /\ TimeInv /\ [Next]_vars => TimeInv'
<1> SUFFICES ASSUME IInv, TimeInv, [Next]_vars PROVE TimeInv'
  OBVIOUS
<1>1. CASE UNCHANGED <<menu, now, age>>
  BY <1>1 DEF TimeInv, Timed
<1>2. CASE \E p \in device.parameters, v \in device.values : OwnerChanges(p, v)
  BY <1>1, <1>2 DEF OwnerChanges
<1>3. device.menus \subseteq MenuId
  BY DevicesAssumption DEF IInv
<1>4. ASSUME NEW m \in device.menus, Event(m) PROVE TimeInv'
  BY <1>3, <1>4, EventTells, QuietStep, FeedbackStep
<1> QED BY <1>1, <1>2, <1>3, <1>4, ClockStep, SilentStep DEF Next, vars

(* In any number of menus and whatever the clock's width, a feedback that  *)
(* callers process in time is dropped exactly when its duration is over.   *)
THEOREM FeedbacksAreTimely == Spec => []FeedbackTimely
<1>1. Spec => [](IInv /\ TimeInv)
  BY Initiation, Consecution, TimeInitiation, TimeConsecution, PTL DEF Spec
<1>2. IInv /\ TimeInv => FeedbackTimely
  <2> SUFFICES ASSUME IInv, TimeInv, NEW m \in MenuId, menu[m].feedback.active
               PROVE  Expired(menu[m].feedback.deadline) <=>
                          age[m] >= Config(m).feedback_duration
    BY DEF FeedbackTimely
  <2>1. OnTarget(menu[m]) /\ Timed(menu[m], age[m]) /\ now \in Nat
    BY DEF IInv, TimeInv
  <2> QED BY <2>1, TimedExpires DEF Config, Duration
<1> QED BY <1>1, <1>2, PTL

-----------------------------------------------------------------------------
(***************************************************************************)
(* The drafts.  Every cached step is positive, and one that scale_step     *)
(* takes if the range of its parameter is a float; a draft and its base    *)
(* are in the range of the parameter that is edited, and what is told of a *)
(* failed write is what a setter said.                                     *)
(***************************************************************************)
EditStates == {"PARAMETER_EDIT", "STEP_EDIT"}
DescriptorOf(r) == Descriptor[ItemOf(r).parameter]

Steps(d, step) ==
    /\ step \in Int /\ step > 0
    /\ SpanIsFloat(d) /\ d.type # "BOOL" /\ d.minimum # d.maximum =>
          RuntimeStepStatus(d, step) = "OK"

Holds(d, value) == value \in Int /\ InRange(d, value)

TellsFailure(f) == f.reason = "WRITE_FAILED" => f.status \in Failure

Drafted(r) ==
    /\ r.state # "UNINITIALIZED" =>
          /\ r.step = [p \in ParameterId |-> r.step[p]]
          /\ \A p \in ParameterId : Steps(Descriptor[p], r.step[p])
    /\ r.state \in EditStates =>
          Holds(DescriptorOf(r), r.edit_value) /\ Holds(DescriptorOf(r), r.original_value)
    /\ r.state = "STEP_EDIT" =>
          /\ DescriptorOf(r).type # "BOOL" /\ DescriptorOf(r).minimum # DescriptorOf(r).maximum
          /\ Steps(DescriptorOf(r), r.original_step)
    /\ TellsFailure(r.feedback)

DraftInv == owner \in [ParameterId -> Int] /\ \A m \in MenuId : Drafted(menu[m])

(* The editing sessions that the menus have, and what they do to them: a   *)
(* step that the abstract editors take, or none.                           *)
Session(r) ==
    IF r.state \in EditStates
    THEN [parameter |-> ItemOf(r).parameter, base |-> r.original_value] ELSE None
Sessions == [m \in MenuId |-> Session(menu[m])]

AsPromised == EditorsAbstract!Next \/ UNCHANGED <<owner, Sessions>>

(* Only a registered parameter that can be written is ever edited.         *)
LEMMA EditedIsWritable ==
    ASSUME NEW r, OnTarget(r), r.state \in EditStates
    PROVE  /\ ItemOf(r).parameter \in ParameterId /\ DescriptorOf(r).writable
           /\ Typed(DescriptorOf(r)) /\ DescriptorStatus(DescriptorOf(r)) = "OK"
<1>1. OnRoot(r) /\ OnItem(r) /\ ItemOf(r).kind = "PARAMETER"
  BY DEF OnTarget, EditStates, InGroup
<1>2. RootSound(RootsOf(r), r.root_index)
  BY <1>1 DEF OnRoot, ConfigSound, RootsOf
<1>3. ItemSound(RootsOf(r), r.root_index, r.item_index)
  BY <1>1, <1>2 DEF RootSound, OnItem, RootOf
<1>4. ItemOf(r).parameter \in ParameterId /\ DescriptorOf(r).writable
  BY <1>1, <1>3 DEF ItemSound, ItemOf, RootOf, DescriptorOf
<1> QED BY <1>4, DescriptorsAssumption DEF DescriptorOf

(* One menu changes, and no owner takes a value that is not a number.      *)
LEMMA OneDraftChanges ==
    ASSUME IInv, DraftInv, NEW m \in MenuId, NEW r, Drafted(r),
           menu' = [menu EXCEPT ![m] = r], owner' \in [ParameterId -> Int]
    PROVE  DraftInv' /\ Sessions' = [Sessions EXCEPT ![m] = Session(r)]
<1>1. \A n \in MenuId : menu'[n] = IF n = m THEN r ELSE menu[n]
  BY MenuChanged
<1>2. ASSUME NEW n \in MenuId PROVE Drafted(menu'[n])
  BY <1>1 DEF DraftInv
<1>3. Sessions' = [Sessions EXCEPT ![m] = Session(r)]
  <2>1. Sessions' = [n \in MenuId |-> Session(menu'[n])]
    BY DEF Sessions
  <2>2. Sessions' = [n \in MenuId |-> IF n = m THEN Session(r) ELSE Session(menu[n])]
    BY <1>1, <2>1
  <2> QED BY <2>2 DEF Sessions
<1> QED BY <1>2, <1>3 DEF DraftInv

(* In an editor, the target stays the same.                                *)
Redrafts(r, s) ==
    /\ IsMenu(s) /\ s.config = r.config /\ s.root_index = r.root_index
    /\ s.item_index = r.item_index

LEMMA SameTarget ==
    ASSUME NEW r, NEW s, Redrafts(r, s)
    PROVE  ItemOf(s) = ItemOf(r) /\ DescriptorOf(s) = DescriptorOf(r)
BY DEF Redrafts, ItemOf, RootOf, RootsOf, DescriptorOf

LEMMA Names ==
    ASSUME NEW m \in MenuId
    PROVE  /\ Item(m) = ItemOf(menu[m]) /\ Edited(m) = ItemOf(menu[m]).parameter
           /\ D(m) = DescriptorOf(menu[m])
BY DEF Item, Root, Roots, Config, ItemOf, RootOf, RootsOf, Edited, D, DescriptorOf

(* What an editor relies on                                                *)
LEMMA EditorFacts ==
    ASSUME IInv, DraftInv, NEW m \in MenuId, menu[m].state \in EditStates
    PROVE  /\ IsMenu(menu[m]) /\ Drafted(menu[m]) /\ D(m) = DescriptorOf(menu[m])
           /\ Edited(m) \in ParameterId /\ D(m) = Descriptor[Edited(m)] /\ D(m).writable
           /\ Typed(D(m)) /\ DescriptorStatus(D(m)) = "OK" /\ Steps(D(m), menu[m].step[Edited(m)])
           /\ Holds(D(m), menu[m].edit_value) /\ Holds(D(m), menu[m].original_value)
<1>1. /\ IsMenu(menu[m]) /\ OnTarget(menu[m]) /\ Drafted(menu[m])
      /\ D(m) = DescriptorOf(menu[m]) /\ D(m) = Descriptor[Edited(m)]
      /\ Edited(m) = ItemOf(menu[m]).parameter
  BY Names DEF IInv, DraftInv, D
<1>2. /\ Edited(m) \in ParameterId /\ D(m).writable
      /\ Typed(D(m)) /\ DescriptorStatus(D(m)) = "OK"
  BY <1>1, EditedIsWritable
<1> QED BY <1>1, <1>2 DEF Drafted, EditStates

LEMMA SessionsAreAbstract ==
    /\ Sessions = [m \in MenuId |-> EditedAbstract(m)]
    /\ Sessions' = [m \in MenuId |-> EditedAbstract(m)]'
<1>1. \A m \in MenuId : Session(menu[m]) = EditedAbstract(m)
  BY Names DEF Session, EditedAbstract, Editing, EditStates
<1>2. \A m \in MenuId : Session(menu'[m]) = EditedAbstract(m)'
  BY DEF Session, EditedAbstract, Editing, EditStates, Edited, Item, Root, Roots, Config,
         ItemOf, RootOf, RootsOf
<1> QED BY <1>1, <1>2 DEF Sessions

LEMMA Abandons ==
    ASSUME NEW m \in MenuId, Sessions' = [Sessions EXCEPT ![m] = None], UNCHANGED owner
    PROVE  AsPromised
<1>1. EditorsAbstract!Abandon(m)
  BY SessionsAreAbstract DEF EditorsAbstract!Abandon
<1> QED BY <1>1 DEF EditorsAbstract!Next, AsPromised

LEMMA OthersWrite ==
    ASSUME NEW p \in ParameterId, NEW v \in OwnerValue, owner' = [owner EXCEPT ![p] = v],
           UNCHANGED Sessions
    PROVE  AsPromised
<1>1. EditorsAbstract!OtherWrite
  BY SessionsAreAbstract DEF EditorsAbstract!OtherWrite
<1> QED BY <1>1 DEF EditorsAbstract!Next, AsPromised

LEMMA Begins ==
    ASSUME NEW m \in MenuId, NEW p \in ParameterId, Sessions[m] = None, UNCHANGED owner,
           Sessions' = [Sessions EXCEPT ![m] = [parameter |-> p, base |-> owner[p]]]
    PROVE  AsPromised
<1>1. EditorsAbstract!Begin(m, p)
  BY SessionsAreAbstract DEF EditorsAbstract!Begin
<1> QED BY <1>1 DEF EditorsAbstract!Next, AsPromised

LEMMA Commits ==
    ASSUME NEW m \in MenuId, NEW v \in OwnerValue, Sessions[m] # None,
           Sessions[m].base = owner[Sessions[m].parameter],
           owner' = [owner EXCEPT ![Sessions[m].parameter] = v],
           Sessions' = [Sessions EXCEPT ![m] = None]
    PROVE  AsPromised
<1>1. EditorsAbstract!Commit(m, v)
  BY SessionsAreAbstract DEF EditorsAbstract!Commit
<1> QED BY <1>1 DEF EditorsAbstract!Next, AsPromised

LEMMA StartsOver ==
    ASSUME NEW m \in MenuId, Sessions[m] # None,
           Sessions[m].base # owner[Sessions[m].parameter], UNCHANGED owner,
           Sessions' = [Sessions EXCEPT ![m].base = owner[Sessions[m].parameter]]
    PROVE  AsPromised
<1>1. EditorsAbstract!StartOver(m)
  BY SessionsAreAbstract DEF EditorsAbstract!StartOver
<1> QED BY <1>1 DEF EditorsAbstract!Next, AsPromised

LEMMA KeepsSession ==
    ASSUME NEW m \in MenuId, NEW r, Session(r) = Session(menu[m]), UNCHANGED owner,
           Sessions' = [Sessions EXCEPT ![m] = Session(r)]
    PROVE  AsPromised
BY DEF AsPromised, Sessions

(* Out of the editors a menu has no draft.                                 *)
Undraws(r, s) ==
    /\ IsMenu(s) /\ s.state \notin EditStates /\ s.step = r.step
    /\ r.state # "UNINITIALIZED" /\ s.feedback = r.feedback

LEMMA UndrawnStep ==
    ASSUME IInv, DraftInv, NEW m \in MenuId, NEW r, Undraws(menu[m], r), Becomes(m, r)
    PROVE  DraftInv' /\ AsPromised
<1>1. Drafted(r)
  BY DEF DraftInv, Drafted, Undraws, EditStates
<1>2. Session(r) = None
  BY DEF Undraws, Session
<1> QED BY <1>1, <1>2, OneDraftChanges, Abandons DEF Becomes, DraftInv

LEMMA UndrawnStepWith ==
    ASSUME IInv, DraftInv, NEW m \in MenuId, NEW r, Undraws(menu[m], r), NEW f, TellsFailure(f),
           BecomesWith(m, r, f), owner' \in [ParameterId -> Int]
    PROVE  DraftInv' /\ Sessions' = [Sessions EXCEPT ![m] = None]
<1> DEFINE s == [r EXCEPT !.feedback = f]
<1>1. menu' = [menu EXCEPT ![m] = s]
  BY DEF BecomesWith
<1>2. s.feedback = f /\ s.state = r.state /\ s.step = r.step
  BY DEF Undraws, IsMenu
<1> HIDE DEF s
<1>3. Drafted(s)
  BY <1>2 DEF DraftInv, Drafted, Undraws, EditStates
<1>4. Session(s) = None
  BY <1>2 DEF Undraws, Session
<1> QED BY <1>1, <1>3, <1>4, OneDraftChanges

LEMMA ReadValueHolds ==
    ASSUME DraftInv, NEW p \in ParameterId, NEW g, GetStatus(p, g) = "OK"
    PROVE  Holds(Descriptor[p], owner[p])
<1>1. InRange(Descriptor[p], owner[p])
  BY DEF GetStatus
<1> QED BY <1>1 DEF Holds, DraftInv

-----------------------------------------------------------------------------
LEMMA DraftInitiation == Init => DraftInv
<1> SUFFICES ASSUME Init PROVE DraftInv
  OBVIOUS
<1>1. device.values \subseteq Int
  BY DevicesAssumption, ValuesAssumption DEF Init
<1>2. owner \in [ParameterId -> Int]
  BY <1>1 DEF Init
<1>3. Drafted(Uninitialized)
  BY DEF Uninitialized, Drafted, EditStates, TellsFailure, NoFeedback
<1> QED BY <1>2, <1>3 DEF Init, DraftInv

LEMMA FreshDrafts ==
    ASSUME IInv, DraftInv, NEW m \in MenuId, NEW name, MenuInit(m, name)
    PROVE  DraftInv' /\ AsPromised
<1> DEFINE step == [p \in ParameterId |-> Descriptor[p].step]
           r == [Uninitialized EXCEPT !.config = name, !.state = "ROOT", !.step = step]
<1>1. menu' = [menu EXCEPT ![m] = r] /\ owner' \in [ParameterId -> Int]
  BY DEF MenuInit, Becomes, DraftInv
<1>2. \A p \in ParameterId : Steps(Descriptor[p], step[p])
  <2> TAKE p \in ParameterId
  <2> DEFINE d == Descriptor[p]
  <2>1. Typed(d) /\ DescriptorStatus(d) = "OK" /\ step[p] = d.step
    BY DescriptorsAssumption
  <2> HIDE DEF d, step
  <2>2. d.step \in Int /\ d.step > 0
    BY <2>1, FreshStep DEF Typed
  <2>3. SpanIsFloat(d) /\ d.type # "BOOL" /\ d.minimum # d.maximum =>
            RuntimeStepStatus(d, d.step) = "OK"
    BY <2>1, FreshStepIsScalable
  <2>4. Steps(d, step[p])
    BY <2>1, <2>2, <2>3 DEF Steps
  <2> QED BY <2>4 DEF d
<1>3. step = [p \in ParameterId |-> step[p]]
  OBVIOUS
<1> HIDE DEF step
<1>4. r.step = step /\ r.state = "ROOT" /\ r.feedback = NoFeedback
  BY DEF Uninitialized
<1> HIDE DEF r
<1>5. Drafted(r)
  BY <1>2, <1>3, <1>4 DEF Drafted, EditStates, TellsFailure, NoFeedback
<1>6. Session(r) = None /\ UNCHANGED owner
  BY <1>4 DEF Session, EditStates, MenuInit, Becomes
<1> QED BY <1>1, <1>5, <1>6, OneDraftChanges, Abandons

LEMMA UndrawnSteps ==
    ASSUME IInv, DraftInv, NEW m \in MenuId,
           \/ \E amount \in device.amounts :
                 RootMove(m, amount) \/ GroupMove(m, amount) \/ PageMove(m, amount)
           \/ RootActivate(m) \/ GroupBack(m) \/ PageBack(m) \/ OpenConfirm(m)
           \/ ConfirmBack(m) \/ EditBack(m)
    PROVE  DraftInv' /\ AsPromised
<1>1. IsMenu(menu[m])
  BY DEF IInv
<1>2. CASE menu[m].state \notin EditStates \cup {"UNINITIALIZED"}
  <2>1. \A v : /\ Undraws(menu[m], [menu[m] EXCEPT !.root_index = v])
               /\ Undraws(menu[m], [menu[m] EXCEPT !.item_index = v])
               /\ Undraws(menu[m], [menu[m] EXCEPT !.subpage = v])
               /\ v \notin EditStates => Undraws(menu[m], [menu[m] EXCEPT !.state = v])
    BY <1>1, <1>2 DEF Undraws, IsMenu
  <2>2. \A u, v : u \notin EditStates =>
            /\ Undraws(menu[m], [menu[m] EXCEPT !.state = u, !.item_index = v])
            /\ Undraws(menu[m], [menu[m] EXCEPT !.state = u, !.subpage = v])
    BY <1>1, <1>2 DEF Undraws, IsMenu
  <2>3. CASE \E amount \in device.amounts :
                RootMove(m, amount) \/ GroupMove(m, amount) \/ PageMove(m, amount)
    BY <2>1, <2>3, UndrawnStep DEF RootMove, GroupMove, PageMove
  <2>4. CASE RootActivate(m)
    BY <2>2, <2>4, UndrawnStep DEF RootActivate, EditStates
  <2>5. CASE GroupBack(m) \/ PageBack(m) \/ OpenConfirm(m) \/ ConfirmBack(m)
    BY <2>1, <2>5, UndrawnStep DEF GroupBack, PageBack, OpenConfirm, ConfirmBack, EditStates
  <2>6. ~EditBack(m)
    BY <1>2 DEF EditBack, At, EditStates
  <2> QED BY <2>3, <2>4, <2>5, <2>6
<1>3. CASE EditBack(m)
  <2> DEFINE r == [Undrafted(menu[m]) EXCEPT !.state = "GROUP"]
  <2>1. r = [menu[m] EXCEPT !.edit_value = 0, !.original_value = 0, !.state = "GROUP"]
    BY DEF Undrafted
  <2>2. Becomes(m, r) /\ menu[m].state # "UNINITIALIZED"
    BY <1>3 DEF EditBack, At
  <2> HIDE DEF r
  <2>3. Undraws(menu[m], r)
    BY <1>1, <2>1, <2>2 DEF Undraws, IsMenu, EditStates
  <2> QED BY <2>2, <2>3, UndrawnStep
<1>4. CASE menu[m].state \in EditStates \cup {"UNINITIALIZED"} /\ ~EditBack(m)
  BY <1>4 DEF RootMove, GroupMove, PageMove, RootActivate, GroupBack, PageBack, OpenConfirm,
              ConfirmBack, At, EditStates
<1> QED BY <1>2, <1>3, <1>4

LEMMA OwnersHoldNumbers ==
    ASSUME DraftInv
    PROVE  /\ owner \in [ParameterId -> Int]
           /\ \A p : \A v \in Int : [owner EXCEPT ![p] = v] \in [ParameterId -> Int]
BY DEF DraftInv

LEMMA AnsweredSteps ==
    ASSUME IInv, DraftInv, NEW m \in MenuId, NEW status \in CallStatus,
           EnterEditFails(m, status) \/ ExecuteCommand(m, status) \/ CommitApplied(m)
    PROVE  DraftInv' /\ AsPromised
<1>1. IsMenu(menu[m]) /\ OnTarget(menu[m])
  BY DEF IInv
<1>2. CASE EnterEditFails(m, status)
  <2>1. PICK s : BecomesWith(m, menu[m], Feedback(m, "READ_FAILED", s)) /\ UNCHANGED owner
    BY <1>2 DEF EnterEditFails
  <2>2. TellsFailure(Feedback(m, "READ_FAILED", s))
    BY DEF TellsFailure, Feedback
  <2>3. Undraws(menu[m], menu[m])
    BY <1>1, <1>2 DEF EnterEditFails, At, Undraws, EditStates
  <2> QED BY <2>1, <2>2, <2>3, UndrawnStepWith, OwnersHoldNumbers, Abandons
<1>3. CASE ExecuteCommand(m, status)
  <2> DEFINE r == [menu[m] EXCEPT !.state = "GROUP"]
  <2>1. BecomesWith(m, r, Feedback(m, "RESULT", status)) /\ menu[m].state # "UNINITIALIZED"
    BY <1>3 DEF ExecuteCommand, MayRun, At
  <2>2. TellsFailure(Feedback(m, "RESULT", status))
    BY DEF TellsFailure, Feedback
  <2>3. Undraws(menu[m], r)
    BY <1>1, <2>1 DEF Undraws, IsMenu, EditStates
  <2> HIDE DEF r
  <2>4. Sessions[m] = None
    BY <1>1, <1>3 DEF ExecuteCommand, MayRun, At, Sessions, Session, EditStates
  <2>5. Sessions' = [Sessions EXCEPT ![m] = None] => UNCHANGED Sessions
    BY <2>4 DEF Sessions
  <2> QED
    <3>1. CASE UNCHANGED owner
      BY <2>1, <2>2, <2>3, <3>1, UndrawnStepWith, OwnersHoldNumbers, Abandons
    <3>2. CASE \E p \in device.parameters :
                  owner' = [owner EXCEPT ![p] = Descriptor[p].minimum]
      <4>1. PICK p \in device.parameters : owner' = [owner EXCEPT ![p] = Descriptor[p].minimum]
        BY <3>2
      <4>2. p \in ParameterId /\ Descriptor[p].minimum \in Int
        BY DevicesAssumption, DescriptorsAssumption DEF IInv, Typed
      <4>3. Descriptor[p].minimum \in OwnerValue
        <5>1. Descriptor[p].maximum \in Int /\ Descriptor[p].minimum <= Descriptor[p].maximum
          BY <4>2, DescriptorsAssumption, FreshStep DEF Typed
        <5> QED BY <4>2, <5>1, ValuesAssumption
      <4>4. owner' \in [ParameterId -> Int]
        BY <4>1, <4>2, OwnersHoldNumbers
      <4>5. DraftInv' /\ UNCHANGED Sessions
        BY <2>1, <2>2, <2>3, <2>5, <4>4, UndrawnStepWith
      <4> QED BY <4>1, <4>2, <4>3, <4>5, OthersWrite
    <3> QED BY <1>3, <3>1, <3>2 DEF ExecuteCommand
<1>4. CASE CommitApplied(m)
  <2> DEFINE r == [Undrafted(menu[m]) EXCEPT !.state = "GROUP"]
  <2>1. /\ BecomesWith(m, r, Feedback(m, "APPLIED", "OK")) /\ menu[m].state = "PARAMETER_EDIT"
        /\ owner' = [owner EXCEPT ![Edited(m)] = menu[m].edit_value]
    BY <1>4 DEF CommitApplied, At
  <2>2. r = [menu[m] EXCEPT !.edit_value = 0, !.original_value = 0, !.state = "GROUP"]
    BY DEF Undrafted
  <2>3. TellsFailure(Feedback(m, "APPLIED", "OK"))
    BY DEF TellsFailure, Feedback
  <2> HIDE DEF r
  <2>4. Undraws(menu[m], r)
    BY <1>1, <2>1, <2>2 DEF Undraws, IsMenu, EditStates
  <2>5. menu[m].edit_value \in Int /\ menu[m].edit_value \in OwnerValue
    <3>1. /\ Edited(m) \in ParameterId /\ D(m) = Descriptor[Edited(m)] /\ Typed(D(m))
          /\ Holds(D(m), menu[m].edit_value)
      BY <2>1, EditorFacts DEF EditStates
    <3> QED BY <3>1, ValuesAssumption DEF Holds, InRange, Typed
  <2>6. owner' \in [ParameterId -> Int]
    BY <2>1, <2>5, OwnersHoldNumbers
  <2>7. DraftInv' /\ Sessions' = [Sessions EXCEPT ![m] = None]
    BY <2>1, <2>3, <2>4, <2>6, UndrawnStepWith
  <2>8. /\ Sessions[m] = [parameter |-> Edited(m), base |-> menu[m].original_value]
        /\ Sessions[m] # None /\ menu[m].original_value = owner[Edited(m)]
    <3>1. Sessions[m] = [parameter |-> Edited(m), base |-> menu[m].original_value]
      BY <2>1, Names DEF Sessions, Session, EditStates
    <3>2. menu[m].original_value \in Int /\ Edited(m) \in ParameterId
      BY <2>1, EditorFacts DEF EditStates, Holds
    <3>3. menu[m].original_value = owner[Edited(m)]
      BY <1>4 DEF CommitApplied, StillOriginal
    <3> QED BY <3>1, <3>2, <3>3, NoneAssumption
  <2>9. /\ Sessions[m].base = owner[Sessions[m].parameter]
        /\ owner' = [owner EXCEPT ![Sessions[m].parameter] = menu[m].edit_value]
    BY <2>1, <2>8
  <2> QED BY <2>5, <2>7, <2>8, <2>9, Commits
<1> QED BY <1>2, <1>3, <1>4

(* A draft or its base changes to a value that the owner can have.         *)
LEMMA DraftTaken ==
    ASSUME IInv, DraftInv, NEW m \in MenuId, menu[m].state \in EditStates \cup {"GROUP"},
           NEW r, Redrafts(menu[m], r), r.state = "PARAMETER_EDIT", r.step = menu[m].step,
           Holds(DescriptorOf(menu[m]), r.edit_value),
           Holds(DescriptorOf(menu[m]), r.original_value), TellsFailure(r.feedback)
    PROVE  Drafted(r)
BY SameTarget DEF DraftInv, Drafted, EditStates

LEMMA EnterStep ==
    ASSUME IInv, DraftInv, NEW m \in MenuId, NEW g, EnterEdit(m, g)
    PROVE  DraftInv' /\ AsPromised
<1> DEFINE v == owner[Edited(m)]
           r == [menu[m] EXCEPT !.state = "PARAMETER_EDIT", !.edit_value = v,
                                !.original_value = v]
<1>1. /\ menu' = [menu EXCEPT ![m] = r] /\ UNCHANGED owner /\ menu[m].state = "GROUP"
      /\ OnParameter(m) /\ GetStatus(Edited(m), g) = "OK"
  BY DEF EnterEdit, Becomes, At
<1>2. IsMenu(menu[m]) /\ OnTarget(menu[m])
  BY DEF IInv
<1>3. Edited(m) \in ParameterId /\ DescriptorOf(menu[m]) = Descriptor[Edited(m)]
  <2>1. OnRoot(menu[m]) /\ OnItem(menu[m]) /\ ItemOf(menu[m]).kind = "PARAMETER"
    BY <1>1, <1>2, Names DEF OnTarget, InGroup, OnParameter
  <2>2. RootSound(RootsOf(menu[m]), menu[m].root_index)
    BY <2>1 DEF OnRoot, ConfigSound, RootsOf
  <2>3. ItemSound(RootsOf(menu[m]), menu[m].root_index, menu[m].item_index)
    BY <2>1, <2>2 DEF RootSound, OnItem, RootOf
  <2> QED BY <2>1, <2>3, Names DEF ItemSound, ItemOf, RootOf, DescriptorOf
<1>4. Holds(DescriptorOf(menu[m]), v)
  BY <1>1, <1>3, ReadValueHolds
<1> HIDE DEF v
<1>5. /\ r.state = "PARAMETER_EDIT" /\ r.edit_value = v /\ r.original_value = v
      /\ r.step = menu[m].step /\ r.feedback = menu[m].feedback /\ Redrafts(menu[m], r)
  <2>1. r = [menu[m] EXCEPT !.state = "PARAMETER_EDIT", !.edit_value = v, !.original_value = v]
    OBVIOUS
  <2> HIDE DEF r
  <2> QED BY <1>2, <2>1 DEF IsMenu, Redrafts
<1> HIDE DEF r
<1>6. Drafted(r)
  BY <1>1, <1>4, <1>5, DraftTaken DEF DraftInv, Drafted
<1>7. DraftInv' /\ Sessions' = [Sessions EXCEPT ![m] = Session(r)]
  BY <1>1, <1>6, OneDraftChanges DEF DraftInv
<1>8. Session(r) = [parameter |-> Edited(m), base |-> owner[Edited(m)]]
  BY <1>5, SameTarget, Names DEF Session, EditStates, v
<1>9. Sessions[m] = None
  BY <1>1 DEF Sessions, Session, EditStates
<1> QED BY <1>1, <1>3, <1>7, <1>8, <1>9, Begins

LEMMA ConflictStep ==
    ASSUME IInv, DraftInv, NEW m \in MenuId, CommitConflict(m)
    PROVE  DraftInv' /\ AsPromised
<1> DEFINE v == owner[Edited(m)]
           f == Feedback(m, "CONFLICT", "INVALID_STATE")
           r == [menu[m] EXCEPT !.edit_value = v, !.original_value = v]
           s == [r EXCEPT !.feedback = f]
<1>1. /\ menu' = [menu EXCEPT ![m] = s] /\ UNCHANGED owner /\ menu[m].state = "PARAMETER_EDIT"
      /\ GetStatus(Edited(m), "OK") = "OK"
  BY DEF CommitConflict, BecomesWith, At
<1>2. IsMenu(menu[m]) /\ OnTarget(menu[m])
  BY DEF IInv
<1>3. Edited(m) \in ParameterId /\ DescriptorOf(menu[m]) = Descriptor[Edited(m)]
  BY <1>1, <1>2, EditedIsWritable, Names DEF EditStates, DescriptorOf
<1>4. Holds(DescriptorOf(menu[m]), v)
  BY <1>1, <1>3, ReadValueHolds
<1>5. TellsFailure(f)
  BY DEF TellsFailure, Feedback
<1> HIDE DEF v, f
<1>6. /\ s.state = "PARAMETER_EDIT" /\ s.edit_value = v /\ s.original_value = v
      /\ s.step = menu[m].step /\ s.feedback = f /\ Redrafts(menu[m], s)
  <2>1. /\ r.state = "PARAMETER_EDIT" /\ r.edit_value = v /\ r.original_value = v
        /\ r.step = menu[m].step /\ Redrafts(menu[m], r)
    BY <1>1, <1>2 DEF IsMenu, Redrafts
  <2> HIDE DEF r
  <2> QED BY <2>1 DEF IsMenu, Redrafts
<1> HIDE DEF s
<1>7. Drafted(s)
  BY <1>1, <1>4, <1>5, <1>6, DraftTaken DEF EditStates
<1>8. DraftInv' /\ Sessions' = [Sessions EXCEPT ![m] = Session(s)]
  BY <1>1, <1>7, OneDraftChanges DEF DraftInv
<1>9. Session(s) = [parameter |-> Edited(m), base |-> owner[Edited(m)]]
  BY <1>6, SameTarget, Names DEF Session, EditStates, v
<1>10. /\ Sessions[m] = [parameter |-> Edited(m), base |-> menu[m].original_value]
       /\ Sessions[m] # None /\ menu[m].original_value # owner[Edited(m)]
  <2>1. Sessions[m] = [parameter |-> Edited(m), base |-> menu[m].original_value]
    BY <1>1, Names DEF Sessions, Session, EditStates
  <2>2. menu[m].original_value \in Int
    BY <1>1, EditorFacts DEF EditStates, Holds
  <2>3. menu[m].original_value # owner[Edited(m)]
    BY DEF CommitConflict, StillOriginal
  <2> QED BY <1>3, <2>1, <2>2, <2>3, NoneAssumption
<1>11. Sessions' = [Sessions EXCEPT ![m].base = owner[Sessions[m].parameter]]
  <2> DEFINE x == Sessions[m]
  <2>1. [x EXCEPT !.base = owner[x.parameter]] = [parameter |-> Edited(m), base |-> owner[Edited(m)]]
    BY <1>10
  <2>2. Sessions' = [Sessions EXCEPT ![m] = [x EXCEPT !.base = owner[x.parameter]]]
    BY <1>8, <1>9, <2>1
  <2> QED BY <2>2
<1>12. Sessions[m].base # owner[Sessions[m].parameter]
  BY <1>10
<1> QED BY <1>1, <1>8, <1>10, <1>11, <1>12, StartsOver

(* A commit that fails keeps the draft; that a write fails is the setter's *)
(* word, as the draft is in range.                                         *)
LEMMA RefusedSteps ==
    ASSUME IInv, DraftInv, NEW m \in MenuId, NEW status \in CallStatus,
           CommitReadFails(m, status) \/ CommitRejected(m, status)
    PROVE  DraftInv' /\ AsPromised
<1>1. IsMenu(menu[m]) /\ OnTarget(menu[m]) /\ Drafted(menu[m])
  BY DEF IInv, DraftInv
<1>2. menu[m].state = "PARAMETER_EDIT" /\ UNCHANGED owner
  BY DEF CommitReadFails, CommitRejected, At
<1>3. PICK f : BecomesWith(m, menu[m], f) /\ TellsFailure(f)
  <2>1. CASE CommitReadFails(m, status)
    BY <2>1 DEF CommitReadFails, TellsFailure, Feedback
  <2>2. CASE CommitRejected(m, status)
    <3> DEFINE p == Edited(m)
               s == SetStatus(p, menu[m].edit_value, status)
    <3>1. BecomesWith(m, menu[m], Feedback(m, "WRITE_FAILED", s)) /\ s # "OK"
      BY <2>2 DEF CommitRejected
    <3>2. InRange(Descriptor[p], menu[m].edit_value)
      BY <1>1, <1>2, Names DEF Drafted, EditStates, Holds, DescriptorOf
    <3>3. s \in Failure
      BY <3>1, <3>2 DEF SetStatus, CallStatus
    <3> HIDE DEF s
    <3> QED BY <3>1, <3>3 DEF TellsFailure, Feedback
  <2> QED BY <2>1, <2>2
<1> DEFINE r == [menu[m] EXCEPT !.feedback = f]
<1>4. menu' = [menu EXCEPT ![m] = r]
  BY <1>3 DEF BecomesWith
<1>5. /\ r.state = "PARAMETER_EDIT" /\ r.edit_value = menu[m].edit_value
      /\ r.original_value = menu[m].original_value
      /\ r.step = menu[m].step /\ r.feedback = f /\ Redrafts(menu[m], r)
  BY <1>1, <1>2 DEF IsMenu, Redrafts
<1> HIDE DEF r
<1>6. Drafted(r)
  BY <1>1, <1>2, <1>3, <1>5, DraftTaken DEF Drafted, EditStates
<1>7. Session(r) = Session(menu[m])
  BY <1>2, <1>5, SameTarget DEF Session, EditStates
<1> QED BY <1>2, <1>4, <1>6, <1>7, OneDraftChanges, KeepsSession DEF DraftInv

LEMMA AdjustedStep ==
    ASSUME IInv, DraftInv, NEW m \in MenuId, NEW amount \in device.amounts, EditAdjust(m, amount)
    PROVE  DraftInv' /\ AsPromised
<1> DEFINE p == Edited(m)
           d == DescriptorOf(menu[m])
           step == menu[m].step[p]
           v == AdjustValue(d, menu[m].edit_value, step, amount)
           r == [menu[m] EXCEPT !.edit_value = v]
<1>1. /\ IsMenu(menu[m]) /\ OnTarget(menu[m]) /\ Drafted(menu[m]) /\ amount \in Int
      /\ menu[m].state = "PARAMETER_EDIT" /\ D(m) = d
  BY DevicesAssumption, Names DEF IInv, DraftInv, EditAdjust, At
<1>2. /\ p \in ParameterId /\ d = Descriptor[p] /\ d.writable
      /\ Typed(d) /\ DescriptorStatus(d) = "OK"
  BY <1>1, EditedIsWritable, Names DEF EditStates, DescriptorOf
<1>3. Steps(d, step) /\ Holds(d, menu[m].edit_value) /\ Holds(d, menu[m].original_value)
  BY <1>1, <1>2 DEF Drafted, EditStates
<1> HIDE DEF p, d, step
<1>4. AdjustStatus(d, menu[m].edit_value, step) = "OK"
  BY <1>2, <1>3 DEF AdjustStatus, Steps, Holds
<1>5. Holds(d, v)
  BY <1>1, <1>2, <1>3, <1>4, AdjustmentStays DEF Steps, Holds
<1>6. menu' = [menu EXCEPT ![m] = r] /\ UNCHANGED owner
  BY <1>1, <1>4 DEF EditAdjust, Becomes, step, p
<1> HIDE DEF v
<1>7. /\ r.state = "PARAMETER_EDIT" /\ r.edit_value = v
      /\ r.original_value = menu[m].original_value
      /\ r.step = menu[m].step /\ r.feedback = menu[m].feedback /\ Redrafts(menu[m], r)
  BY <1>1 DEF IsMenu, Redrafts
<1> HIDE DEF r
<1>8. Drafted(r)
  BY <1>1, <1>3, <1>5, <1>7, DraftTaken DEF Drafted, EditStates, d
<1>9. Session(r) = Session(menu[m])
  BY <1>1, <1>7, SameTarget DEF Session, EditStates
<1> QED BY <1>6, <1>8, <1>9, OneDraftChanges, KeepsSession DEF DraftInv

LEMMA StepOpened ==
    ASSUME IInv, DraftInv, NEW m \in MenuId, OpenStepEditor(m)
    PROVE  DraftInv' /\ AsPromised
<1> DEFINE x == menu[m]
           v == x.step[Edited(m)]
           r == [x EXCEPT !.state = "STEP_EDIT", !.original_step = v]
<1>1. /\ x.state = "PARAMETER_EDIT" /\ D(m).type # "BOOL" /\ D(m).minimum # D(m).maximum
      /\ menu' = [menu EXCEPT ![m] = r] /\ UNCHANGED owner
  BY DEF OpenStepEditor, At, Becomes
<1>2. /\ IsMenu(x) /\ Drafted(x) /\ D(m) = DescriptorOf(x) /\ Steps(D(m), v)
      /\ Holds(D(m), x.edit_value) /\ Holds(D(m), x.original_value)
  BY <1>1, EditorFacts DEF EditStates
<1> HIDE DEF v
<1>3. /\ r.state = "STEP_EDIT" /\ r.edit_value = x.edit_value
      /\ r.original_value = x.original_value /\ r.original_step = v
      /\ r.step = x.step /\ r.feedback = x.feedback /\ Redrafts(x, r)
  <2>1. r = [x EXCEPT !.state = "STEP_EDIT", !.original_step = v]
    OBVIOUS
  <2> HIDE DEF r, x
  <2> QED BY <1>2, <2>1 DEF IsMenu, Redrafts
<1> HIDE DEF r
<1>4. DescriptorOf(r) = D(m)
  BY <1>2, <1>3, SameTarget
<1>5. Drafted(r)
  BY <1>1, <1>2, <1>3, <1>4 DEF Drafted, EditStates
<1>6. Session(r) = Session(menu[m])
  BY <1>1, <1>3, SameTarget DEF Session, EditStates
<1> QED BY <1>1, <1>5, <1>6, OneDraftChanges, KeepsSession DEF DraftInv

LEMMA ScaledIsStep ==
    ASSUME NEW d, Typed(d), NEW step, Steps(d, step), NEW direction \in Int
    PROVE  Steps(d, ScaleStep(d, step, direction))
<1> DEFINE s == ScaleStep(d, step, direction)
<1>1. CASE ScaleStatus(d, step) = "OK"
  <2>1. s \in Int /\ s > 0 /\ (SpanIsFloat(d) => RuntimeStepStatus(d, s) = "OK")
    BY <1>1, ScalingStays DEF Steps
  <2> QED BY <2>1 DEF Steps
<1>2. CASE ScaleStatus(d, step) # "OK"
  BY <1>2 DEF ScaleStep
<1> QED BY <1>1, <1>2

(* The step of the edited parameter changes; a draft stays what it is.     *)
LEMMA StepTaken ==
    ASSUME IInv, DraftInv, NEW m \in MenuId, menu[m].state = "STEP_EDIT",
           NEW v, Steps(D(m), v), NEW r, Redrafts(menu[m], r), r.state \in EditStates,
           r.step = [menu[m].step EXCEPT ![Edited(m)] = v],
           r.edit_value = menu[m].edit_value, r.original_value = menu[m].original_value,
           r.state = "STEP_EDIT" => r.original_step = menu[m].original_step,
           r.feedback = menu[m].feedback, menu' = [menu EXCEPT ![m] = r], UNCHANGED owner
    PROVE  DraftInv' /\ AsPromised
<1>1. /\ Drafted(menu[m]) /\ D(m) = DescriptorOf(menu[m]) /\ D(m) = Descriptor[Edited(m)]
      /\ Edited(m) \in ParameterId
      /\ Holds(D(m), menu[m].edit_value) /\ Holds(D(m), menu[m].original_value)
  BY EditorFacts DEF EditStates
<1>2. DescriptorOf(r) = D(m)
  BY <1>1, SameTarget
<1>3. /\ menu[m].step = [p \in ParameterId |-> menu[m].step[p]]
      /\ \A p \in ParameterId : Steps(Descriptor[p], menu[m].step[p])
  BY <1>1 DEF Drafted
<1>4. /\ r.step = [p \in ParameterId |-> r.step[p]]
      /\ \A p \in ParameterId : r.step[p] = IF p = Edited(m) THEN v ELSE menu[m].step[p]
  BY <1>3
<1>5. \A p \in ParameterId : Steps(Descriptor[p], r.step[p])
  BY <1>1, <1>3, <1>4
<1>6. r.state = "STEP_EDIT" => /\ D(m).type # "BOOL" /\ D(m).minimum # D(m).maximum
                               /\ Steps(D(m), r.original_step)
  BY <1>1 DEF Drafted
<1>7. TellsFailure(r.feedback)
  BY <1>1 DEF Drafted
<1>8. Drafted(r)
  BY <1>1, <1>2, <1>4, <1>5, <1>6, <1>7 DEF Drafted
<1>9. Session(r) = Session(menu[m])
  BY SameTarget DEF Session, EditStates
<1>10. DraftInv' /\ Sessions' = [Sessions EXCEPT ![m] = Session(r)]
  BY <1>8, OneDraftChanges DEF DraftInv
<1> QED BY <1>9, <1>10, KeepsSession

LEMMA StepScaled ==
    ASSUME IInv, DraftInv, NEW m \in MenuId, NEW direction \in {-1, 0, 1},
           StepScale(m, direction)
    PROVE  DraftInv' /\ AsPromised
<1> DEFINE x == menu[m]
           v == ScaleStep(D(m), x.step[Edited(m)], direction)
           steps == [x.step EXCEPT ![Edited(m)] = v]
           r == [x EXCEPT !.step = steps]
<1>1. x.state = "STEP_EDIT" /\ UNCHANGED owner
  BY DEF StepScale, At, Becomes
<1>2. /\ IsMenu(x) /\ D(m) = Descriptor[Edited(m)] /\ Edited(m) \in ParameterId
      /\ Typed(D(m)) /\ Steps(D(m), x.step[Edited(m)])
  BY <1>1, EditorFacts DEF EditStates
<1>3. Steps(D(m), v)
  BY <1>2, ScaledIsStep
<1>4. menu' = [menu EXCEPT ![m] = r]
  BY <1>2 DEF StepScale, Becomes, IsMenu
<1> HIDE DEF v
<1>5. r.step = [x.step EXCEPT ![Edited(m)] = v]
  BY <1>2 DEF IsMenu
<1> HIDE DEF steps
<1>6. /\ r.state = "STEP_EDIT" /\ r.edit_value = x.edit_value /\ r.feedback = x.feedback
      /\ r.original_value = x.original_value /\ r.original_step = x.original_step
      /\ Redrafts(x, r)
  BY <1>1, <1>2 DEF IsMenu, Redrafts
<1> HIDE DEF r
<1> QED BY <1>1, <1>3, <1>4, <1>5, <1>6, StepTaken DEF EditStates

LEMMA StepClosed ==
    ASSUME IInv, DraftInv, NEW m \in MenuId, StepAccept(m) \/ StepCancel(m)
    PROVE  DraftInv' /\ AsPromised
<1> DEFINE x == menu[m]
<1>1. x.state = "STEP_EDIT" /\ UNCHANGED owner
  BY DEF StepAccept, StepCancel, At, Becomes
<1>2. /\ IsMenu(x) /\ Drafted(x) /\ D(m) = DescriptorOf(x) /\ Edited(m) \in ParameterId
      /\ Steps(D(m), x.step[Edited(m)])
  BY <1>1, EditorFacts DEF EditStates
<1>3. CASE StepAccept(m)
  <2> DEFINE r == [x EXCEPT !.state = "PARAMETER_EDIT", !.original_step = 0]
  <2>1. menu' = [menu EXCEPT ![m] = r]
    BY <1>3 DEF StepAccept, Becomes
  <2>2. /\ r.state = "PARAMETER_EDIT" /\ r.edit_value = x.edit_value /\ r.feedback = x.feedback
        /\ r.original_value = x.original_value /\ r.step = x.step /\ Redrafts(x, r)
    <3>1. r = [x EXCEPT !.state = "PARAMETER_EDIT", !.original_step = 0]
      OBVIOUS
    <3> HIDE DEF r, x
    <3> QED BY <1>2, <3>1 DEF IsMenu, Redrafts
  <2> HIDE DEF r
  <2>3. r.step = [x.step EXCEPT ![Edited(m)] = x.step[Edited(m)]]
    <3>1. x.step = [p \in ParameterId |-> x.step[p]]
      BY <1>1, <1>2 DEF Drafted
    <3> HIDE DEF x
    <3> QED BY <1>2, <2>2, <3>1
  <2> QED BY <1>1, <1>2, <2>1, <2>2, <2>3, StepTaken DEF EditStates
<1>4. CASE StepCancel(m)
  <2> DEFINE steps == [x.step EXCEPT ![Edited(m)] = x.original_step]
             r == [x EXCEPT !.state = "PARAMETER_EDIT", !.original_step = 0, !.step = steps]
  <2>1. menu' = [menu EXCEPT ![m] = r]
    BY <1>2, <1>4 DEF StepCancel, Becomes, IsMenu
  <2>2. Steps(D(m), x.original_step)
    BY <1>1, <1>2 DEF Drafted
  <2>3. steps = [x.step EXCEPT ![Edited(m)] = x.original_step]
    OBVIOUS
  <2> HIDE DEF steps
  <2>4. /\ r.state = "PARAMETER_EDIT" /\ r.edit_value = x.edit_value /\ r.feedback = x.feedback
        /\ r.original_value = x.original_value /\ r.step = steps /\ Redrafts(x, r)
    <3>1. r = [x EXCEPT !.state = "PARAMETER_EDIT", !.original_step = 0, !.step = steps]
      OBVIOUS
    <3> HIDE DEF r, x
    <3> QED BY <1>2, <3>1 DEF IsMenu, Redrafts
  <2> HIDE DEF r
  <2> QED BY <1>1, <2>1, <2>2, <2>3, <2>4, StepTaken DEF EditStates
<1> QED BY <1>3, <1>4

LEMMA DroppedFeedback ==
    ASSUME IInv, DraftInv, NEW m \in MenuId, Process(m)
    PROVE  DraftInv' /\ AsPromised
<1> DEFINE r == [menu[m] EXCEPT !.feedback = NoFeedback]
<1>1. menu' = [menu EXCEPT ![m] = r] /\ UNCHANGED owner
  BY DEF Process
<1>2. /\ r.state = menu[m].state /\ r.edit_value = menu[m].edit_value
      /\ r.original_value = menu[m].original_value
      /\ r.original_step = menu[m].original_step /\ r.step = menu[m].step
      /\ r.feedback = NoFeedback /\ Redrafts(menu[m], r)
  BY DEF IInv, IsMenu, Redrafts
<1> HIDE DEF r
<1>3. DescriptorOf(r) = DescriptorOf(menu[m])
  BY <1>2, SameTarget
<1>4. Drafted(menu[m])
  BY DEF DraftInv
<1>5. Drafted(r)
  BY <1>2, <1>3, <1>4 DEF Drafted, TellsFailure, NoFeedback
<1>6. Session(r) = Session(menu[m])
  BY <1>2, SameTarget DEF Session, EditStates
<1> QED BY <1>1, <1>5, <1>6, OneDraftChanges, KeepsSession DEF DraftInv

LEMMA DraftConsecution ==
    ASSUME IInv, DraftInv, [Next]_vars
    PROVE  DraftInv' /\ AsPromised
<1>1. CASE UNCHANGED <<menu, owner>>
  BY <1>1 DEF DraftInv, AsPromised, Sessions
<1>2. ASSUME NEW p \in device.parameters, NEW v \in device.values, OwnerChanges(p, v)
      PROVE  DraftInv' /\ AsPromised
  <2>1. /\ v \in Int /\ v \in OwnerValue /\ p \in ParameterId
        /\ menu' = menu /\ owner' = [owner EXCEPT ![p] = v]
    BY <1>2, DevicesAssumption, ValuesAssumption DEF IInv, OwnerChanges
  <2>2. owner' \in [ParameterId -> Int]
    BY <2>1, OwnersHoldNumbers
  <2>3. UNCHANGED Sessions
    BY <2>1 DEF Sessions
  <2> QED BY <2>1, <2>2, <2>3, OthersWrite DEF DraftInv
<1>3. device.menus \subseteq MenuId
  BY DevicesAssumption DEF IInv
<1>4. ASSUME NEW m \in device.menus, Event(m) PROVE DraftInv' /\ AsPromised
  <2>1. \/ \E amount \in device.amounts :
                 RootMove(m, amount) \/ GroupMove(m, amount) \/ PageMove(m, amount)
        \/ RootActivate(m) \/ GroupBack(m) \/ PageBack(m) \/ OpenConfirm(m)
        \/ ConfirmBack(m) \/ EditBack(m)
        \/ \E status \in CallStatus :
              EnterEditFails(m, status) \/ ExecuteCommand(m, status) \/ CommitApplied(m)
        \/ \E status \in CallStatus : EnterEdit(m, status)
        \/ CommitConflict(m)
        \/ \E status \in CallStatus : CommitReadFails(m, status) \/ CommitRejected(m, status)
        \/ \E amount \in device.amounts : EditAdjust(m, amount)
        \/ OpenStepEditor(m)
        \/ \E direction \in {-1, 0, 1} : StepScale(m, direction)
        \/ StepAccept(m) \/ StepCancel(m)
    BY <1>4 DEF Event, CallStatus
  <2> QED BY <1>3, <2>1, UndrawnSteps, AnsweredSteps, EnterStep, ConflictStep, RefusedSteps,
             AdjustedStep, StepOpened, StepScaled, StepClosed
<1>5. ASSUME NEW ms \in device.elapse, Tick(ms) PROVE DraftInv' /\ AsPromised
  BY <1>1, <1>5 DEF Tick
<1> QED BY <1>1, <1>2, <1>3, <1>4, <1>5, DroppedFeedback, FreshDrafts DEF Next, vars

(* Whatever the owners hold, however a draft, its base and its step have   *)
(* been adjusted and whichever commits failed, the draft in an editor can  *)
(* be adjusted and committed, and a write fails only by its setter's word. *)
(* The widths of the float ranges have to be floats for it: the finding of *)
(* the run parameter_float_step.                                           *)
THEOREM DraftsCanBeCommitted ==
    ASSUME \A p \in ParameterId : SpanIsFloat(Descriptor[p])
    PROVE  Spec => []DraftCommittable
<1>1. Init => IInv /\ DraftInv
  BY Initiation, DraftInitiation
<1>2. IInv /\ DraftInv /\ [Next]_vars => (IInv /\ DraftInv)'
  BY Consecution, DraftConsecution
<1>3. IInv /\ DraftInv => DraftCommittable
  <2> SUFFICES ASSUME IInv, DraftInv, NEW m \in MenuId
               PROVE  /\ Editing(m) =>
                            /\ InRange(D(m), menu[m].edit_value)
                            /\ InRange(D(m), menu[m].original_value)
                            /\ AdjustStatus(D(m), menu[m].edit_value,
                                            menu[m].step[Edited(m)]) = "OK"
                      /\ menu[m].state = "STEP_EDIT" =>
                            RuntimeStepStatus(D(m), menu[m].original_step) = "OK"
                      /\ menu[m].feedback.reason = "WRITE_FAILED" =>
                            menu[m].feedback.status \in Failure
    BY DEF DraftCommittable
  <2>1. Drafted(menu[m])
    BY DEF DraftInv
  <2>2. menu[m].feedback.reason = "WRITE_FAILED" => menu[m].feedback.status \in Failure
    BY <2>1 DEF Drafted, TellsFailure
  <2>3. ASSUME Editing(m)
        PROVE  /\ InRange(D(m), menu[m].edit_value) /\ InRange(D(m), menu[m].original_value)
               /\ AdjustStatus(D(m), menu[m].edit_value, menu[m].step[Edited(m)]) = "OK"
    <3>1. menu[m].state \in EditStates
      BY <2>3 DEF Editing, EditStates
    <3>2. /\ D(m).writable /\ DescriptorStatus(D(m)) = "OK"
          /\ Steps(D(m), menu[m].step[Edited(m)])
          /\ Holds(D(m), menu[m].edit_value) /\ Holds(D(m), menu[m].original_value)
      BY <3>1, EditorFacts
    <3> QED BY <3>2 DEF AdjustStatus, Steps, Holds
  <2>4. ASSUME menu[m].state = "STEP_EDIT"
        PROVE  RuntimeStepStatus(D(m), menu[m].original_step) = "OK"
    <3>1. D(m) = DescriptorOf(menu[m]) /\ D(m) = Descriptor[Edited(m)] /\ Edited(m) \in ParameterId
      BY <2>4, EditorFacts DEF EditStates
    <3>2. SpanIsFloat(D(m))
      BY <3>1
    <3> QED BY <2>1, <2>4, <3>1, <3>2 DEF Drafted, Steps
  <2> QED BY <2>2, <2>3, <2>4
<1> QED BY <1>1, <1>2, <1>3, PTL DEF Spec

-----------------------------------------------------------------------------
(***************************************************************************)
(* The views.                                                              *)
(***************************************************************************)
LEMMA MultiplesOfVisible ==
    ASSUME NEW a \in Int, NEW b \in Int, NEW visible \in Nat \ {0}, a * visible < b * visible
    PROVE  a < b
<1> SUFFICES ASSUME a >= b PROVE FALSE
  OBVIOUS
<1>1. (a - b) * visible >= 0
  OBVIOUS
<1>2. (a - b) * visible = a * visible - b * visible
  OBVIOUS
<1>3. a * visible \in Int /\ b * visible \in Int
  OBVIOUS
<1> QED BY <1>1, <1>2, <1>3

LEMMA PagesSuffice ==
    ASSUME NEW total \in Nat \ {0}, NEW visible \in Nat \ {0}
    PROVE  /\ PageCount(total, visible) \in Nat
           /\ (PageCount(total, visible) - 1) * visible < total
           /\ total <= PageCount(total, visible) * visible
<1> DEFINE t == total \div visible
           rest == total % visible
           pages == PageCount(total, visible)
           full == t * visible
<1>1. t \in Nat /\ rest \in 0 .. visible - 1 /\ total = visible * t + rest
  BY Turns
<1>2. pages = IF rest # 0 THEN t + 1 ELSE t
  BY <1>1 DEF PageCount
<1> HIDE DEF t, rest, pages
<1>3. full \in Int /\ full = visible * t /\ (t + 1) * visible = full + visible
      /\ (t - 1) * visible = full - visible
  BY <1>1
<1> HIDE DEF full
<1>4. CASE rest # 0
  <2>1. pages = t + 1 /\ pages - 1 = t
    BY <1>1, <1>2, <1>4
  <2>2. full < total /\ total <= full + visible
    BY <1>1, <1>3, <1>4
  <2> QED BY <1>1, <1>3, <2>1, <2>2 DEF pages, full
<1>5. CASE rest = 0
  <2>1. pages = t
    BY <1>2, <1>5
  <2>2. full - visible < total /\ total <= full
    BY <1>1, <1>3, <1>5
  <2> QED BY <1>1, <1>3, <2>1, <2>2 DEF pages, full
<1> QED BY <1>4, <1>5

(* The page of a list that has the index, and how full it is.              *)
LEMMA ListShowsIndex ==
    ASSUME NEW total \in Nat \ {0}, NEW index \in 0 .. total - 1, NEW visible \in Nat \ {0}
    PROVE  LET view == ListView(total, index, visible)
           IN  /\ view.selected \in view.shown /\ view.shown \subseteq 0 .. total - 1
               /\ Cardinality(view.shown) <= visible
               /\ view.page_index \in 0 .. view.page_count - 1
               /\ (view.page_count - 1) * visible < view.total
               /\ view.total <= view.page_count * visible
               /\ view.page_index < view.page_count - 1 => Cardinality(view.shown) = visible
<1> DEFINE view == ListView(total, index, visible)
           q == index \div visible
           rest == index % visible
           first == q * visible
           count == Lesser(total - first, visible)
           pages == PageCount(total, visible)
           filled == (pages - 1) * visible
           room == pages * visible
<1>1. q \in Nat /\ rest \in 0 .. visible - 1 /\ index = visible * q + rest
  BY Turns
<1>2. pages \in Nat /\ filled < total /\ total <= room
  BY PagesSuffice
<1>3. /\ view.total = total /\ view.shown = first .. first + count - 1 /\ view.selected = index
      /\ view.page_index = first \div visible /\ view.page_count = pages
  BY DEF ListView
<1> HIDE DEF view, q, rest, pages
<1>4. first \in Nat /\ first <= index /\ index < first + visible
  <2>1. first \in Nat /\ first = visible * q
    BY <1>1
  <2> HIDE DEF first
  <2> QED BY <1>1, <2>1
<1>5. first \div visible = q
  <2> DEFINE k == first \div visible
             r == first % visible
  <2>1. k \in Nat /\ r \in 0 .. visible - 1 /\ first = visible * k + r
    BY <1>4, Turns
  <2>2. first % visible = 0
    <3>1. first = visible * q + 0
      BY <1>1
    <3> QED BY <1>1, <1>4, <3>1, RemainderIsUnique
  <2> HIDE DEF k, r
  <2>3. visible * k = visible * q
    <3>1. r = 0
      BY <2>2 DEF r
    <3>2. first = visible * q /\ visible * k \in Int
      BY <1>1, <2>1
    <3> HIDE DEF first
    <3> QED BY <2>1, <3>1, <3>2
  <2>4. k = q
    <3>1. visible * (k - q) = 0
      BY <1>1, <2>1, <2>3
    <3> QED BY <1>1, <2>1, <3>1
  <2> QED BY <2>4 DEF k
<1>6. count \in 1 .. visible /\ first + count <= total /\ index < first + count
      /\ (total - first >= visible => count = visible)
  <2> HIDE DEF first
  <2> QED BY <1>4 DEF Lesser
<1>7. Cardinality(first .. first + count - 1) = count
  <2> HIDE DEF first, count
  <2>1. first \in Int /\ first + count - 1 \in Int /\ ~(first > first + count - 1)
    BY <1>4, <1>6
  <2> QED BY <1>4, <1>6, <2>1, FS_Interval
<1>8. room \in Int /\ filled \in Int /\ q * visible < pages * visible
  <2>1. room \in Int /\ filled \in Int
    BY <1>2
  <2> HIDE DEF room, filled
  <2>2. first < room
    BY <1>2, <1>4, <2>1
  <2> QED BY <2>1, <2>2 DEF room
<1>9. q < pages
  BY <1>1, <1>2, <1>8, MultiplesOfVisible
<1>10. q < pages - 1 => count = visible
  <2> SUFFICES ASSUME q < pages - 1 PROVE count = visible
    OBVIOUS
  <2> DEFINE gap == pages - 1 - q
             more == gap * visible
  <2>1. gap \in Nat \ {0}
    BY <1>1, <1>2
  <2>2. filled = first + more
    BY <1>1, <1>2
  <2> HIDE DEF gap
  <2>3. more \in Int /\ more >= visible
    BY <2>1
  <2> HIDE DEF more, filled, first, count
  <2>4. total - first >= visible
    BY <1>2, <1>4, <1>8, <2>2, <2>3
  <2> QED BY <1>6, <2>4
<1>11. /\ view.selected \in view.shown /\ view.shown \subseteq 0 .. total - 1
       /\ Cardinality(view.shown) <= visible
  <2> HIDE DEF first, count
  <2>1. Cardinality(view.shown) = count
    BY <1>3, <1>7
  <2> QED BY <1>3, <1>4, <1>6, <2>1
<1>12. view.page_index \in 0 .. view.page_count - 1
  BY <1>1, <1>2, <1>3, <1>5, <1>9
<1>13. (view.page_count - 1) * visible < view.total /\ view.total <= view.page_count * visible
  BY <1>2, <1>3
<1>14. view.page_index < view.page_count - 1 => Cardinality(view.shown) = visible
  BY <1>3, <1>5, <1>7, <1>10
<1> QED BY <1>11, <1>12, <1>13, <1>14 DEF view

(* A view that shows one component only                                    *)
LEMMA SingleShowsIndex ==
    ASSUME NEW index, NEW visible \in Nat \ {0}
    PROVE  LET view == SingleView(index)
           IN  /\ view.selected \in view.shown /\ view.shown = {index}
               /\ Cardinality(view.shown) <= visible
               /\ view.page_index \in 0 .. view.page_count - 1
               /\ (view.page_count - 1) * visible < view.total
               /\ view.total <= view.page_count * visible
               /\ ~(view.page_index < view.page_count - 1)
<1>1. Cardinality({index}) = 1
  BY FS_Singleton
<1> QED BY <1>1 DEF SingleView

LEMMA ViewFits ==
    ASSUME IInv, NEW m \in Initialized, NEW visible \in Nat \ {0}
    PROVE  LET view == QueryView(m, visible)
           IN  /\ view.selected \in view.shown /\ Cardinality(view.shown) <= visible
               /\ view.page_index \in 0 .. view.page_count - 1
               /\ ~At(m, "DISPLAY_PAGE") =>
                     /\ (view.page_count - 1) * visible < view.total
                     /\ view.total <= view.page_count * visible
                     /\ view.page_index < view.page_count - 1 =>
                           Cardinality(view.shown) = visible
<1> DEFINE view == QueryView(m, visible)
<1>1. /\ m \in MenuId /\ OnTarget(menu[m]) /\ OnRoot(menu[m])
      /\ Roots(m) = RootsOf(menu[m]) /\ Root(m) = RootOf(menu[m])
      /\ menu[m].state \in {"ROOT", "DISPLAY_PAGE"} \cup InGroup
  BY DEF IInv, Initialized, At, OnTarget, Roots, Root, Config, RootsOf, RootOf
<1>2. CASE At(m, "ROOT")
  <2> DEFINE total == Cardinality(DOMAIN Roots(m))
  <2>1. /\ view = ListView(total, menu[m].root_index, visible)
        /\ ~At(m, "DISPLAY_PAGE")
    BY <1>2 DEF QueryView, At
  <2>2. total \in Nat \ {0} /\ menu[m].root_index \in 0 .. total - 1
    BY <1>1, SoundRoot, FS_CardinalityType, FS_EmptySet DEF Indexed, OnRoot
  <2> HIDE DEF total, view
  <2> QED BY <2>1, <2>2, ListShowsIndex DEF view
<1>3. CASE At(m, "GROUP")
  <2> DEFINE total == Cardinality(DOMAIN Root(m).items)
  <2>1. /\ view = ListView(total, menu[m].item_index, visible)
        /\ ~At(m, "DISPLAY_PAGE")
    BY <1>3 DEF QueryView, At
  <2>2. total \in Nat \ {0} /\ menu[m].item_index \in 0 .. total - 1
    <3>1. OnItem(menu[m])
      BY <1>1, <1>3 DEF OnTarget, At, InGroup
    <3>2. Indexed(RootOf(menu[m]).items)
      BY <1>1, <3>1, SoundRoot DEF OnItem
    <3> QED BY <1>1, <3>1, <3>2, FS_CardinalityType, FS_EmptySet DEF Indexed, OnItem
  <2> HIDE DEF total, view
  <2> QED BY <2>1, <2>2, ListShowsIndex DEF view
<1>4. CASE At(m, "DISPLAY_PAGE")
  <2> DEFINE single == SingleView(menu[m].subpage)
             x == menu[m].subpage
             y == Root(m).page_count
  <2>1. view = [single EXCEPT !.page_index = x, !.page_count = y]
    BY <1>4 DEF QueryView, At
  <2>2. x \in 0 .. y - 1
    BY <1>1, <1>4 DEF OnTarget, At
  <2>3. single.selected \in single.shown /\ Cardinality(single.shown) <= visible
    BY SingleShowsIndex
  <2>4. DOMAIN single = {"total", "shown", "selected", "page_index", "page_count"}
    BY DEF SingleView
  <2> HIDE DEF single, x, y, view
  <2>5. /\ view.selected = single.selected /\ view.shown = single.shown
        /\ view.page_index = x /\ view.page_count = y
    BY <2>1, <2>4
  <2> QED BY <1>4, <2>2, <2>3, <2>5 DEF view
<1>5. CASE ~At(m, "ROOT") /\ ~At(m, "GROUP") /\ ~At(m, "DISPLAY_PAGE")
  <2>1. view = SingleView(menu[m].item_index)
    BY <1>5 DEF QueryView
  <2> HIDE DEF view
  <2> QED BY <2>1, SingleShowsIndex DEF view
<1> QED BY <1>2, <1>3, <1>4, <1>5

(* What a list or an editor shows as valid is within the limits.           *)
LEMMA ShownInRange ==
    ASSUME IInv, DraftInv, NEW m \in Initialized, NEW visible \in Nat \ {0},
           NEW i \in QueryView(m, visible).shown, ShownValue(m, i).status = "OK"
    PROVE  InRange(Descriptor[ShownValue(m, i).parameter], ShownValue(m, i).value)
<1> DEFINE p == Root(m).items[i].parameter
<1>1. CASE Editing(m)
  <2>1. m \in MenuId /\ menu[m].state \in EditStates
    BY <1>1 DEF Initialized, Editing, EditStates
  <2>2. QueryView(m, visible) = SingleView(menu[m].item_index)
    BY <2>1 DEF QueryView, At, EditStates
  <2>3. i = menu[m].item_index
    BY <2>2 DEF SingleView
  <2>4. p = Edited(m)
    BY <2>3 DEF Edited, Item
  <2>5. Holds(Descriptor[p], menu[m].edit_value)
    BY <2>1, <2>4, EditorFacts
  <2> HIDE DEF p
  <2>6. ShownValue(m, i) = [parameter |-> p, value |-> menu[m].edit_value, status |-> "OK"]
    BY <1>1 DEF ShownValue, p
  <2> QED BY <2>5, <2>6 DEF Holds
<1>2. CASE ~Editing(m)
  <2> HIDE DEF p
  <2>1. ShownValue(m, i) = [parameter |-> p, value |-> owner[p], status |-> GetStatus(p, "OK")]
    BY <1>2 DEF ShownValue, p
  <2>2. GetStatus(p, "OK") = "OK"
    BY <2>1
  <2>3. InRange(Descriptor[p], owner[p])
    BY <2>2 DEF GetStatus
  <2> QED BY <2>1, <2>3
<1> QED BY <1>1, <1>2

(* Whatever size a display has and however long the lists are, the page    *)
(* that a menu shows has the selected component, the pages are as few and  *)
(* as full as they can be, and a value shown as valid is in range.         *)
THEOREM ViewsShowSelection == Spec => []ViewShowsSelection
<1>1. Init => IInv /\ DraftInv
  BY Initiation, DraftInitiation
<1>2. IInv /\ DraftInv /\ [Next]_vars => (IInv /\ DraftInv)'
  BY Consecution, DraftConsecution
<1>3. IInv /\ DraftInv => ViewShowsSelection
  <2> SUFFICES ASSUME IInv, DraftInv, NEW m \in Initialized, NEW visible \in VisibleCounts
               PROVE  LET view == QueryView(m, visible)
                      IN  /\ view.selected \in view.shown /\ Cardinality(view.shown) <= visible
                          /\ view.page_index \in 0 .. view.page_count - 1
                          /\ ~At(m, "DISPLAY_PAGE") =>
                                /\ (view.page_count - 1) * visible < view.total
                                /\ view.total <= view.page_count * visible
                                /\ view.page_index < view.page_count - 1 =>
                                      Cardinality(view.shown) = visible
                          /\ ~At(m, "ROOT") /\ Root(m).kind = "GROUP" =>
                                \A i \in {j \in view.shown :
                                            Root(m).items[j].kind = "PARAMETER"} :
                                    LET shown == ShownValue(m, i)
                                    IN  shown.status = "OK" =>
                                          InRange(Descriptor[shown.parameter], shown.value)
    BY DEF ViewShowsSelection
  <2>1. visible \in Nat \ {0}
    BY VisibleAssumption
  <2>2. \A i \in QueryView(m, visible).shown :
            ShownValue(m, i).status = "OK" =>
                InRange(Descriptor[ShownValue(m, i).parameter], ShownValue(m, i).value)
    BY <2>1, ShownInRange
  <2> QED BY <2>1, <2>2, ViewFits
<1> QED BY <1>1, <1>2, <1>3, PTL DEF Spec

(* In any number of menus, whatever happens to the values meanwhile: the   *)
(* menus implement the abstract editors.  A commit writes a parameter only *)
(* while it has the value that the session began or started over with.     *)
THEOREM MenusImplementEditors == Spec => ImplementsEditors
<1>1. Init => EditorsAbstract!Init
  <2> SUFFICES ASSUME Init PROVE EditorsAbstract!Init
    OBVIOUS
  <2>1. owner \in [ParameterId -> OwnerValue]
    BY DevicesAssumption DEF Init
  <2>2. \A m \in MenuId : EditedAbstract(m) = None
    BY DEF Init, Uninitialized, EditedAbstract, Editing
  <2> QED BY <2>1, <2>2 DEF EditorsAbstract!Init
<1>2. IInv /\ DraftInv /\ [Next]_vars => [EditorsAbstract!Next]_(EditorsAbstract!vars)
  <2> SUFFICES ASSUME IInv, DraftInv, [Next]_vars
               PROVE  [EditorsAbstract!Next]_(EditorsAbstract!vars)
    OBVIOUS
  <2>1. AsPromised
    BY DraftConsecution
  <2> QED BY <2>1, SessionsAreAbstract DEF AsPromised, EditorsAbstract!vars
<1>3. Init => IInv /\ DraftInv
  BY Initiation, DraftInitiation
<1>4. IInv /\ DraftInv /\ [Next]_vars => (IInv /\ DraftInv)'
  BY Consecution, DraftConsecution
<1> QED BY <1>1, <1>2, <1>3, <1>4, PTL DEF Spec, ImplementsEditors, EditorsAbstract!Spec

-----------------------------------------------------------------------------
(* Whatever configuration init accepted and whatever events followed, the  *)
(* indices through which the handlers read the configuration exist, the    *)
(* target they find is of the kind that the state takes it for, and no     *)
(* earlier item is bound to the same target.                               *)
THEOREM HandlersFindTheirTarget == Spec => []TargetMatchesState
<1>1. Spec => []IInv
  BY Initiation, Consecution, PTL DEF Spec
<1> QED BY <1>1, Sufficiency, PTL

(* In any number of menus no command runs but the one that a menu shows,   *)
(* confirmed there if it asks for that, and the menu keeps its result.     *)
THEOREM CommandsRunAsConfirmed == Spec => CommandRunsAsConfirmed
<1>1. Spec => []IInv
  BY Initiation, Consecution, PTL DEF Spec
<1>2. IInv /\ [Next]_vars =>
        [snapshot' # snapshot =>
           \E m \in Initialized :
              /\ ~OnParameter(m) /\ Item(m).command = snapshot'.command
              /\ Item(m).confirm => menu[m].state = "COMMAND_CONFIRM"
              /\ menu'[m].feedback.reason = "RESULT" /\ menu'[m].feedback.active
              /\ menu'[m].state = "GROUP"]_vars
  BY OnlyAsConfirmed
<1> QED BY <1>1, <1>2, PTL DEF Spec, CommandRunsAsConfirmed
=============================================================================

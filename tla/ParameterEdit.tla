---------------------------- MODULE ParameterEdit ----------------------------
(***************************************************************************)
(* A draft value and its runtime step, driven through any sequence of      *)
(* mizu_parameter_adjust_value and mizu_parameter_scale_step, as the menu  *)
(* drives them: each result is the next input.                             *)
(***************************************************************************)
EXTENDS ParameterValue

CONSTANTS
    Descriptors,    \* the descriptors of the registry
    Counts          \* the step counts of one adjustment

ASSUME EditedAssumption == Counts \subseteq Int /\ \A d \in Descriptors : Typed(d)

VARIABLES
    edited,         \* the descriptor
    draft,          \* the value
    draft_step      \* the runtime step

edit_vars == <<edited, draft, draft_step>>

EditInit ==
    /\ edited \in {d \in Descriptors : DescriptorStatus(d) = "OK" /\ d.writable}
    /\ draft \in {edited.minimum, edited.maximum}
    /\ draft_step = edited.step

AdjustDraft(count) ==
    /\ draft' = AdjustValue(edited, draft, draft_step, count)
    /\ UNCHANGED <<edited, draft_step>>

ScaleDraftStep(direction) ==
    /\ draft_step' = ScaleStep(edited, draft_step, direction)
    /\ UNCHANGED <<edited, draft>>

EditNext ==
    \/ \E count \in Counts : AdjustDraft(count)
    \/ \E direction \in {-1, 1} : ScaleDraftStep(direction)

EditSpec == EditInit /\ [][EditNext]_edit_vars

-----------------------------------------------------------------------------
(* Properties *)

(* No sequence of adjustments leaves the range of the parameter or its     *)
(* type, so a draft can always be committed.                               *)
DraftStaysCommittable ==
    /\ InRange(edited, draft)
    /\ AdjustStatus(edited, draft, draft_step) = "OK"
    /\ edited.type = "FLOAT" => IsFloat(draft)

(* The unsigned arithmetic, which never forms value + delta before it has  *)
(* checked the room, saturates exactly as the signed one does; away from   *)
(* the bounds an adjustment can be taken back.                             *)
AdjustmentIsExact ==
    edited.type \in {"INT32", "UINT32"} =>
        \A count \in Counts :
            LET moved == AdjustValue(edited, draft, draft_step, count)
                exact == draft + draft_step * count
            IN  /\ moved = Clamp(exact, edited.minimum, edited.maximum)
                /\ moved = exact => AdjustValue(edited, moved, draft_step, -count) = draft

(* scale_step promises a new step within the limits, and the limits are    *)
(* those it demands of its input: whatever was done to a step, it can be   *)
(* scaled again, in either direction.                                      *)
StepStaysScalable ==
    edited.type # "BOOL" /\ edited.minimum # edited.maximum =>
        RuntimeStepStatus(edited, draft_step) = "OK"
=============================================================================

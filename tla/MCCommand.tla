------------------------------ MODULE MCCommand ------------------------------
(***************************************************************************)
(* Registries for model checking: up to two groups of up to two commands,  *)
(* with every combination of repeated IDs and unusable entries, tables of  *)
(* sound groups with one command too many in all, and tables with one      *)
(* group too many.                                                         *)
(***************************************************************************)
EXTENDS Command

Commands == [id : {1, 2}, valid : BOOLEAN]
CommandLists == {<< >>} \cup [1 .. 1 -> Commands] \cup [1 .. 2 -> Commands]
                \cup {<<[id |-> c, valid |-> TRUE], [id |-> c + 2, valid |-> TRUE]>> : c \in {1, 2}}
AnyGroup == [id : {7, 8}, valid : {TRUE}, commands : CommandLists]
            \cup [id : {7}, valid : {FALSE}, commands : [1 .. 1 -> Commands]]
TooMany == {[g \in 1 .. 3 |-> [id |-> g, valid |-> TRUE,
                               commands |-> <<[id |-> g, valid |-> TRUE]>>]]}
SmallRegistries == {<< >>} \cup [1 .. 1 -> AnyGroup] \cup [1 .. 2 -> AnyGroup] \cup TooMany
=============================================================================

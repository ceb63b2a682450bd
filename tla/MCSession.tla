----------------------------- MODULE MCSession -------------------------------
(* Values for the constants of Session in the model-checking runs. *)
EXTENDS Session

CONSTANTS s1, a1

NoSets == {}
SomeSizes == {<<200, 100>>}
TwoSizes == {<<200, 100>>, <<224, 100>>}
ConfiguredSizes == {<<208, 140>>, <<308, 240>>}
OneConfiguredSize == {<<208, 140>>}
ActiveOnly == {{"ACTIVE"}}
(* One leaves no height for the content, and a titlebar as narrow as can be drawn. *)
TinyOrNot == {<<208, 140>>, <<62, 20>>}
NoMinimize == {{"MINIMIZE"}}
NoManager == {{}}
Inactive == {{}}
ActiveOrNot == {{}, {"ACTIVE"}}
=============================================================================

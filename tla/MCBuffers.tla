----------------------------- MODULE MCBuffers ------------------------------
(* Values for the constants of Buffers in the model-checking runs. *)
EXTENDS Buffers

(* One that fits, one too narrow for three buttons but not for one, none. *)
SomeSizes == {<<200, 100>>, <<40, 1>>, <<0, 100>>}
WideSizes == {<<200, 100>>, <<40, 100>>}
AllOrClose == {[active |-> TRUE, buttons |-> ButtonKinds],
               [active |-> FALSE, buttons |-> {"Close"}]}
AllButtons == {[active |-> TRUE, buttons |-> ButtonKinds]}
HoverOrNot == {[hover |-> None, pressed |-> None],
               [hover |-> Some("Close"), pressed |-> None]}
=============================================================================

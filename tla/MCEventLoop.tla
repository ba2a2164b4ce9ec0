---------------------------- MODULE MCEventLoop ----------------------------
(***************************************************************************)
(* Instances of EventLoop with one loop and two nanoapps.                  *)
(***************************************************************************)
EXTENDS EventLoop

CONSTANTS e1, e2, e3, l1, a1, a2

OneLoop == <<l1>>
BothOnOne == [a \in {a1, a2} |-> l1]

BothRunning == l1 :> <<a1, a2>>
FirstRunning == l1 :> <<a1>>

UnloadOne == {<<l1, Callback("unload", a1)>>}
UnloadBoth == UnloadOne \cup {<<l1, Callback("unload", a2)>>}
StartOther == {<<l1, Callback("start", a2)>>}
UnloadAndStart == UnloadOne \cup StartOther

Slots == Permutations({e1, e2, e3})
=============================================================================

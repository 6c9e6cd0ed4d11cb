---------------------------- MODULE MCNativeHotkey ----------------------------
(* The user's bindings of the tests: Dictate End, Translate End+RightShift, Switch language on
   either Shift, and an Ask chord that ends in a typing key. *)
EXTENDS NativeHotkey

CONSTANTS End, LeftShift, RightShift, A, Shift

MCModifiers == {LeftShift, RightShift}
MCTyping == {A, Escape}
MCStandalone == {End}
MCNativeOnly == {End, LeftShift, RightShift}
MCGeneric == {Shift}
MCSide == [name \in {Shift} |-> {LeftShift, RightShift}]
MCConfigured ==
  <<[role |-> "dictation", names |-> <<End>>],
    [role |-> "ask", names |-> <<RightShift, A>>],
    [role |-> "translate", names |-> <<End, RightShift>>],
    [role |-> "switchLanguage", names |-> <<Shift>>]>>
MCGatings == {Roles, {"translate", "switchLanguage"}}
=============================================================================

------------------------------ MODULE VoiceRun ------------------------------
(***************************************************************************)
(* What the user is promised of dictation, without saying how it is done:  *)
(* one run at a time holds the app, its microphone is on for a while, its  *)
(* result is pasted at most once, after the microphone is off, and the run *)
(* ends.  Pipeline implements it.                                          *)
(***************************************************************************)
EXTENDS Naturals

CONSTANTS
    Runs,
    None

VARIABLES
    active,   \* the run the app shows as under way, or None
    mic,      \* the run whose microphone is on, or None
    pastes    \* how often the result of each run was pasted

vars == <<active, mic, pastes>>

Init ==
    /\ active = None
    /\ mic = None
    /\ pastes = [r \in Runs |-> 0]

Begin(r) ==
    /\ active = None
    /\ active' = r
    /\ UNCHANGED <<mic, pastes>>

Listen ==
    /\ active # None
    /\ mic = None
    /\ pastes[active] = 0
    /\ mic' = active
    /\ UNCHANGED <<active, pastes>>

Hush ==
    /\ mic = active
    /\ mic' = None
    /\ UNCHANGED <<active, pastes>>

Paste ==
    /\ active # None
    /\ mic = None
    /\ pastes[active] = 0
    /\ pastes' = [pastes EXCEPT ![active] = 1]
    /\ UNCHANGED <<active, mic>>

\* A run that fails while it records turns the microphone off and ends.
End ==
    /\ active # None
    /\ active' = None
    /\ mic' = None
    /\ UNCHANGED pastes

Next == (\E r \in Runs : Begin(r)) \/ Listen \/ Hush \/ Paste \/ End

Spec     == Init /\ [][Next]_vars
FairSpec == Spec /\ WF_vars(End)

=============================================================================

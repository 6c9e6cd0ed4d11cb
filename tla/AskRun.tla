------------------------------- MODULE AskRun -------------------------------
(***************************************************************************)
(* What the rest of the app may take for granted of Ask: one run at a time *)
(* starts, records and thinks, and each of the three comes to an end.      *)
(* AskDictation implements it; HandsFree is built on it.                   *)
(***************************************************************************)
VARIABLE phase  \* "idle", "starting", "recording" or "thinking"

Init == phase = "idle"

Begin  == phase = "idle"      /\ phase' = "starting"
Record == phase = "starting"  /\ phase' = "recording"
Think  == phase = "recording" /\ phase' = "thinking"
Finish == phase = "thinking"  /\ phase' = "idle"

\* The start or the recording fails or is cancelled.
GiveUp == phase = "starting"  /\ phase' = "idle"
Lose   == phase = "recording" /\ phase' = "idle"

Next == Begin \/ Record \/ Think \/ Finish \/ GiveUp \/ Lose

\* A start ends (its startup times out after 30 seconds), a recording has a
\* limit, and so has an answer.
Fairness ==
    /\ WF_phase(Record \/ GiveUp)
    /\ WF_phase(Think \/ Lose)
    /\ WF_phase(Finish)

Spec     == Init /\ [][Next]_phase
FairSpec == Spec /\ Fairness

=============================================================================

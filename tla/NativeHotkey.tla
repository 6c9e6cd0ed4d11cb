---------------------------- MODULE NativeHotkey ----------------------------
(***************************************************************************)
(* The native key listener (native_hotkey.rs, the registration plan of     *)
(* hotkey.rs): an event tap sees every key edge before the focused app     *)
(* does, matches the held keys against the configured chords, and swallows *)
(* the edges the app must not see.  While a shortcut is being recorded the *)
(* tap captures keys instead.                                              *)
(*                                                                         *)
(* The tap handles one edge in steps: the modifiers whose edges it missed,  *)
(* one by one, and then the edge itself.                                   *)
(*                                                                         *)
(* The keyboard, the gates (a Translate recording, a run to cancel, the    *)
(* roles onboarding allows), the app's own keystrokes, the replacement of  *)
(* the listener and the tap's outages move freely around it.               *)
(***************************************************************************)
EXTENDS Naturals, Sequences, FiniteSets, Functions

CONSTANTS
  Modifiers, Typing, Standalone,  \* the physical keys, by class
  Fn,                             \* modifiers whose flag says nothing of the key
  NativeOnly,                     \* keys that make a chord native by themselves
  Escape,                         \* the cancel key
  Generic,                        \* modifier names that mean either side
  Side,                           \* the physical keys a generic name stands for
  Configured,                     \* the configured shortcuts, in plan order
  Gatings,                        \* the sets of roles onboarding may allow
  MaxDown                         \* bound: keys held at one time

Keys == Modifiers \cup Typing \cup Standalone
MaxChordKeys == 3

Sides(name) == IF name \in Generic THEN Side[name] ELSE {name}

ASSUME KeysAssumption ==
  /\ Modifiers \cap Typing = {} /\ Modifiers \cap Standalone = {} /\ Typing \cap Standalone = {}
  /\ Escape \in Typing /\ Fn \subseteq Modifiers /\ NativeOnly \subseteq Keys
  /\ \A name \in Generic : Side[name] \subseteq Modifiers
  /\ \A i \in DOMAIN Configured : \A j \in DOMAIN Configured[i].names :
        Configured[i].names[j] \in Keys \cup Generic

(***************************************************************************)
(* The registration plan: which chords the listener watches.               *)
(***************************************************************************)
EitherSideChords(names) ==
  {Range(pick) : pick \in {p \in [DOMAIN names -> Keys] :
                              \A i \in DOMAIN names : p[i] \in Sides(names[i])}}

IsNative(names) ==
  /\ Range(names) \subseteq Keys
  /\ Range(names) \cap NativeOnly # {} \/ Range(names) \subseteq Modifiers

NativeChords(shortcut) ==
  CASE shortcut.role = "switchLanguage" -> EitherSideChords(shortcut.names)
    [] shortcut.role # "switchLanguage" /\ IsNative(shortcut.names) -> {Range(shortcut.names)}
    [] OTHER -> {}

SwitchChords ==
  UNION {NativeChords(Configured[i]) :
            i \in {j \in DOMAIN Configured : Configured[j].role = "switchLanguage"}}

\* The first key of a Translate shortcut on its own, and the whole shortcut when it is not native.
StopChords ==
  (UNION {EitherSideChords(<<Configured[i].names[1]>>)
            \cup (IF IsNative(Configured[i].names) THEN {} ELSE EitherSideChords(Configured[i].names)) :
             i \in {j \in DOMAIN Configured : Configured[j].role = "translate"}}) \ SwitchChords

Chords(role, at, chords) == {[role |-> role, at |-> at, keys |-> c] : c \in chords}

Bindings ==
  (UNION {Chords(Configured[i].role, i, NativeChords(Configured[i])) : i \in DOMAIN Configured})
    \cup Chords("stopTranslate", Len(Configured) + 1, StopChords)

IsRecordingOnly(i) == i.role \in {"switchLanguage", "stopTranslate"}
StrictSubset(i, j) == i.keys \subseteq j.keys /\ i.keys # j.keys
Roles == {i.role : i \in Bindings}

(***************************************************************************)
(* The variables.                                                          *)
(***************************************************************************)
VARIABLES
  listener,   \* "off", "hotkeys" or "capture"
  matcher,    \* held, active, deferred, swallowed, cancelDown
  capture,    \* held, peak (the largest set held so far) and done
  heard,      \* the tap is enabled
  edge,       \* the key edge in the tap, if any, with the modifiers it still brings in line
  down,       \* keys the user (or a keystroke of ours) holds down, up to the last edge handled
  app,        \* keys the focused app believes held, less those whose way up a capture swallowed
  told,       \* what this listener last told the handler of each binding
  recording,  \* a Translate recording runs (the switch gate)
  running,    \* a run can be cancelled (the cancel gate)
  allowed,    \* roles the role gate allows
  own         \* a keystroke of OraType is being sent, or was a moment ago

keyboard == <<down, app>>
gates == <<recording, running, allowed, own>>
listenerVars == <<listener, matcher, capture, heard, edge, keyboard, told, gates>>

NoKeys == [held |-> {}, active |-> {}, deferred |-> {}, swallowed |-> {}, cancelDown |-> FALSE]
NoCapture == [held |-> {}, peak |-> {}, done |-> FALSE]

\* "wrong": a press of a pressed binding, or a release of one that is not.
HandlerStates == {"up", "down", "wrong"}

(***************************************************************************)
(* The matcher.  A step of it is a record: the state after it, the         *)
(* bindings it presses, taps (pressed and released at once) and releases,  *)
(* in this order, and whether the platform event is swallowed.             *)
(***************************************************************************)
Quietly(m, swallow) ==
  [m |-> m, pressed |-> {}, tapped |-> {}, released |-> {}, swallow |-> swallow]

Allows(role) == role \in allowed \/ (role = "stopTranslate" /\ "translate" \in allowed)

\* Escape fires once per press during a run, and is swallowed until it comes up.
HandlesCancelKey_OnRepeat(m, k, pressed, repeat) ==
  k = Escape /\ (m.cancelDown \/ (pressed /\ running))
HandlesCancelKey(m, k, pressed, repeat) ==
  k = Escape /\ (m.cancelDown \/ (pressed /\ ~repeat /\ running))

HandleCancelKey(m, pressed) == Quietly([m EXCEPT !.cancelDown = pressed], TRUE)

Live == {i \in Bindings : (IsRecordingOnly(i) => recording) /\ Allows(i.role)}
BoundKeys == UNION {i.keys : i \in Live}
HasLiveSuperset(i) == \E j \in Live : StrictSubset(i, j)

\* The largest live chord that k completes; a recording-only one wins a tie, then the first.
Beats(i, j) ==
  \/ Cardinality(i.keys) > Cardinality(j.keys)
  \/ /\ Cardinality(i.keys) = Cardinality(j.keys)
     /\ \/ IsRecordingOnly(i) /\ ~IsRecordingOnly(j)
        \/ (IsRecordingOnly(i) <=> IsRecordingOnly(j)) /\ i.at <= j.at

\* One of them, when the sides of one shortcut leave several.
Largest(satisfied) ==
  LET largest == {i \in satisfied : \A j \in satisfied : Beats(i, j)}
  IN  IF largest = {} THEN {} ELSE {CHOOSE i \in largest : TRUE}

NewlySatisfiedLargest(k, held) ==
  Largest({i \in Live : k \in i.keys /\ i.keys \subseteq held})

\* A stop key that is waiting for its release is dropped by any other key.
KeptAtPress(deferred, k) ==
  {i \in deferred : i.role = "stopTranslate" => k \in i.keys}

DroppedBy_Nothing(deferred, winner) == {}
DroppedBy(deferred, winner) ==
  {i \in deferred : \E w \in winner : StrictSubset(i, w)}

Swallows(k, winner) ==
  CASE k \in Modifiers  -> \E w \in winner : w.role = "switchLanguage"
    [] k \in Standalone -> k \in BoundKeys
    [] k \in Typing     -> winner # {}

\* k completes a chord, the winner: it fires, or waits for its keys to come up, because a
\* larger chord may follow.
Fire(m, k, winner, waits, swallow) ==
  LET kept == KeptAtPress(m.deferred, k)
  IN  [Quietly([m EXCEPT !.held = @ \cup {k},
                         !.active = @ \cup (winner \ waits),
                         !.deferred = (kept \ DroppedBy(kept, winner)) \cup waits,
                         !.swallowed = IF swallow THEN @ \cup {k} ELSE @], swallow)
         EXCEPT !.pressed = winner \ (waits \cup m.active)]

Complete(m, k, winner) ==
  Fire(m, k, winner, {w \in winner : HasLiveSuperset(w)}, Swallows(k, winner))

Press(m, k, repeat) ==
  IF repeat \/ k \in m.held
  THEN Quietly(m, k \in m.swallowed \/ (k \in Standalone /\ k \in BoundKeys))
  ELSE Complete(m, k, NewlySatisfiedLargest(k, m.held \cup {k}))

\* What goes up with k: the deferred chords fire at last, the active ones are released.
With(set, k) == {i \in set : k \in i.keys}

Forget(m, k) ==
  [m EXCEPT !.held = @ \ {k}, !.swallowed = @ \ {k}, !.active = @ \ With(@, k)]
DropDeferred_Nothing(m, k) == m
DropDeferred(m, k) == [m EXCEPT !.deferred = @ \ With(@, k)]

Release(m, k) ==
  IF k \notin m.held
  THEN Quietly([m EXCEPT !.swallowed = @ \ {k}], k \in m.swallowed)
  ELSE [Quietly(Forget(DropDeferred(m, k), k), k \in m.swallowed)
          EXCEPT !.tapped = With(m.deferred, k), !.released = With(m.active, k)]

Handle(m, k, pressed, repeat) ==
  IF HandlesCancelKey(m, k, pressed, repeat)
  THEN HandleCancelKey(m, pressed)
  ELSE IF pressed THEN Press(m, k, repeat) ELSE Release(m, k)

Reset_Silently(m) == Quietly(NoKeys, FALSE)
Reset(m) == [Quietly(NoKeys, FALSE) EXCEPT !.released = m.active]

\* What the handler knows of binding i after a step.
Hears(known, from, to) == IF known = from THEN to ELSE "wrong"

Told(i, step) ==
  LET tap == IF i \in step.tapped THEN Hears(told[i], "up", "up") ELSE told[i]
  IN  CASE i \in step.pressed  -> Hears(tap, "up", "down")
        [] i \in step.released -> Hears(tap, "down", "up")
        [] OTHER               -> tap

Takes(step) ==
  matcher' = step.m /\ told' = [i \in Bindings |-> Told(i, step)]

(***************************************************************************)
(* Capturing a shortcut: the largest set held at one time, the latest of   *)
(* its size, ends the capture when the last key goes up.                   *)
(***************************************************************************)
Add(c, k) ==
  LET held == c.held \cup {k}
  IN  [c EXCEPT !.held = held, !.peak = IF Cardinality(held) >= Cardinality(@) THEN held ELSE @]

Full(c) == Cardinality(c.held) >= MaxChordKeys

CapturePress(c, k, repeat) ==
  CASE k = Escape -> [c EXCEPT !.done = TRUE]
    [] k # Escape /\ (repeat \/ k \in c.held \/ Full(c)) -> c
    [] OTHER -> Add(c, k)

CaptureRelease(c, k) ==
  IF k \in c.held THEN [c EXCEPT !.held = @ \ {k}, !.done = c.held = {k}] ELSE c

CaptureHandle(c, k, pressed, repeat) ==
  CASE c.done -> c
    [] ~c.done /\ pressed -> CapturePress(c, k, repeat)
    [] ~c.done /\ ~pressed -> CaptureRelease(c, k)

CaptureReset(c) == [c EXCEPT !.held = {}, !.peak = {}]

(***************************************************************************)
(* The tap.  Before an event, held modifiers are brought in line with its  *)
(* flags; while a keystroke of OraType's is on its way, presses reach the  *)
(* app unmatched and releases are still seen.                              *)
(***************************************************************************)
ModifierMismatches(held, flags) == {j \in Modifiers \ Fn : (j \in flags) # (j \in held)}

Resynced(k, held, flags) ==
  IF k \in Modifiers
  THEN {j \in ModifierMismatches(held, flags) : j \notin flags /\ j # k}
  ELSE {j \in ModifierMismatches(held, flags) : j \in flags /\ ~own}

Matched(pressed, repeat) == ~(own /\ pressed /\ ~repeat)

\* The edge k as the tap takes it up: what it brings in line first, and whether it counts.
Edge(k, pressed, repeat, held) ==
  [key |-> k, pressed |-> pressed, repeat |-> repeat, matched |-> Matched(pressed, repeat),
   missed |-> Resynced(k, held, Modifiers \cap (IF pressed THEN down \cup {k} ELSE down \ {k}))]

(***************************************************************************)
(* Actions.                                                                *)
(***************************************************************************)
ListenerInit ==
  /\ listener = "hotkeys" /\ matcher = NoKeys /\ capture = NoCapture /\ heard = TRUE
  /\ edge = {} /\ down = {} /\ app = {}
  /\ told = [i \in Bindings |-> "up"]
  /\ recording = FALSE /\ running = FALSE /\ own = FALSE
  /\ allowed \in Gatings

AppSees(k, pressed, swallow) ==
  app' = CASE swallow -> app
           [] ~swallow /\ pressed -> app \cup {k}
           [] ~swallow /\ ~pressed -> app \ {k}

\* A capture swallows the way up of a key too, one that the app saw go down before it: the
\* app goes on believing it held, and is not followed there.
CaptureSwallows(e) == e.pressed /\ e.key \notin Modifiers /\ e.matched

\* The edge is handled: the keyboard moves on, and the app may see it.
Delivered(e, swallow) ==
  /\ edge' = {}
  /\ down' = IF e.pressed THEN down \cup {e.key} ELSE down \ {e.key}
  /\ AppSees(e.key, e.pressed, swallow)

\* The matcher, or the capture, decides on the edge itself.
MatchEdge(e) ==
  \E step \in {IF e.matched THEN Handle(matcher, e.key, e.pressed, e.repeat)
                            ELSE Quietly(matcher, FALSE)} :
    Takes(step) /\ Delivered(e, step.swallow) /\ UNCHANGED capture

CaptureEdge(e) ==
  /\ capture' = IF e.matched THEN CaptureHandle(capture, e.key, e.pressed, e.repeat) ELSE capture
  /\ Delivered(e, CaptureSwallows(e))
  /\ UNCHANGED <<matcher, told>>

Decide(e) == IF listener = "hotkeys" THEN MatchEdge(e) ELSE CaptureEdge(e)

\* A key edge reaches the tap; it is decided at once when no modifier was missed.
KeyEdge(k, pressed, repeat) ==
  /\ edge = {}
  /\ IF pressed /\ ~repeat THEN k \notin down ELSE k \in down
  /\ repeat => pressed /\ k \notin Modifiers
  /\ pressed => Cardinality(down \cup {k}) <= MaxDown
  /\ \E e \in {Edge(k, pressed, repeat,
                    IF listener = "hotkeys" THEN matcher.held ELSE capture.held)} :
       IF listener = "off" \/ ~heard
       THEN Delivered(e, FALSE) /\ UNCHANGED <<matcher, capture, told>>
       ELSE IF e.missed = {} THEN Decide(e)
       ELSE edge' = {e} /\ UNCHANGED <<matcher, capture, keyboard, told>>
  /\ UNCHANGED <<listener, heard, gates>>

\* A modifier whose edge was missed is handled as one of its own, except that the app has seen it.
Resync(e, j) ==
  /\ j \in e.missed
  /\ edge' = {[e EXCEPT !.missed = @ \ {j}]}
  /\ LET pressed == e.key \notin Modifiers
     IN  IF listener = "hotkeys"
         THEN Takes(Handle(matcher, j, pressed, FALSE)) /\ UNCHANGED capture
         ELSE capture' = CaptureHandle(capture, j, pressed, FALSE) /\ UNCHANGED <<matcher, told>>
  /\ UNCHANGED <<listener, heard, keyboard, gates>>

DecideLast(e) ==
  /\ e.missed = {} /\ Decide(e)
  /\ UNCHANGED <<listener, heard, gates>>

\* The OS disables the tap for a moment; when it tells so, the tap is enabled and starts over.
TapDisabled ==
  /\ edge = {} /\ listener # "off" /\ heard
  /\ heard' = FALSE
  /\ UNCHANGED <<listener, matcher, capture, edge, keyboard, told, gates>>

TapReset ==
  /\ edge = {} /\ listener # "off" /\ ~heard
  /\ heard' = TRUE
  /\ IF listener = "hotkeys"
     THEN Takes(Reset(matcher)) /\ UNCHANGED capture
     ELSE capture' = CaptureReset(capture) /\ UNCHANGED <<matcher, told>>
  /\ UNCHANGED <<listener, edge, keyboard, gates>>

\* The listener is replaced by one that told nothing yet, whatever the old one still held: dropping
\* the monitor releases nothing.  What it was handling is over by then: the edge is the old one's
\* to the end.
Replace(new) ==
  /\ edge = {} /\ edge' = {}
  /\ listener' = new /\ matcher' = NoKeys /\ capture' = NoCapture /\ heard' = TRUE
  /\ told' = [i \in Bindings |-> "up"]
  /\ UNCHANGED <<keyboard, gates>>

Install == Replace("hotkeys") \/ Replace("off")
StartCapture == Replace("capture") \/ Replace("off")
PauseListener == listener # "off" /\ Replace("off")

\* The pipeline, onboarding and the output move the gates.
MoveGates ==
  /\ \/ recording' \in BOOLEAN /\ running' = recording' /\ UNCHANGED <<allowed, own>>
     \/ running' \in BOOLEAN /\ recording' = FALSE /\ UNCHANGED <<allowed, own>>
     \/ allowed' \in Gatings /\ UNCHANGED <<recording, running, own>>
     \/ own' = ~own /\ UNCHANGED <<recording, running, allowed>>
  /\ UNCHANGED <<listener, matcher, capture, heard, edge, keyboard, told>>

ListenerNext ==
  \/ \E k \in Keys : \E pressed \in BOOLEAN : \E repeat \in BOOLEAN : KeyEdge(k, pressed, repeat)
  \/ \E e \in edge : \E j \in e.missed : Resync(e, j)
  \/ \E e \in edge : DecideLast(e)
  \/ TapDisabled \/ TapReset \/ Install \/ StartCapture \/ PauseListener \/ MoveGates

ListenerSpec == ListenerInit /\ [][ListenerNext]_listenerVars

(***************************************************************************)
(* Properties.                                                             *)
(***************************************************************************)

\* No shortcut is held or waiting without its keys being down, whatever edges the tap missed,
\* ignored or got from a replaced listener: a chord left behind would fire at the next key, or
\* record for ever in hold mode.
NothingStuck ==
  heard /\ listener = "hotkeys" =>
    \A i \in matcher.active \cup matcher.deferred : i.keys \subseteq down

\* What a listener tells the handler pairs, each press once and its release once: a chord that
\* waited and fired late, the larger one that beat it, and a reset in the middle never press twice
\* or release nothing.  It speaks of one listener at a time: one that is replaced while a shortcut
\* is held leaves its press without a release.
PressesPair ==
  \A i \in Bindings :
    /\ told[i] # "wrong"
    /\ told[i] = "down" <=> i \in matcher.active

\* A chord that a larger one beat does not fire when the keys come up.
SmallerChordDropped ==
  \A i \in matcher.deferred, j \in matcher.active \cup matcher.deferred : ~StrictSubset(i, j)

\* The matcher never leaves the focused app with a key held that is up: what the app saw go
\* down it sees go up, whichever gates moved in between.  The exception is a key that may switch
\* the language, whose press may have reached the app before the matcher learned of it.
AppKeepsNoKey == app \ down \subseteq UNION SwitchChords

\* A shortcut is pressed only while its role is let through and all its keys are down, one shortcut
\* at a time, and released only when one of its keys comes up or the matcher starts over: a chord
\* never fires by what other keys, gates or keystrokes of OraType do.
PressesAreMeant ==
  [][\A i \in Bindings :
       /\ told[i] = "up" /\ told'[i] = "down" =>
            /\ i \in Live /\ i.keys \subseteq down'
            /\ \A j \in Bindings : told[j] = "up" /\ told'[j] = "down" => j = i
       /\ told[i] = "down" /\ told'[i] = "up" =>
            ~(i.keys \subseteq down') \/ matcher' = NoKeys]_listenerVars

(***************************************************************************)
(* What the code does not keep.                                            *)
(***************************************************************************)

\* The comment on ChordMatcher: bindings the role gate refuses "fire nothing".  A chord that waits
\* for its keys to come up fires then, whatever the gates have become.
GatedFireNothing == \A i \in matcher.deferred : i \in Live

\* The comment on the switch keys: "its release is swallowed too, so the focused app never sees
\* half of the key".
AppNeverSeesHalfAKey == app \subseteq down

=============================================================================

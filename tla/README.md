# OraType in TLA+

A verification development for the Rust side of OraType (`src/src-tauri/src/`):
TLA+ models of its concurrent parts, TLC configurations that check them on small
instances, and TLAPS proofs of the invariants that matter most. Paths below are
relative to `src/src-tauri/src/` unless they say otherwise.

## 1. Inventory

OraType is a desktop dictation app. A key press starts a recording; speech goes
to a speech-to-text provider while it is spoken; a second press stops it; the
text is polished by an AI and pasted into the app in front.

| Component | State | Operations | Hard behaviour | What makes it correct |
|---|---|---|---|---|
| **Dictation pipeline** (`pipeline.rs`, `recording_deadline.rs`) | `PipelineState` in an atomic, `abort_flag`, two session-id atomics, `pipeline_lock`, and separately locked fields: capture handle, speech task control, preloads, text, error, Translate operation | `start`, `stop`, `abort`; per recording a speech task and a deadline task; `run_ask_draft`, `run_hands_free_dictation` | `abort()` runs on any thread without the lock; every other call is cut by awaits; late answers, timeouts, lost notifications | one stop per recording, one recording's data per stop, no microphone left on, no words in the wrong run, always back to Idle |
| **Microphone** (`audio/`) | a thread per capture | start, stop, drop | the channel closes after the stop | as above |
| **Built-in servers** (`llm/builtin.rs`) | `running`, `generation`, a gate, a pid file, the `llama-server` process | `ensure_with`, `stop`, `set_paths` | `stop()` takes no gate; the process dies, hangs or outlives the app | at most one server, always in reach of `stop()` or of the next launch |
| **Ask** (`commands/ask.rs`, `ask_panel.rs`) | `AskDictationState`: its own recording, session, processing flag | start, stop, cancel, draft | a second recording machine beside the pipeline; futures dropped by Escape | excludes dictation; a cancelled Ask leaves nothing behind |
| **Shortcuts** (`hotkey.rs`, `native_hotkey.rs`, `shortcut_gate.rs`) | chord matcher, capture of a new shortcut, the active mode | key events to roles, roles to calls | hold and toggle modes, OraType's own key strokes, lost key-ups | each press acts once |
| **Hands-free** (`hands_free/`) | listener phase, ring buffer, gate | apply, listen, match, route | configuration changes while the listener runs | never listens beside a recording |
| **Output** (`output/`, `selection.rs`) | the clipboard, the restore that waits | paste, copy, snapshot, restore | a restore 750 ms later races the next paste | the user's clipboard comes back |
| **Copy pill, overlay, panels** | an offer with a lifetime | show, copy, close | offer of an old run | the newest result is the one offered |
| **Speech and AI providers** (`stt/`, `llm/`) | a connection | connect, send, receive, disconnect | anything may fail or hang | – (environment of the pipeline) |
| **Model setup and downloads** (`commands/model_setup.rs`, `stt/models.rs`) | one setup status, a cancel flag, partial files | start, cancel, progress, delete | cancel and delete during a download | one setup at a time |
| **Search server** (`search_server.rs`, `web_search*`) | a child process, `running`, `start_lock`, a folder per version, `installed.json`, a pid file | ensure, install, update, remove, stop | failures, crashes and the exit in the middle of a set-up; a version read before the lock | what is installed starts; no server is lost |
| **Storage** (`storage/`, `commands/config.rs`, `credentials.rs`) | the config file | load, save, patch, migrate | two commands load, change and save at once | no lost update |
| **Voice intents, prompts, app detection, statistics, updates** | little or none | functions of their input | – | unit tests reach them |
| **Frontend** (`src/src`), site, evaluations, scripts | views | – | – | – |

How they interact: shortcuts, tray, pill and commands call the pipeline and Ask;
both read the config, open the microphone and a speech provider, and use the AI
provider, which for the Built-in preset goes through the server manager; Ask and
hands-free hand a *draft* to the pipeline for polish and output, without its lock.
States travel to the frontend as events. The `components` and `hazards` of
`PROJECT.json` list the parts and what is hard to test in them, line by line.

## 2. Modules

| Module | What it is |
|---|---|
| `Pipeline`, `MCPipeline` | the dictation pipeline, every call a process; constraints for TLC |
| `VoiceRun` | the promise to the user, without the mechanism; `Pipeline` implements it |
| `PipelineProofs` | TLAPS proofs about `Pipeline` |
| `AskDictation`, `AskDictationProofs` | Ask's own recording machine with the presses that start, stop and cancel it, beside a dictation; TLAPS proofs |
| `AskRun` | what the rest of the app may assume of Ask; `AskDictation` implements it, `HandsFree` is built on it |
| `HandsFree`, `HandsFreeProofs` | the hands-free listener and the calls that change it; TLAPS proofs |
| `NativeHotkey`, `MCNativeHotkey` | the key listener: plan, chord matcher, capture, event tap; a keyboard and bindings for TLC |
| `ShortcutRegistration` | which shortcuts the system has: settings, recording a shortcut, the supervisor's retry, onboarding's gate |
| `ShortcutsProofs` | TLAPS proofs about both |
| `ServerManager`, `MCServerManager` | one `ServerManager` of `llm/builtin.rs` with its process, pid file and app; models for TLC |
| `SearchServer` | the SearXNG of `search_server.rs`: set-up, update, removal, its process, folders and files |
| `MCServers`, `ServersProofs` | a `ServerManager` and the `SearchServer` of one app, for TLC; TLAPS proofs about both |
| `ModelSetup`, `ModelSetupProofs` | setting up and deleting a built-in model; TLAPS proofs |
| `TextInsertion`, `MCTextInsertion`, `TextInsertionProofs` | from the words to the app: the streamed answer and its recovery, the output and its fallbacks, the Copy pill; a constraint for TLC; TLAPS proofs |
| `Clipboard`, `ClipboardProofs` | the borrowed clipboard: pastes, their restores, captures of a highlight, the user's copies; TLAPS proofs |

### Pipeline and the code

The constants name the calls made in a behaviour: `Starts`, `Stops`, `Aborts`,
`Drafts`; `TranslateStarts` are the starts by the Translate shortcut. A run is
named by its `start()`. The deadline task of run `s` ends in a `stop()` of its own
and is the process `s` in `pc`.

| Model | Code |
|---|---|
| `state`, `active_translation_operation`, `abort_flag`, `active_stt_session_id`, `active_deadline_session_id`, `pipeline_lock`, `audio_handle`, `stt_session`, `accumulated_text`, `stt_error` | the fields of `PipelineHandle` of that name; a value is the run it belongs to |
| `preloaded` | all `preloaded_*` fields, filled and taken together |
| `capture[s]` | the `AudioCaptureHandle` of run `s`: `open` until stopped or dropped |
| `sttPc`, `abortNotify`, `doneNotify` | the speech task and the two `Notify` of its `SttTaskControl`: `notify_one()` stores a permit, `notify_waiters()` wakes only who waits |
| `StartClaim` … `StartSpawn` | `start_with_options()`, 1346–1950 |
| `Stt…` | the task spawned at 1750 |
| `Deadline…` | the task spawned at 1907, `drive_recording_deadline` |
| `StopClaim`, `StopTake`, then `StopNotified` … `StopClear` | `stop()` under the lock, then `wait_for_stt()` and the early returns |
| `PolishStart` … `RunFinish` | `polish_text()`, `output_text()` and the end of `stop()`, of `run_ask_draft()` and of `run_hands_free_dictation()` |
| `AbortFlag` … `AbortIdle` | `abort()`, one field after the other |
| `ShowIdle` | the `set_state(Idle)` at the end of a `stop()`, a draft or a cancelled run: whatever the app shows by then |

A step is what a call does to shared state between two awaits. `abort()` waits for nobody,
so it is cut field by field, and the others are cut further where it can come in between
and the outcome differs: in `start()` around the two looks at `abort_flag`, the store of the
handle, the new session id (`StartSession`), the deadline (`StartArm`), the Translate
operation (`StartOperation`), the state (`StartShow`) and the speech task's control; in
`stop()` between the state (`StopClaim`), the deadline (`StopDisarm`) and the read of the
Translate target (`StopFreeze`); and after the AI's answer. What stays in one step: a look
at the flag and session followed at once by the store it guards (the speech task's push of a
word, the `set_state(Idle)` of a failed `stop()`); the preloads that `start()` fills, and
what `stop()` takes after the selection. Data is abstract: a transcript is the set of
runs whose speech is in it, so a property can ask whose words are pasted.

The variables from `cancelled` on are history: they record what happened for the
properties and no action reads them.

Left out of `Pipeline`: the volume task (reads only), the panels, timing records,
pre-warming, and what `polish_text()` sends. What happens inside `PolishStart` …
`OutputDone` and what becomes of the text is `TextInsertion`.

### ServerManager and the code

`Calls` are calls of `ensure_with()`, each with the model files it asks for;
`Stops` calls of `stop()`, among them `Quits` by the exit handler; `Droppable` the
calls whose future a cancelled Ask or dictation may drop. The actions follow
`ensure_with()` line by line (`Enter`, `Reuse`/`Replace`, its own `stop()`,
`LoadGeneration`, `Spawn`, `WritePid`, the wait for `/health`, the look at the
generation, `Store`), and `stop()` is cut between the bump of the generation, the
take of `running`, the kill of what it took (`taken`) and the removal of the pid file.
`ServerDies`, `Crash` and `Quit` are the environment. The next launch is `SetPaths`, which
reads the pid file and removes it, and then `StopStale`, or `LookFails` if `ps` or `kill`
cannot be run; the app may die before either. `met` and `lost` are history.

### SearchServer and the code

`Searches` are calls of `ensure_running()` (Ask's web search, the one at launch), of which
`Escaped` may be dropped; `Installs`, `Updates`, `Removes` the commands of Settings; `Exits` the
exit handler's `stop()`. `Commits` are SearXNG's versions; GitHub's answer never goes back.

| Model | Code |
|---|---|
| `search`, `start_lock` | the fields `running` and `start_lock`; `stop()` keeps `running` locked until it has removed the pid file (`Unlocked`) |
| `search_pid`, `installed_json`, `folder` | the files under `search/`; a folder holds sources, then a Python, then the libraries |
| `call[p]` | where a call is, with `old`, the commit it installs, `was_running`, and what follows its `stop()` |
| `Serves` … `StartInstalled`, `Answers`, `TimesOut` | `ensure_running()` and `wait_until_ready()` |
| `Latest` … `Clean`, `Discard` | `install()` and `update()`; a step is what leaves another content on disk |
| `DeleteSome`, `DeleteRest` | `remove_dir_all()`, which may stop at any file |
| `Take`, `Unfile`; `Spawn`, `WritePid`, `Store` | `stop()` and `start()`; `stop()` keeps `running` locked over the take and the kill, so nobody sees them apart but the app's end, and the pid file names the server until `Unfile` |
| `SetRoot`, then `StopStale` or `LookFails` | `set_root()`: the pid file is read and removed, then the process looked at and stopped |

`begin()` is not a guard: `busy` is looked at behind `start_lock` only, where it is never set.
`orphans` and `torn` are history. In `MCServers` both servers live in one app, which
launches, crashes and quits for both; a behaviour calls one of them.

### Clipboard and the code

What is on the clipboard is named by the call that put it there. `Pastes` are the
calls of `type_text()` (`output/clipboard.rs`) that restore, `Captures` those of
`capture_with_copy()` (`selection.rs`), `Copies` everything written to stay: the
user's copies, the Copy buttons, pastes without a restore. It is the macOS path;
elsewhere there is no change count.

| Model | Code |
|---|---|
| `contents`, `change_count` | the pasteboard, which is assumed to take every write |
| `pending`, `next_id` | `PENDING_CLIPBOARD_RESTORE`, `NEXT_CLIPBOARD_RESTORE_ID` |
| `local[x]` | a call's snapshot, the count it remembers, the id of its restore |
| `TakeSnapshot` … `Remember` | `type_text()` up to the thread it spawns |
| `RestoreOutdated` … `ClearPending` | `restore_clipboard_if_safe()` in that thread |
| `CaptureStart` … `PutBack` | `capture_with_copy()` and `put_back_a_late_copy()` |
| `AppAnswers` | the app in front answers the Command-C: in time, late or never |

Every read and write of the pasteboard between which another thread may write is a
step. One step are: a capture's change count and its snapshot (a write between them
is taken for the app's answer either way); a paste's id and the lock on `pending`
that follows; a restore's look at `pending` and at the change count. `wanted` (what
was last put there to stay), `buried`, `unsure` and `apart` are history.

### TextInsertion and the code

`Runs` are recordings whose words are known; those in `PillRuns` are Dictate and Translate,
which go through `start_with_options()` (`Begin`): it closes the pill, claims the state, and
may end in the pill. The others are drafts of Ask and of hands-free mode (`BeginDraft`),
which do neither. An answer is `Pieces` pieces, and `run[r].keys` the pieces
typed or pasted, in order. It is the macOS path.

| Model | Code |
|---|---|
| `run[r]` | the locals of `polish_text()` and its callees: the guard of the target app, the `StreamingInsertReport` (`inserted`, `failed`, `target_lost`), the channel to the worker (`sent`), whether the field told its length (`readable`) |
| `front`, `spot` | the system: the app in front and the focused element (`field`, `list`, or a `canvas` that does not tell) |
| `seen`, `Refresh` | the context detector's cache, and `run_detector()` |
| `late`, `LateKeys` | keys handed to the main thread whose caller has timed out (`output/keyboard.rs`, 144) |
| `copy_offer`, `copying`, `DismissOffer`, `PressCopy`, `OfferCopied` | `CopyOfferSlot` and `copy_offer_to_clipboard()` |
| `Worker…` | `run_streaming_insert_worker()`, cut at the insert it awaits |
| `Recover…`, `CopyForRecovery`, `Skip`, `OutputAnswer` | `streaming_recovery_action()` and the code behind it, up to the one look at `abort_flag` |
| `Execute`, `AfterError`, `Fallback` | `execute_insert()` (`voice_intent/executor.rs`) |
| `Landed` | `typed_text_landed()`: any change of the field's length is taken for the whole text (`arrived`) |
| `HoldText` … `WriteText` | `output_text()`, `copy_pill_hold()`, `output_with_strategy()` |

A step ends where the code awaits, and where it asks the system about the focus or the
app in front: the user may move in between. Keys are one step from the check of the element
to the last key of a piece; a failed one may have typed any beginning. `erred`, `missed`,
`moved`, `unclear`, `told`, `silent` and `latest` … `crossed` are history.

### AskDictation and the code

Each press is a process and becomes the call it causes: `AskKeys`, `DictKeys` and
`Escapes` come through `hotkey.rs`, `Toggles` ("oratype toggle"), `Flows`
(`start_ask_flow()`) and `Wakes` (the wake phrase) do not look at Ask first.

| Model | Code |
|---|---|
| `starting` … `processing_cancel` | the fields of `AskDictationStateInner` (`commands/ask.rs`); `session` and `processing_cancel` name the run and the `stop()` they belong to |
| `LookRecording` … `RequestStop` | the Ask and Dictate roles of `hotkey.rs` |
| `BeginStart` … `Return` | `try_begin_starting()`, `start_reserved_ask_dictation()`, `take_stop_after_start()` |
| `SpeechFails`, `Deadline` | the two tasks of a run |
| `StopLook` … `DropTail` | `stop_ask_dictation()`, its `select!` with the run's `Notify`, and the tail after a dropped run |
| `DictDecide` … `DictEnd` | the pipeline as far as the shortcuts see it: its state and its microphone |
| `EscapeLook` … `CancelProcessing` | `cancel_active_run()` |

A step holds the lock of `AskDictationState` at most once. `permit` is the stored permit
of a `Notify`. A dropped future is dropped where it awaits; what its guards would have
undone stays undone until the tail. `reserved` and `cancelled` are history.

### HandsFree and the code

`Tasks` are the calls that apply the setting (the settings window, the tray, startup and
the end of the wake model's download, the exit); they follow `hands_free/runtime.rs`:
`ApplyKeeps`/`ApplyChanges` is the look under the lock, `StopTake` and `StopJoin` are
`stop()`, `Open` and `Store` are `start()`. `Save` and `SaveFails` are `ConfigManager::save()`,
whose cache has the settings before they are written; a call that cannot write them returns
without applying them (`unapplied`, history), and one that cannot read them does nothing and
is not modelled. `Listeners` are the threads: `Load`, then the
phases of the listener's loop (`listening`, `checking` a candidate, watching the
`request`, `paused`). What is heard is a free choice. Ask is `AskRun`; a dictation is busy or not.

### NativeHotkey and the code

`Bindings` is the registration plan of `hotkey.rs` with the stop chords of a Translate
recording. The matcher (`Press`, `Release`, `Handle`, `Reset`) and the capture are functions
of `native_hotkey.rs` from a state and a key edge to a step: the state after it, the bindings
it presses, taps and releases (sets, since the order within one edge is fixed), and "swallow".
The tap's callback takes one edge: `KeyEdge` is its beginning, with the modifiers whose edges
were missed according to the event's flags; `Resync` feeds one of those, `DecideLast` the edge
itself. The gates may move between two of these, as in the code, where each is looked at when
it is needed; `Edge` looks at OraType's own keystrokes once, at the beginning. `TapDisabled`
and `TapReset` are the system's time-out, `Replace` a new listener. `down` is the keyboard up
to the last edge handled, `app` what the focused app believes held, `told` what the handler
last heard of each binding from this listener: one that is replaced drops its monitor
(1073–1077) and releases nothing, so `Replace` starts `told` anew and `PressesPair` speaks of one
listener at a time. It is the macOS tap.

### ShortcutRegistration and the code

`Saves` are calls of `update_config`, `update_hotkey` or `update_ask_hotkey`, `Captures` a
recording of a shortcut (`pause_hotkey`, `resume_hotkey`), `Gates` calls of
`set_shortcut_gate`, `Retry` the supervisor's loop (`lib.rs`). A set of shortcuts is
one value. Those in `Taken` belong to another app and cannot be put in, except those in
`LeftOut` while the gate is closed: they are of roles the gate leaves out (`misc.rs`, 182–186),
so a registration works that puts none of them in (`Free`). `live` is what the system has. A
registration is two steps: everything out (`Clear`), then in what the gate allows (`Enter`);
either may fail. `unregister_all()` fails `MaxFaults` times, which ends a registration or a pause
with an error, and is only logged by the gate's refresh (`SyncClearFails`, `SyncEnter`), which
leaves the supervisor at installed; `missed` is history of that.
`lock` is the supervisor's mutex as far as it is held across both.

### ModelSetup and the code

`Setups` are calls of `start_speech_setup()`, `Deletes` of `delete_speech_model()`; the AI's
are the same with one file. From `Begin` to `Finish` a set-up follows `model_setup.rs`
and `download_to_part()` of `stt/models.rs`; `Look` to `Clear` are a delete with
`reconcile_builtin_models()`. A file is the number of its pieces and whether all are
right; a handle outlives the name of its file (`transfer[s].on`). A file that was
replaced by another version is `Longer`. `Restart` is the end of the app and its next start.

## 3. Runs

| Run | Instance | Shows |
|---|---|---|
| `pipeline_cancel` | 2 starts (the first a Translate one), each stopped by its deadline, beside 1 abort or 1 draft; 1.7 M states | `StopTakesOneRun`, `MicOwned`, `SpeechStaysInItsRun`, `RecordingIsBounded`, `OnlyCancelledRunsInterfere` hold in every order of their steps |
| `pipeline_promise` | 2 starts, their deadlines, 1 stop, fair; 67 k states | without `abort()` the pipeline implements `VoiceRun` with its liveness (`KeepsPromise`), so each recording ends, its microphone is released and the app gets back to Idle |
| `text_insertion` | a run and beside it a second one or a draft, 3 settings, answers of 2 pieces, 1 move, 1 cancel; 1.2 M states | `NothingLost`, `KeysInOrder`, `OfferIsCurrent` |
| `ask` | one press each of Ask, Dictate and Escape, a wake phrase, a toggle; 2.4 M states | `OnePhase`, `AskMicOwned`, `RevivedOnlyByNext`, `NoCancelLost`, `StopRequestHeld` |
| `ask_live` | an Ask of the shortcut and one of the tray, a toggle, an Escape, fair | Ask implements `AskRun` with its liveness; `PipelineFreed` |
| `hands_free` | 2 changes, 2 listeners, 2 wake names, 1 run of the user's, writes that may fail, fair; 101 k states | `MicOwned`, `SettledAsSaved`, `ListenersEnd`, `ListensAgain` |
| `native_hotkey` | 5 keys, up to 4 held; Dictate End, Ask RightShift+A, Translate End+RightShift, Switch language either Shift; 2.4 M states | `NothingStuck`, `PressesPair`, `SmallerChordDropped`, `AppKeepsNoKey` |
| `shortcuts` | 1 change, 1 recording of a shortcut, 1 move of the gate, the retry; 3 sets of shortcuts, two taken, one of these hidden by a closed gate; the permission lost once, 1 removal that fails, fair; 588 k states | `RegisteredAsSaved`, `PauseHolds`, `Recovers` |
| `server_manager` | 3 requests for 2 models, 1 droppable, 1 stop that may be a quit, 1 crash, fair; or 3 of 2 searches, a set-up, an update, a removal and a crash of the search server, with 2 versions, and a quit; 253 k states | `OneServer`, `EveryServerIsOwned`, `ServerIsRecoverable`, `StopReachesStarts`, `EveryStartEnds`; `InstalledRuns`, `SearchServerFound` |
| `model_setup` | 2 set-ups, 1 delete, a model of one file and one of two, files of 2 pieces, 1 crash, fair; 463 k states | `InstalledIsVerified`, `PresetHasItsModel`, `CancelEnds` |
| `clipboard` | 2 pastes, 1 capture, 1 copy, fair; 721 k states | `RestoresOnlyItsText`, `ClipboardComesBack`, `BatchEnds` |

Why the bounds are enough:

- Two starts are what interference between runs needs: one that ends late and the
  next one. One abort is enough to cut a start, a wait or the AI's work. That the properties
  hold for any number of starts, stops, aborts and drafts is proved. In `pipeline_promise` a
  key's stop and the deadline of each run compete for one recording.
- `MCPipeline` puts the draft or the abort beside the two starts, not both: all of them
  together do not fit a run. A draft is a second task that ends in `set_state(Idle)`, which
  the abort's cancelled run is too; the proofs of section 4 need no such bound.
  It also has the Translate run claim the pipeline before the other one. A target that ends up
  in the wrong `stop()`, or is lost, shows in this order: the Dictate run must take none, and
  the Translate run must not lose its own to the Dictate run.
  `PipelineDraft.cfg` checks `AlwaysBackToIdle` for a start, a stop and a draft under
  fairness (10 k states), and it holds.
- Text: two pieces are a beginning and a rest; one move falls between any two steps. Beside
  the first run there is a second Dictate or a draft, not both (`SecondIsShort`): it begins before
  any move, its text is not polished by the AI, and it is there to reset the flag and to close the
  pill, or, a draft, not to. The proofs need no such bound.
- Ask: the two starts of `ask` are a run that is cancelled and the one after it; the
  presses of Dictate and the toggle are the calls that end an Ask and that do not look at it.
- Hands-free: two changes are what overlaps; a second listener is what replaces the first.
- Shortcuts: a change, a recording, the gate and the retry are the four who register; one
  loss of the permission makes the retry come in, before, in or after any of them. One set of
  shortcuts can be put in, one never, and one while the gate is closed; one failed removal
  meets any of the four.
- Keys: the bindings contain each other in every way the plan allows (a chord in a larger
  one, a native and a plugin one, the stop chords of Translate), on both sides of Shift.
- For the server manager three calls give a server to replace, its replacement, and a
  call that waits for the gate; one crash may come anywhere.
- For the search server three calls give a set-up, a server that runs and an update or a
  removal; a crash takes the place of one. With one search, all three others and a crash
  (`SearchServer.cfg`) the properties hold as well.
- Model set-up: two pieces are the least that can be cut in the middle, two set-ups the
  resume of a part by another; the model of two files has a moment when one is in place.
- Two pastes make a batch, whose second paste takes over from the first; the capture and
  the copy are the others who write. Three pastes (233 k states), and one paste, one
  capture and two copies (24 k), hold as well.

### What the code does not keep

While modelling, these came out as claims of the code or its documentation that the code
does not keep. The first is a run of the project; for each of the others a counterexample
is found with the configuration named, or by adding the property to the module's configuration.

| Property | Configuration | What happens |
|---|---|---|
| `CancelledRunsPasteNothing` | `pipeline_cancel_pastes` | cancel while the AI works, start again: the new `start()` clears `abort_flag` before the cancelled run looks at it, and the cancelled text is pasted |
| `EndOfRunHidesNoMic` | `PipelineCancelMic` | the cancelled run's late end sets Idle over the recording of the next run |
| `ShownRecordingIsBounded` | `PipelineCancel` | `abort()` between the deadline's store (1686) and `set_state(Recording)` (1701): Recording is shown, with the microphone off and no deadline |
| `AlwaysBackToIdle` | `PipelineCancelStuck` | `abort()` in the gap before the new session id: the recording goes on, its `stop()` believes it was cancelled and leaves Transcribing for ever (another `abort()` would clear it) |
| `MicIsReleased` | `PipelineDraftMic` | a recording starts beside a draft; the draft's end sets Idle, and no `stop()` gets the recording any more |
| `TailSparesDictation` | `AskTail` | the end of a dropped Ask aborts a dictation that began meanwhile |
| `StopRequestHeld` | `AskFlowStop` | `start_ask_flow()` does not take the stop asked of it: the press is lost, and the request outlives the start |
| `QuitStopsServer` | `ServerManagerQuit` | a quit while the model loads leaves `llama-server` running |
| `LeftServerIsStopped` | `ServerManagerQuit`, with one crash | "A server left running by a OraType that crashed is stopped here": a launch that dies, or cannot run `ps`, after it removed the pid file (`builtin.rs`, 452) leaves a server that nothing names |
| `LeftSearchIsStopped` | `SearchServer` | "Stops a SearXNG a crashed OraType left behind": the same (`search_server.rs`, 224) |
| `KeptTheInstalled` | `SearchServer`, with two set-ups | `update()` reads `old` before it waits for the lock: after another call finished, a failed update says "kept the installed version" and has deleted it |
| `NotSetUpTwice` | `SearchServer`, with two set-ups | `busy` is looked at behind `start_lock`, so a second set-up waits and sets up again, and its error is never shown |
| `SearchesStartWhole` | `SearchServer` | a set-up over the installed version is cut off between its Python and its libraries, or a removal fails half way: `read_installed()` looks for the Python only, and searches start what cannot run |
| `SearchEndsWithApp` | `SearchServer` | the exit's `stop()` finds nothing of a start under way, whose SearXNG outlives the app |
| `ClipboardAlwaysBack` | `Clipboard` | paste, a copy of the user's, paste, within 750 ms: the second paste joins the first one's restore and keeps its older original (`clipboard.rs`, 127), which then replaces the copy, although the comment (75–77) promises that a copy since is left alone. A capture within 750 ms of a paste loses the user's clipboard as well |
| `BringsBackNoPaste` | `ClipboardQuick` | the second paste takes its snapshot while the first one's text is there, and joins the batch after that batch is over |
| `PastesItsText` | `ClipboardLateCopy` | the watch for a late copy takes the paste's own write for one, and puts the old clipboard back before the Command-V |
| `OffMeansClosed` | `HandsFree` | two changes overlap between the stop and the start of a listener: it listens though the setting is off; a write that fails does it alone |
| `AloneMeansAsSaved` | `HandsFree` | the settings cannot be written: `save()` has cached them (`storage/mod.rs`, 2552) and the call returns without applying them |
| `CancelEndsTyping` | `MCTextInsertion` | the worker stops at a cancel, and the recovery takes its report for one to complete: the rest of a cancelled answer is typed in one piece |
| `NewRunClosesOffer` | `MCTextInsertion` | `dismiss_copy_offer()` is for "Escape, the countdown, or a new run"; a draft of Ask and a hands-free dictation do not call it, and an older text stays offered beside theirs |
| `PartIsTold` | `MCTextInsertion` | a part of a streamed text lands: the field's length has changed, `typed_text_landed()` (`focus.rs`, 132) says so, and the rest is lost without a word |
| `ClipboardLeftAlone` | `MCTextInsertion` | the executor, the recovery of a stream and a paste whose Command-V fails still put a text on the clipboard without being asked |
| `NobodyLeftInSilence` | `MCTextInsertion` | another app comes to the front before the executor's check, its copy fails, and the result says "copied" |
| `CopyCopies` | `MCTextInsertion` | Copy takes the text out of the pill first; if the clipboard cannot be written it is gone |
| `AppNeverSeesHalfAKey` | `NativeHotkey` | a Shift that reached the app before the matcher knew of it has its release swallowed |
| `GatedFireNothing` | `NativeHotkey` | a chord that waits for its keys to come up fires then, though the role gate has closed; the comment on `ChordMatcher` says that it fires nothing |
| `GateIsApplied` | `ShortcutRegistration` | the gate moves while a registration is on its way that looked at it before; nobody registers again |
| `GateRegistersAll` | `ShortcutRegistration` | the gate opens for a shortcut that another app has, or a removal fails: the refresh only warns (`misc.rs`, 308–323) and the supervisor goes on believing the shortcuts installed, so nobody tries again |
| `ErrorIsCurrent` | `ShortcutRegistration` | a retry that lost to a change shows its error after the change took it away |
| `OneSetup` | `ModelSetup`, with three set-ups | a delete that found the model ready resets the status of a set-up begun since, and a second one may begin |
| `SetupsEnd` | `ModelSetup` | the request for a file has no timeout |
| `FailedSetupKeepsEngine` | `ModelSetup` | a failed test saves the configuration loaded before it, and the engine picked meanwhile is lost |

Besides, a configuration that cannot be written stays in `ConfigManager`'s cache
(`storage/mod.rs`, 2552) while the shortcuts go back: `RegisteredAsSaved` leaves it out by
`saveFailed`.

The properties the runs check name their exceptions (`overtaken`, `timedOut`, `slipped`, `lost`, `apart`,
`buried`, `unsure`, `overlapped`, `unapplied`, `saveFailed`, `missed`, `erred`, `Excused`, `crossed`, `torn`, `orphans`); each is a gap that the comment beside it describes. The ones that reach furthest:

- `StopTakesOneRun`: an `abort()` that met the run may have taken its capture, or its
  Translate target by the Idle it sets, before `stop()` got there. It never gets another run's.
- `RecordingIsBounded` speaks of a microphone that is on, not of the shown state alone.
- `ServerIsRecoverable`, `SearchServerFound`: a server is no longer counted (`lost`, `orphans`)
  when a launch that had removed its pid file died or could not look at it.
- `ClipboardComesBack` speaks of the behaviours in which no call came in the middle of another
  (`apart`), and not of a copy that another paste or a capture followed within the 750 ms of
  a restore (`buried`). Copies and late answers alone may come before restores, and so may
  any number of pastes with no copy between them.
- `SettledAsSaved`: not after a change that could not be written, until the next one (`unapplied`).
- `RegisteredAsSaved`: not after a refresh for the gate that could not put in or take out a
  shortcut, until the next registration (`missed`).
- `NothingLost`: not a text of which a part landed where the field tells its length (`InPart`).

`RestoresOnlyItsText` needs no such condition, except for a
paste whose change count was read after somebody else's write (`unsure`).

### Fairness

- `Pipeline`: `start()`, `stop()` and `abort()` go on once called: the startup wait ends after
  30 s, the wait for speech after `STT_FINALIZE_TIMEOUT_SECS`, the AI request after its
  client timeout, so weak fairness holds for their steps. `pipeline_lock` is a tokio
  mutex, first come first served, hence strong fairness for a deadline's `stop()`.
  The speech task gets none: a provider may hang for ever. Nor do the user's calls.
- `AskDictation`: spawned tasks run; startup, the wait for speech and the answer end in a
  timeout; the recording limit passes. Nobody has to press, and no speech task has to fail.
- `HandsFree`: a listener goes on (audio comes every 20 ms, a request has a maximum length);
  after its microphone closed only the audio in the channel is left, so it comes to its
  end: strong fairness of `End`. A task that began goes on once the thread it joins is over;
  Ask and a dictation end their runs.
- `ShortcutRegistration`: calls, the gate and the loop go on; nobody ends a recording of a
  shortcut for the user, grants the permission or frees a shortcut: `Recovers` takes for granted
  that at some time the permission stays and no other app has what is to be put in.
- `ServerManager`: a call that holds the gate goes on (`STARTUP_TIMEOUT` ends the wait
  for `/health`), and the gate, a tokio mutex too, is strongly fair; the server it
  starts may hang, answer or die.
- `ModelSetup`: a set-up goes on (a stalled transfer breaks after `STALL_TIMEOUT`), except for the
  answer to its request, which has no timeout.
- `Clipboard`: the waits are sleeps and polls with an end, so a call that began goes on;
  the user and the app asked need not do anything.

`NativeHotkey`, `TextInsertion` and the two cancel runs state no liveness.

## 4. Proofs

All theorems hold for every number of calls, under the named assumptions of the modules
(`CallsAssumption`, `PressesAssumption`, `ManagerAssumption`, `SearchAssumption`,
`ClipboardAssumption`, `HandsFreeAssumption`, `RegistrationAssumption`, `SetupAssumption`,
`InsertionAssumption`: mostly that the sets of calls are disjoint, and that `None` is no call and no record). Two theorems have a
hypothesis more, named below. In each module a few invariants are proved inductive together,
one step per action; the theorems follow from them.

### Pipeline (`PipelineProofs`)

| Theorem | Rests on |
|---|---|
| `TypeCorrect` | `TypeInv`: types, and who waits for speech has a run |
| `StopTakesOneRunAlways` | `HandoverInv`, `OwnInv`, `MetInv` |
| `OneStopPerRunAlways` | `HandoverInv` |
| `MicOwnedAlways` | `MicInv`: an open capture is stored or local to a start |
| `RecordingAlwaysBounded` | `OpenInv`, `BoundInv` |
| `OnlyMetRunsInterfere` (the action property `OnlyCancelledRunsInterfere`) | `OwnInv` |
| `SpeechAlwaysInItsRun` | `StageInv`, `SilentInv`, `SpeaksInv`, `WordsInv`, `TextInv` |
| `PipelineImplementsVoiceRun` | `RunInv` |

The lock alone does not give the hand-over, since `abort()` changes the handle without it.
`HandoverInv` says what the shared fields hold at each place of a start (`StartInv`), while
the app shows Recording with the lock free (`RecordingInv`) and while a stop reads the
selection (`SelectionInv`): the speech task and preloads are one run's, and the capture and
the Translate target are that run's or already taken; who may have taken them is `MetInv`: an
`abort()` that met the run, or is about to.

`BoundInv`: a microphone that is on belongs to a start that has yet to arm the deadline or has
armed it, to an `abort()` that has disarmed it and is about to close it, or to a recording
whose deadline task will stop it whenever Recording is shown with the lock free.

`OwnInv`: the state the app shows is that of a run under way, unless somebody met that run
(`overtaken`). The proof found what the runs were too small to show: a cancelled run's or a
draft's late `set_state(Idle)` hides another recording, which goes on unseen; then a third
run starts beside it and both speak into one transcript. The history now records that
meeting (`ShowIdle`), `SpeechStaysInItsRun` names the hidden runs beside those that timed out,
and `pipeline_cancel` has a draft beside two starts.

Speech is silenced by its session id: a run's task that has ended, or has an older id than the
active one, adds nothing (`SilentInv`), and `stop()` reads the transcript after that only.
Before, only the shown run speaks (`SpeaksInv`), so the transcript holds its words (`WordsInv`),
and so does the text of its task (`TextInv`). Exempt are runs whose task did not end in time
and the hidden ones.

`PipelineImplementsVoiceRun` is the refinement `pipeline_promise` checks, without its fairness:
`ASSUME Aborts = {}, Drafts = {} PROVE Spec => Promise!Spec`. Section 3 shows why it needs both:
with a cancel the pipeline pastes a cancelled text, with a draft it records unseen. `OpenInv`
ties an open microphone to the run that is recorded, `QuietInv` says that nobody is met,
`DeliveredInv` that a result is delivered once; `RunAlone` then makes each step one of
`VoiceRun`'s or a stutter.

### Ask (`AskDictationProofs`)

`AskInOnePhase`, `AskMicAlwaysOwned`, `CancelledStaysCancelled` (the action property
`RevivedOnlyByNext`) and `CancelNeverLost` come from `AskInv`. The four properties need one
another but say nothing of where each process is; added are that who is the session has
passed its start (`StartedInv`), that only a start that reserved Ask can be cancelled
(`ReservedInv`), that a `stop()` keeps its session to the end with the microphone off (`TakenInv`),
and that the stored `Notify` is that of the stop at work (`NotifyInv`).

`StopRequestAlwaysHeld` assumes `Flows = {}`: `start_ask_flow()` really loses the request
(section 3, `AskFlowStop`). All other entries keep it.

`AskImplementsRun`: `Spec => Abstract!Spec`, the safety part of the refinement `ask_live` checks.
`HandsFree` sees Ask as `AskRun`, so what it takes for granted of it is proved.

### Hands-free (`HandsFreeProofs`)

`MicAlwaysOwned` needs only types: the one step that opens a microphone keeps it in the task
that is about to store it, and whoever replaces or takes the stored listener closes its
microphone. `AlwaysSettledAsSaved` rests on `SettledInv`: unless the task begun last found
another one (`overlapped`), a task under way is the only one (`Alone`), holds what is saved or is
the exit (`OnCourse`), and decided as the installed model allows (`Decided`). What is saved is
what was written: a save that failed leaves the listener where it was.

### Shortcuts (`ShortcutsProofs`)

`PauseAlwaysHolds` and `AlwaysRegisteredAsSaved` come from `RegInv`. The generation orders the
attempts: whoever drew the last one is alone with it, since the retry and the gate look at it
under the lock (`LockInv`, `OwnInv`). So long as no two calls overlapped and no save failed,
what each of them is to register is what is saved or about to be (`SaveJob`, `CaptureJob`,
`RetryJob`), and what is installed is what the roles were read from, unless a refresh for the
gate has `missed` one since (`Installed`), all in `SavedInv`. `OwnInv` does not need it, `SavedInv` needs `OwnInv`.

Of the key listener, `NothingGetsStuck`, `PressesAlwaysPair`, `SmallerChordAlwaysDropped`,
`AppNeverKeepsAKey` and the action property `PressesAlwaysMeant` hold for every keyboard, list of
shortcuts and set of gates with `KeysAssumption`; they come from `ListenerInv`:

- `Consistent`, of the matcher alone: the keys of what is active or waiting are in `held`, no
  binding is both, `SmallerChordDropped`, swallowed keys are held, and Escape is not held while it
  cancels. `NothingStuck` alone is not inductive: it speaks of `down`, which the matcher never
  sees.
- `KeyboardInv`: a tap that hears holds and hides (a swallowed key, the cancel key) only keys that
  are down, and of the hidden ones the app saw none go down, except a key of the language
  switch, whose press may have reached the app before the matcher knew of it.
- `EdgeInv`: the edge in the tap is the keyboard's next one, and the modifiers it still brings in
  line are down. Without it a step in the middle of a callback could not be shown to keep
  `KeyboardInv`.
- `PressesPair` and `AppKeepsNoKey` themselves.

What one step of the matcher does to one key is a lemma per operation (`PressStep`, `ReleaseStep`,
`HandleStep`, `ResetStep`), stated of any matcher state, so the actions need only say which
step they take. `PressesAlwaysMeant` has no run of its own; TLC finds it kept on the instance of
`native_hotkey` when it is added there as a property.

### Servers (`ServersProofs`)

`ServerInv` joins the properties with who may be inside `ensure_with()` (`GateInv`), that a
start finds nothing stored (`NoneStored`), that a `stop()` that is about to kill a server has the
only one there is in hand (`KillInv`) and has killed it before it removes the pid file
(`UnfileInv`), and that a start met by a `stop()` will see another
generation (`MetInv`): `NeverTwoServers`, `ServersAlwaysOwned`, `ServersAlwaysRecoverable`,
`StopsReachStarts`.

`InstalledAlwaysRuns` and `SearchServerAlwaysFound` come from `SearchInv` by the same argument
(`SearchLock`, whose last part says what a launch that has removed the pid file has in hand,
and `SearchStopped`) and one more: `BuildInv` follows a set-up from its sources to
the name in `installed.json`. From its libraries on the folder it builds is whole, nobody else
touches it (the lock), and only a set-up over itself touches the installed one, which `torn`
records. It holds for the composed app of `MCServers`, crashes and quits included.

### Models (`ModelSetupProofs`)

`InstalledAlwaysVerified` rests on `SetupInv`: a set-up under way is the only one, the status
shows it and no delete will reset that (`Alone`); nobody writes to a finished file, and to a
part only the transfer (`Handles`); a part that is about to get the model's name was checked, or
is deleted (`CheckedParts`). It holds until a delete met a set-up (`overlapped`).

`PresetAlwaysHasItsModel` adds `PresetInv`: no delete is at work on the model that is set up
(`OwnModel`), what the set-up has passed by is still there (`Gathered`), a configuration about
to be saved names a model that is there (`Prepared`), and a preset without its model has a
delete at work that will save another (`Mended`). The property alone is not inductive: the
save writes what was loaded several awaits before.

### Output (`TextInsertionProofs`, `ClipboardProofs`)

`KeysAlwaysInOrder` rests on one record invariant, kept for each run by itself (`Fits`): unless
the keyboard failed, a run whose worker lives, or whose report is about to be completed, has
typed just the pieces it reported, and a run that is yet to be put out as a whole has typed
nothing; and on `LateIsKnown`: keys that wait on the main thread belong to a run whose keyboard
failed or that has ended. One lemma per kind of step shows what it does to one record, so
moves, cancels and other runs need a line each. `RunsStayTyped` is its type part.

`OfferAlwaysCurrent`: a run under way that nobody cancelled and no other crossed is the last
Dictate or Translate run and alone (`LastIsAlone`), so what it offers is the newest result;
drafts and hands-free dictations only matter in that they end or cross such a run.

`NothingEverLost` rests on `CarefulInv`, a record invariant again. The run types where it
began, unless the user moved (`OnTarget`); keys that missed are excused, among them those of a text
that landed in part (`InPart`), or the field's length will tell (`MissesKnown`); a worker that stopped early has a reason its report shows
(`WorkerAccounts`); and who puts a text out after it knows what the field took
(`OutputAccounts`). Each step between two looks at the focus keeps them.

`RestoresOnlyItsTextAlways`: from `ClipboardTypeCorrect` (ids are drawn once) and an invariant on
change counts: the count a paste remembers is never ahead of the clipboard's, and while the two
agree the clipboard holds that paste's text, unless it is `unsure`.

`ClipboardAlwaysComesBack`: the restore that `pending` names is waiting or at work with the
batch's original (`LatestInv`). So long as calls stay apart the clipboard is in one of three
conditions (`ApartInv`): nobody borrows, and what waits will bring back what was wanted or finds
it there (`Rests`), if it is not `buried` under the older original of a later call; one paste is in the middle, with what was wanted or about to take it over
from the one that waits (`Pasting`); or one capture is (`Capturing`). An outdated restore may end
at any time and disturbs none of them. `OverInv` says that what is wanted or buried was put
there by a call that is over, so that no later one can be taken for it.

### Only model-checked

- Liveness (`KeepsPromise` and `AskRun` with their fairness, `EveryStartEnds`, `BatchEnds`,
  `PipelineFreed`, `RunsComeAndGo`, `ListenersEnd`, `ListensAgain`, `Recovers`, `CancelEnds`):
  fairness and ENABLED are beyond the prover.
- The violations of section 3.

## 5. Not modelled

- Of the output: SendInput of Windows (the only one that reports a piece typed in part), the
  keyboards of Linux, the selection that a command replaces, the popup and search placements
  of the executor. Of the overlay: where the windows are.
- Of the search server: uv and its download, the secret key, the cache folder, and the web
  searches and pages themselves.
- Edges that macOS keeps from the tap without telling it so (secure input): in `NativeHotkey`
  edges are lost while the tap is off and before a listener starts. The held modifiers that the
  flags of a modifier's event drop from `held` are there, but nothing in the model needs them.
- The listener of Windows, the role Switch language and its effect on a run, the answer's
  content and the panel of Ask, the messages that wait for the panel's window.
- The segmenter, the wake matcher and AutoStop of hands-free mode: functions of audio; what
  they find is a free choice of the listener.
- Migrations and normalisation of the settings, prompts, the classification of voice intents, the providers'
  protocols: sequential functions from an input to an output, which unit tests reach, with
  most of the source's lines. Their answers are free choices where a module needs them.
- In `ModelSetup`: `verified_at`, a configuration that cannot be written, the progress's
  bytes and speed. In `ShortcutRegistration`: the supervisor's `stop()` at quit, and the gate of
  a run to cancel (in `NativeHotkey`).
- Updates, statistics, the profiles of app detection, the frontend, the site, benchmarks and scripts.

## 6. Plan

1. The safety half of a promise for `TextInsertion` and for the two servers, stated as an
   abstract specification as `VoiceRun` and `AskRun` are.
2. Storage: the configuration that is patched, saved and put back by two commands at once.

## 7. Running

In this directory, `tlc -config <cfg> <module>`:

    tlc -config PipelineCancel.cfg MCPipeline.tla
    tlc -config PipelinePromise.cfg Pipeline.tla      # and the other Pipeline*.cfg
    tlc -config Ask.cfg AskDictation.tla              # and the other Ask*.cfg
    tlc -config HandsFree.cfg HandsFree.tla
    tlc -config MCTextInsertion.cfg MCTextInsertion.tla
    tlc -config NativeHotkey.cfg MCNativeHotkey.tla
    tlc -config ShortcutRegistration.cfg ShortcutRegistration.tla
    tlc -config Servers.cfg MCServers.tla
    tlc -config SearchServer.cfg SearchServer.tla
    tlc -config ServerManagerQuit.cfg MCServerManager.tla
    tlc -config ModelSetup.cfg ModelSetup.tla
    tlc -config Clipboard.cfg Clipboard.tla           # and the other Clipboard*.cfg
    tlapm PipelineProofs.tla                          # and the other *Proofs.tla

`PROJECT.json` lists runs, mutants (each named `<definition>_<what it forgets>` beside the
definition it replaces), the source lines of every definition, findings, hazards and theorems.

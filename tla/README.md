# NekoScript in TLA+

NekoScript (`src/NekoScript/`) is a Windows program that runs one JavaScript file
with the Duktape engine and gives it native classes: task dialogs, calls of DLL
functions, files and the process. This directory holds TLA+ models of the parts in
which the program's own logic lives, the TLC runs that check them, and theorems
that TLAPS proves. `PROJECT.json` maps every definition to the lines it models.

## The system

One thread runs everything. What makes the program hard to test is re-entrance:
native code calls the script (listeners, getters, finalizers) at moments when its
own work is half done, and the script may call any native function from there.

| Component | State | Operations | Modelled in |
|---|---|---|---|
| Event emitter, `lib/init_EventEmitter.js` | `_events`: arrays of entries (listener, once); `_onceReturnValue` | on, once, off, their bulk forms, defineEvent, removeEvent, emit | `EventEmitter`, `EventEmitterBulk`, `EmitterContract` |
| Task dialogs, `NKWinTaskDialog.cpp` | `_hwnd`, `_preventClose`, `_buttonsRuntime`, `_radiosRuntime`, `_tdc` | show, navigate, preventClose, the callback, the finalizer | `TaskDialog`, `ModalDialogs` |
| Native object wrapper, `JSClass.h` | the hidden pointer of a script object, the native object | constructor, methods, finalizer | `JSClass` |
| Emitter bridge, `JSEventEmitter.cpp` | `emit` in the global stash | pushes it for the callback of dialogs | part of `TaskDialog` |
| Main program, `NekoScript.cpp` | the heap, the script's name, the exit code | start-up, load, run, `Fail`, `duk_destroy_heap` | `NekoScript`; the heap's end in `JSClass` |
| Crash handler, `ExceptionHandler.cpp` | none | shows a dialog, ends the process | part of `NekoScript` |
| File system functions, `JSFileSystem.cpp` | the directory, which other processes share | readdir, readFile, writeFile, unlink, rename | `FileSystem` |
| Windows API calls, `NKWinAPI.cpp` | module, procedure; an argument array during a call | conversion of arguments, the call | `NativeCall` |
| Helpers, `Helper.cpp`, `Helper.h` | the array of a delayed throw | property reads, reading the script, DynamicInvoke, throw scopes, string conversions | property reads in `TaskDialog`; `FileSystem`, `NativeCall`; conversions left out |
| process object, `JSProcess.cpp` | none of its own | exit, abort, chdir, strings | exit and abort in `NekoScript` |
| Engine extras, `JSEngineExtra.cpp` | none | compile, loadBytecode, dumpBytecode | the crash of loadBytecode in `NekoScript` |
| Version information, `NKWinVersionInfo.cpp` | one read of the system's version | properties | object life in `JSClass` |
| Resources, `Resource.cpp`, `GenerateResources.neko.js` | tables of offsets, constant | build and lookup | left out |

How they interact:

* A dialog object of the script has an emitter as its prototype. The callback that
  the system makes while `TaskDialogIndirect` pumps messages pushes `emit` and the
  *current this value* and calls it; listeners run inside the callback.
* A listener may show another dialog, navigate, refuse a close, or call another
  modal function through `NKWinAPI`. Dialogs have no owner window, so the user can
  act on all of them while the innermost call pumps messages.
* A procedure called through `NKWinAPI` may pump messages too, and so do the dialogs in
  which `Fail` and the crash handler report a failure: listeners can run in a process
  that has already failed.
* The script a process runs is a file, which the same or another process may be
  writing; it is looked up by name three times before it runs.
* The finalizer that `JSClass` gives an object runs when the engine collects the
  object, or in `duk_destroy_heap` at the end of `AppMain`. Finalizers written in the
  script run at the same times: an allocation inside a native function may call them.

What makes each correct: an emission delivers to every listener that was there, once
registrations run once, emissions end; a dialog object has one window, its handle
says whether it exists, its arrays belong to a call under way, a refusal to close
is answered for the click it was made for, and events reach the object they belong
to; a native object is deleted once, not used afterwards, and not forgotten; a file
holds what was stored or the script is told; a listing is complete; what runs is the
file that was found; a procedure finds its arguments in order, and their array is
deleted once on every path; the exit code says what happened.

## Modules

### EventEmitter, EventEmitterBulk, EmitterContract

`listeners[e]` is `_events[e]`, `defined` its keys (`getListeners` defines a name by
looking it up, which is why lookups change state), `onceReturn` the value that
unregisters a listener when it returns it. `stack` holds one frame per `emitEvent`
under way. A frame has the local variables of the function: the keys of
`listenersMap` still to visit, the copy (`snap`) of the array being walked, the
listener that runs (`cur`). `listenersMap` shares its arrays with the emitter until
`removeEvent` drops them; from then on the frame alone holds them (`detached`, `old`).
The actions `NextKey`, `CallListener`, `ListenerReturns`, `ListenerThrows`,
`EmitReturns` cut the loop where script code can run; the operations of the script
are enabled at the bottom and in every listener. `owed` is a history field: the
registrations an emission found and has neither executed nor seen removed in time.

Abstractions: an event is a model value and a regular expression the set of names it
matches (no `lastIndex`); names that collide with properties of `Object.prototype`
are left out, and so are the arguments of listeners. An exception ends the innermost
emission; whoever called it may go on.

`EmitterContract` is the abstract emitter: pairs of events and functions, the promises of
each emission under way, and the function each is executing. It has no arrays, copies,
keys or once flags. `KeepsContract` maps `attached` to the pairs that occur in
`listeners`, `promised` to the `owed` of every frame and `running` to `cur`. The contract
says what a script can rely on whatever listeners do: an emission is released from a
promise only by executing the function or by its removal (`removeEvent` does not
release it), and ends only when nothing is promised.

`EventEmitterBulk` adds `addListeners` and `removeListeners` and the history
variable `credit`, which counts the executions that calls of `once` still justify.
`Manipulated` is the loop of `manipulateListeners`, as a function of the index it
counts down.

### TaskDialog, ModalDialogs

`stack` is the nesting of calls on the one thread: calls of Show and Navigate (with
a program counter), listeners run by the callback, other modal functions. The
system's part is `windows`, `ending` (the end was accepted, `TDN_DESTROYED` has not
been sent) and `page` (the identifiers the window shows). What is assumed of it:

* `TDN_DIALOG_CONSTRUCTED` is the first notification of a window and of a page,
  followed by `TDN_CREATED` or `TDN_NAVIGATED`;
* a click whose callback returns `S_FALSE` leaves the window, any other ends it, and
  `TDN_DESTROYED` is sent when the loop of that window has control again;
* it may fail before any callback.

`CreateConfig` is cut where it reads `buttons` and `radioButtons`, because a getter or
`toString` can run script code there (`Getters`). A write outside an array, or through
a null pointer, ends the run (`fault = "array"`). Every element of the two arrays is
read with a property access of its own (lines 154-158, 171-175), but the model fills the
identifiers of an array in one step: script that runs between two elements runs before
the first or after the last one. What a nested show or navigate does to the arrays, their
length and their owner is the same either way; which identifiers a half-filled array
has after it is not followed. An exception that leaves the callback
either ends the process or unwinds the modal call on top: C++ does not say which when
frames of another compiler are in between, so both are modelled (`Escape`).
`CurrentThis` is what `duk_push_this` gives: the object of the innermost native call.
`ending`, `asked` (preventClose was called during this click) and `again` (another click
on the same dialog was reported during it) are what the properties of closing compare.

`gone` says that the finalizer has deleted the native object. A call of show keeps its
object, and so does a listener; the script may drop its own references at any time
(`Finalize`). The system calls back with the address of the object, so a window without
an object is a fault (`DanglingCallback`). Only an exception that unwinds the call of show
and leaves the window open gets there, which is why `WindowHasObject` is checked where
listeners do not throw.

`ModalDialogs` is what the dialogs promise: each is closed, open or closing, calls nest,
and a click is answered once, in the order in which calls return, by a request made
during that click. `KeepsPromise` maps `dialog` to `hwnd` and `ending`, and `calls` to the
stack seen as clicks and others. After a fault the stack is seen as empty: the process
has ended.

### FileSystem, NativeCall, NekoScript

`NekoScript` is the whole process: `AppMain` (`phase`), the calls it and the script make, and
the launches of further processes on what earlier ones left. It instantiates two modules.

`FileSystem` has the directory (`disk`), the operation under way (`op`), the one that waits
for finalizers called inside it (`outer`) and the history
`saved`: what the script stored under a name, as long as nobody else changed it. Every
operation is cut where the code goes back to the system, and `OthersAct` may come in
between: `FileExists`, open and `tellg`, `read`; truncation, `write`; one entry of a listing and
the next. A write may store less than it was given (`Room`), which `writeFileSync` does not
notice. An open may be refused, of a file that exists too: `tellg` then gives -1 and the
buffer of that size is refused with a RangeError. `Ansi` is the name that the bytes of a
UTF-8 name have in the ANSI page: the
streams convert names, `DeleteFileA` and `MoveFileA` do not. `Delivered` is what the reads
return, in binary mode and in text mode with its line ends and its SUB, padded to the
size that was asked before. `Kept` leaves out bytes, as text mode does with a CR before a
line feed. Assumed of the system: a file that a stream has open can be
written by others but neither removed nor renamed (`InUse`, the sharing mode of the streams
of MSVC); a listing delivers every name that is there all the time exactly once.

The operations are also cut where they allocate: `duk_push_fixed_buffer`, which comes between
`tellg` and `read` (`JSFileSystem.cpp:62`), and the string of each entry of a listing (line 30).
Duktape's allocator may start a voluntary mark-and-sweep
(`vendors/duktape/duk_heap_memory.cpp:17-57`), and that runs finalizers
(`duk_heap_markandsweep.cpp:1330-1334`); those of the script may use files. `Interrupted` puts
the operation into `outer`, `Resumed` takes it up again, and in between the script has
control in a frame `finalizer` of `NativeCall` (`FinalizersBegin`, `FinalizersEnd` of
`NekoScript`). One waiting operation is enough: finalizers run while the heap is marked
as collecting, so nothing they allocate starts another collection. For the same reason
nothing is collected in the finalizers of `duk_destroy_heap`; and before the script has
been called there is no finalizer of it. `alone` says that nobody has changed the file of
a read or write since it was opened, `stay` and `ever` what happened to the directory during a
listing; `Meanwhile` keeps them for both operations.

That a finalizer can change a file inside a read shows: without its exception for reads
that were not `alone`, `ReadsWhatWasWritten` is violated by a finalizer that writes the
file between its size and its bytes, and no other process is needed for it.

`NativeCall` has the nesting of calls that leave the engine (`frames`) and the number of
argument arrays alive (`blocks`). `FilledFromEnd`, `Expanded` and `Parameters` follow an
argument from the value stack, or from the parameter pack of a delayed throw, to its
place on the machine stack. Assumed of the compiler: it evaluates the arguments of a call
from right to left, on which the order of the parameters of a delayed throw depends.
Assumed of the engine: it is compiled to report errors as C++ exceptions, which run
destructors.

In `NekoScript` failures are `Fail`, which shows a dialog or prints to the console, and `Crash`,
an exception that reaches the crash handler. `told` means that the message was printed or
handed to the system: `Fail` ignores whether `TaskDialog` could show it
(`NekoScript.cpp:59`), and so does the model. Both dialogs pump messages, so `ScriptRuns`
includes listeners that run while a failure is on the screen, and they may call
`process.exit`. `found` is the history of what `FileExists` saw under the script's name. Killing
the process is an action (`Killed`) that is possible at every step.

### JSClass

Script objects with properties that refer to each other, roots (globals and running
functions), and Duktape's collector. What is reachable (`Reach`) is the least set
that holds the roots and, with an object, what it refers to. An object whose last reference goes, or that
is unreachable in a mark-and-sweep, is queued and finalized; its finalizer runs even
when an earlier one made it reachable again; a finalized object that is reachable in
the next collection was rescued and will be finalized again; `duk_destroy_heap`
finalizes all that is left in any order until no finalizer is left to run. (Its limit
on runaway finalizers is left out.) A finalizer that finds no pointer ends a debug build
(`_ASSERTE(self)`, phase `assert`); a release build deletes a null pointer, which does
nothing, and goes on. `Finalize` allows both, so that `NothingLeaks` also speaks of
programs in which a finalized wrapper was rescued and finalized again. A `plain` object may have a finalizer written in
the script (`Hooks`), which can do whatever the script can. `Derive` lets the script
call `Object.create`, which inherits pointer and finalizer. The failure exits of
`AppMain`, `process.exit` and `process.abort` leave everything to the system.

## Runs

| Run | Instance | Shows |
|---|---|---|
| `emitter` | 2 events, 2 symmetric listeners, arrays of 1, 2 nested emissions | `TypeOK`, `OwedIsQueued`, `EmissionDelivers`, `KeepsContract` |
| `emitter_bulk` | 1 event, 2 listeners, arrays up to 3, all bulks of 2 or 3, credit up to 2, no nesting, fairness | `OnceEntriesCovered`, `OnceRunsOnce`, `PersistentOnce`, `BulkRunsInOrder`, `EmissionDelivers`, `EmissionEnds` |
| `dialog_nested` | 2 dialogs, no or 2 buttons, throwing listeners, other modal calls, 4 calls deep | `TypeOK`, `OneWindow`, `HandleFollowsWindow`, `RuntimeOwned`, `RefusedOnlyIfAsked`, `PreventCloseHonoured`, `KeepsPromise` |
| `dialog_getters` | 1 dialog, script code in the configuration, other modal calls, radio buttons, 4 calls deep | `OneWindow`, `HandleFollowsWindow`, `WindowHasObject`, `RefusedOnlyIfAsked`, `PreventCloseHonoured`, `KeepsPromise` |
| `dialog_ends` | 2 dialogs, 4 calls deep, fairness | `EndingCompletes` |
| `native_object` | 3 symmetric objects, script finalizers, `Object.create` | `TypeOK`, `NothingDangles`, `NothingLeaks` |
| `program` | 2 names, 2 texts, 1 change by another process, writes cut after 0 or 1 bytes, 2 calls deep, any number of launches | `TypeOK`, `ReadsWhatWasWritten`, `ListingComplete`, `LoadsWhatWasFound`, `RunsWhatWasFound`, `ParametersInOrder`, `BlocksFreed`, `ExitTellsOutcome` |

Bounds. Two listeners are enough for one to add, remove or emit for the other; two
events are needed for regular expressions and for `removeEvent` of an event that an
emission has not reached. Arrays of length 3 hold a function twice with another one
between. What nesting and long arrays do together is left to the theorems, which
hold for every bound. Two dialogs and four calls hold a listener of a dialog that was
shown from a listener of another one. Three objects form a cycle with a script
finalizer and an object to rescue; references of an object to itself are left out. The names of `program` are a
source and a hidden bytecode file, both the same in the two encodings, so that stored
files are renamed to each other's names; its texts hold a blank, CR LF and a SUB, and the arguments of
its calls every kind that is converted and two that are refused. Names that the ANSI functions misread
come in pairs, and with a pair of them besides these two the instance is too large: what they do to
the others is left to `FilesKeepContent`, which holds for every ANSI page. Another process makes
at most one change, between any two steps of an operation: `LoadsFound` and
`FilesKeepContent` are proved for any number of them. Two calls are a procedure, or a failure's dialog, with a listener in
it that calls another one.

When another click on the same dialog is reported during a click, which a second modal
call makes possible, the inner click clears the flag they share
(`NKWinTaskDialog.cpp:307`): `PreventCloseHonoured` and `ModalDialogs!Accept` except that case.
`OneWindow` holds with throwing listeners and with getters,
but not with both at once: a getter shows the dialog, a listener throws and leaves that
window without a loop, and the outer `Show`, which has passed its check, opens another.
`dialog_getters` is therefore checked where listeners do not throw; getters, other
modal calls and the collector are free to do what they like.
`NothingDangles` is about programs without derived objects: the finalizer of
`Object.create(obj)` deletes the native object of `obj` and leaves `obj` its address, so
about these programs nothing is claimed except that nothing is left at the end.

How far some properties reach. `LoadsWhatWasFound` and `RunsWhatWasFound` say nothing once
another process has changed the script after `FileExists`, and a text that was stored
only in part is what was found like any other: they check the way from the bytes of a file
to the program, not who wrote them. `ParametersInOrder` checks that the two reversals of
an argument's place cancel; the conversion of its value (`Word`) is the same on both
sides. `BulkRunsInOrder` checks what `addListeners` registers, and takes from `CallListener`
that `emitEvent` walks from the end.

Runs that TLC refutes, each against a sentence of the repository (quoted in
`PROJECT.json`, "findings"):

* `emitter_regex`: emitting to a regular expression, the removal of a listener for one
  event costs it its turn in the next one.
* `emitter_nested_once`: a once listener is executed twice, by a nested emission
  and by the outer one that had copied it.
* `dialog_assert`: an exception in a getter, or a show from it, leaves or finds
  `_buttonsRuntime` allocated.
* `dialog_target`: events of a dialog behind another one are emitted on the other one.
* `dialog_radio`: radio buttons overwrite the identifiers of the buttons.

Also met while modelling: `once` registers a function that is registered already, since
its wrapper object never equals an entry (`init_EventEmitter.js:122` says duplicates are
not added); `PersistentOnce` states what does hold. `_ASSERTE(self)` in `JSClass.h` fails when
a method is called on an object without a native one; the model ends there, since a
release build would go on with undefined behaviour.

## Fairness

`EventEmitter!Fairness`, and `BulkFairness` for the same steps: the loop of `emitEvent` is ordinary code, so it goes on (weak
fairness of `LoopStep`); a listener returns or throws in the end (weak fairness of
`ListenerEnds`). `TaskDialog!Fairness`: the code and the system run on (weak fairness);
whoever has control inside a modal call gives it back, which every modal call of the
program assumes: at each depth a listener that is given control again and again
returns, a user who has a window in front again and again clicks, and not every click
is refused (strong fairness, since listeners may do other things in between).

## Proofs

`EventEmitterProofs` proves, for any sets of events, listeners and regular expressions
and any bounds: `TypeCorrect` (`[]TypeOK`), `RegisteredAtMostOnce` (`[]PersistentOnce`),
`EmissionsDeliver` (`[]EmissionDelivers`) and `OwedStaysQueued` (`[]OwedIsQueued`). They rest on `ConstantsAssumption` only.

`EmissionDelivers` is not inductive: that nothing is owed at the end follows from
knowing where each owed registration waits. The inductive invariant `IInv` adds
`OwedIsQueued`: an owed registration is in the copy being walked, in the emitter's
array of a key to come, or in such an array that `removeEvent` detached; and
`QueuesDisjoint`: a key to come is one or the other. At the end all three places are
empty. The difficult step is a removal during an emission (`UnregisterStep`): it changes
the arrays that all frames refer to, and each frame's debt is settled against the new
arrays. The lemmas say what each operation does to an array
(`RemovedArray`, `AddedArray`) and to a frame (`CallingFrame`, `NextKeyFrame`,
`DetachedFrame`); `NextInv` has one step per action. `RemovedArray` shows why removing
from the end keeps `PersistentOnce`: the last entry for a function is the one removed.

`ContractKept` proves the refinement (`KeepsContract`) from the same invariant. Each step has
a view in the contract: a registration attaches the function to the events the selector
matches and to no other (`AttachView`); a removal releases only promises of that function
(`UnregisterView`); `emitEvent` returns with nothing promised because `OwedIsQueued` leaves
no place for it.

`EventEmitterBulkProofs` carries this over to the bulk operations. `addListeners` with an
array is a loop over its argument, so what it leaves needs induction; the induction is
over an index and stated for a set instead of a predicate, which the provers can
instantiate (`UpToInduction`: a set with 0 and the successor of each of its members below
n has all numbers up to n). From it follow `BulkRegistersOnce` (`PersistentOnce`) and
`BulkEmissionsDeliver` (`EmissionDelivers`) for arguments of any length: each turn of the
loop keeps what `IInv` says of the arrays. For `BulkOrderKept` (`BulkRunsInOrder`) the
induction says that after k turns the array is the old one followed by the last k
listeners of the argument, the last one first.

`OnceEntriesStayCovered` (`OnceEntriesCovered`) and `OnceRunsOnceUnnested` (`OnceRunsOnce`) assume
`MaxDepth <= 1`: `OnceRunsOnce` is false of nested emissions, as run `emitter_nested_once`
shows. `CreditInv` holds the once entries of a function, in the arrays of the emitter and in
those of the one emission there may be, against `credit`. What has to be seen is that
an execution takes one from the credit and one entry from the attached array, though not
always the entry it executes, while the copy loses the entry it executes.

`TaskDialogProofs` proves `TypeCorrect` and `CloseHonoured` (`PreventCloseHonoured`) for any dialogs,
configurations and depth, with getters and exceptions. The second needs `ClickFacts`: while
a click that was asked to be refused is on the stack and no other one on its dialog was
reported meanwhile, the flag of its dialog is still set. A later click is above it on the stack and
marks it; show and navigate clear nothing.

`TaskDialogWindowProofs` has two halves. The first assumes `~Getters`, that reading the
argument of show runs no script; exceptions may do what they like. With
getters, show can be entered again between its check of `_hwnd` and the window, which the
state of the object does not exclude. The
invariant `IInv` has five parts: `Typing`; `ClickFacts`; `WindowFacts`, that a call which has not
reached its window is the innermost one, that for show its object then has no handle, and
that everything further along on the stack has its window; `WindowCount`, that there is one window if
the handle is set and none otherwise; `ArrayFacts`, that only the innermost call has arrays. That
the handle follows the window is not inductive alone: that `Show` opens no second window
follows from no other call standing between the check of its object and its window.
One lemma for each shape of a step (push, pop, the top moves on, marks change) says what it
keeps of the stack. `ArraysOwned` (`RuntimeOwned`) is of this half: with getters it is
false, as one that throws leaves an array to nobody.

The second half assumes `~Throws`, that listeners do not throw; getters run what they
like, other modal calls may be under way, and exceptions may leave both. Here a call of
show may be anywhere on the stack with its window still to come, so `WindowFacts` is no
invariant. What replaces it is `ShowFacts`: calls keep their objects; a dialog has its
handle exactly while a call of show with a window is on the stack; above that call there
is no other show of it; every navigate and every click has such a call below it. That the
outer show finds its dialog without a window when the getter returns follows from the
nesting: the inner show was above it and is gone. `WindowsKeepObject` (`WindowHasObject`) is of
this half: an exception that unwinds show leaves a window whose object nobody holds.

What both halves imply is `WindowsKnown`, and on it rest, under the assumption
`~(Getters /\ Throws)`, the theorems `WindowsCorrect` (`OneWindow`), `HandleCorrect`
(`HandleFollowsWindow`), `RefusalAsked` (`RefusedOnlyIfAsked`) and, in
`TaskDialogPromiseProofs`, `PromiseKept`: `TaskDialog` implements `ModalDialogs`. The assumption
leaves out exactly the combination in which `OneWindow` fails, as described under
"Runs". In `TaskDialogPromiseProofs`, `Seen...` lemmas say how an operation on the stack
looks through the mapping; then there is one lemma for each kind of abstract step.

`NekoScriptCallProofs` proves `ParametersCorrect` (`ParametersInOrder`), `BlocksAreFreed` (`BlocksFreed`)
and `ExitIsTrue` (`ExitTellsOutcome`) for any argument lists and any nesting. The invariant has
four parts. `CallInv`: only the innermost call can still be filling its array, and it alone
has one; the others have their parameters in order (`FilledParameters` and
`ExpandedParameters` are the two ways an argument is reversed twice). `PhaseInv`: nothing is
under way before the script is called, and the dialog of a failure is there only in a
process that fails. `OutcomeInv`: such a process has told and has a code other than 0. `OpReady`:
while a file operation is under way no call is still filling its array, so that the
finalizers inside it come on top of calls that are complete. The second is what makes the third inductive: listeners that run in the dialog of a
failure return to that dialog and to no other end of the process.

`NekoScriptFileProofs` proves `FilesKeepContent` (`ReadsWhatWasWritten`), `ListingsComplete`
(`ListingComplete`) and `LoadsFound` (`LoadsWhatWasFound`) for any names, texts, ANSI page with the
property the assumption states, and any number of changes by other processes; also
`SourcesFound` (`RunsWhatWasFound`) and the types of the whole process (`TypeCorrect`). `FilesInv`
says that what counts as stored is on the disk (`DiskInv`), that a write that is alone finds the
file empty and nothing stored under its name until it is done (`WriteFacts`), that a read
that is alone asked for as many bytes as there are (`ReadFacts`), and what a listing has seen
so far (`ListFacts`). The three facts hold of the operation under way (`OpInv`) and of the
one that waits for finalizers (`OuterInv`); that they survive what finalizers and other
processes do is one lemma for both (`MeanwhileFacts`): a change either marks the
operation or concerns another name. `LoadInv` follows the script from `FileExists` to the call: until then nobody in the process but
`AppMain` uses files; what they return is compared with what was found (`AsFound`).
`ConstantsAssumption` of `NekoScript` is all these rest on.

`SourcesFound` needs what text mode does to a file of any length. `Kept` is a recursive
function, and what is proved about it comes from two lemmas, by induction over the
length: it runs through the sequence step by step (`KeptSteps`), and whatever takes the same
steps ends at the same place (`KeptUnique`). `KeptBeforeNul` says that text mode does not
move the first NUL relative to the rest, since a NUL is never left out; so the end that
`c_str` gives the source may be taken before or after the CRs go. The buffer is
longer than such a text by the CRs and stays filled with blanks behind it: how many, and
how many the text itself ends with, the property leaves open.

`JSClassProofs` proves `TypeCorrect`, `NoneDangles` (`NothingDangles`), `NoneLeaks` (`NothingLeaks`) and
`NothingHeldIsFreed` for any set of objects and any order of
finalizers. The invariant has five parts besides the types: `Shape`, that an address is the
object's own and that running finalizers belong to objects being finalized; `NoneMissing`,
that roots and references of objects that exist lead to such; `LiveHasOwner`, that a
native object that lives has an object whose finalizer is still to run and will find it;
`AddressIsLive`, that without inheritance an address leads to a native object that lives;
`QueueEmpty`, that the end of the heap leaves no finalizer to run. `NoneMissing` is
kept by a collection because the objects that exist are a set closed under references and
`Reach` lies in every such set: no induction along paths is needed.

Every invariant and action property of a passing run is stated by a theorem, some under
the assumptions named above. Model-checked only is liveness, `EmissionEnds` and
`EndingCompletes`: it takes fairness and ENABLED and is out of the prover's reach. What the
violation runs show is TLC's alone, too.

## Not modelled

Contents of texts, icons and flags of dialogs; `enableButton` and `enableRadioButton`, which
change no state here; `TDN_TIMER`, which is never sent because `TDF_CALLBACK_TIMER` is not
set; out-of-memory. `lastIndex` of regular expressions with the g flag. Of the helpers,
string conversions (among them the sizes `NKWinAPI::fromWString` computes from bytes) and
the texts of errors; the value of `GetLastError` that a thrown error reports; the leak of
the scope object when a throw scope is left by an exception. The handle `readdirSync`
does not close: it limits nothing within a model of this size. `pwd`, `chdir` and the
properties of `process` and of version information are single calls of the system.
`GenerateResources.neko.js` runs at build time, and its tables never change. What
`setup` functions put on the global object is fixed before the script runs.

Most of the repository is vendored: Duktape, the 7-Zip sources and others under
`src/NekoScript/vendors/`. They are not this program's logic and are not modelled, except
what Duktape's collector does to native objects; a share of all lines of the
repository therefore says little. Of the program's own sources, the parts above are
what changes state.

## Plan

1. *Proofs.* `EventReachesItsDialog` for one dialog at a time; `ClickReportsIndex` without
   radio buttons: what the refuted statements promise where they do hold.
2. *Composition.* A dialog with its emitter: `ModalDialogs` whose listeners are registered in
   an `EmitterContract`, so that preventClose, once listeners and nested clicks meet. Both
   abstract modules are there for that.
3. *Resources.* The generated tables and `NekoResGet`, as a round trip over small tables.

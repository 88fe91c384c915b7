# TLA+ models of the editor-plugin bundle

The repository holds the compiled JavaScript of three editor extensions:

| extension | files | what it does |
|---|---|---|
| lextudio.restructuredtext 32.0.0 | `out/extension.js`, `out/sphinx.js` | a preview of reStructuredText built by `sphinx-build`; a `Sphinx` process wrapper class |
| tht13.rst-vscode 2.0.0 | `out/src/extension.js`, `out/src/document.js` | a preview built by a `python preview.py` script, one view per document |
| webfreak.debug 0.20.0 | `out/src/backend/linux/console.js` | opens a terminal emulator for the debuggee and finds out its tty |

All three run inside the editor's single-threaded extension host. The editor
calls in through callbacks: commands, document events, and content-provider
requests. The code calls out through child processes, timers and the file
system. No state is persisted. Everything that can go wrong comes from the
order in which asynchronous events arrive.

## Inventory

### Sphinx process wrapper (`lextudio/out/sphinx.js`)
- **State:** `sphinxPath`, `env`, and an event emitter for log lines. Each call
  also has its own state: the child process, six registered listeners, two
  buffer arrays and three promises.
- **Operations:**
  - `preview(command, args)` sets `sphinxPath`, then calls `exec`.
  - `exec(cwd, args, options)` calls `_exec`.
  - `_exec` calls `spawn`, which logs the command and starts the child. `_exec`
    then writes stdin, awaits `exec(child)`, logs stderr, and rejects with a
    `SphinxError` when the exit code is truthy.
  - `exec(child)` joins three promises with `Promise.all`: exit/error, stdout
    `close` and stderr `close`. It then disposes the listeners.
  - `getSphinxErrorCode` tests stderr against 8 patterns in order; the first
    match wins.
- **Interactions:** the child process (events `error`, `exit`, and `data` and
  `close` on each stream) and the `log` event. Nothing in this bundle
  instantiates `Sphinx`. The spec (spec.md) makes this wrapper its core.
- **Hard parts:**
  - `exit` can arrive before the streams have drained.
  - A failed spawn emits `error` and perhaps no `exit`.
  - Calls on one instance overlap and share its log.
- **Correct when:**
  - A call settles exactly once.
  - The result carries the child's whole output and its exit code.
  - Failure means a non-zero exit.
  - Listeners are released on every path.
  - stderr is logged whether the call succeeds or fails.

### lextudio preview provider (`lextudio/out/extension.js`)
- **State:** the provider's `_waiting` flag and its pending 300 ms timer, plus
  the settings-derived `_input`, `_output`, `_cmd` and `_options`. The editor
  holds the open rendered documents.
- **Operations:**
  - `activate` registers the save, text-change and configuration handlers.
  - `update(uri)` is the debounce.
  - `provideTextDocumentContent` reads the settings and calls `preview`.
  - `preview` runs `child_process.exec(sphinx-build)`, then, on win32, checks
    stderr for `Exception occurred:`. It then calls `fs.stat` and
    `fs.readFile` on the html and applies `fixLinks`.
  - `showPreview`, `showSource` and `getViewColumn` handle the commands.
- **Hard parts:**
  - The debounce keeps one uri per window.
  - The editor re-requests content on every fire, so builds overlap in one
    output directory.
  - `stat` and `readFile` are separate calls.
- **Correct when:**
  - Every open preview whose source changed is refreshed.
  - A refresh shows a complete html file of the current build.

### tht13 preview (`tht13/out/src/extension.js`, `document.js`)
- **State:** `ViewManager.idMap` maps `[docUri, previewUri]` keys to a uuid, and
  `fileMap` maps uuid to `RSTDocumentView`. Each view holds its document, its
  own content provider and its registrations.
- **Operations:**
  - `preview` calls `sendRSTCommand`, which creates or reuses a view.
  - `execute` opens the preview.
  - The event handlers call `provider.update`.
  - `provideTextDocumentContent` runs `python preview.py`.
  - `dispose` removes the view's registrations.
- **Hard parts:**
  - Every view registers another provider for the same `rst` scheme.
  - `IDMap` matches Uri objects by identity.
  - Some listeners are never added to `registrations`.
  - `preview(uri)` dereferences the active editor even when it is absent.

### Terminal spawn (`webfreak/.../console.js`)
- **State:** the temp file, the poll counter `it`, the interval, and the
  promise.
- **Operations:** one function, `spawnTerminalEmulator`, that spawns the
  emulator and polls every 10 ms.
- **Hard parts:**
  - The shell creates the file before `tty` writes it.
  - The timeout rejects without `clearInterval`.
- **Correct when:**
  - The promise settles.
  - It resolves with the terminal's name.
  - Polling stops.

## Modules

| module | models | state ↔ code |
|---|---|---|
| `SphinxExec` | `sphinx.js`: `preview`, `exec`, `_exec`, `spawn`, `exec(child)`, `getSphinxErrorCode` | see below |
| `TerminalSpawn` | `console.js` | `file`, `it`, `interval`, `promise`, `value`, `emulator`, `adapter` |
| `RstPreviewProvider` | `lextudio/extension.js` refresh path | `waiting` = `_waiting`, `timer` = pending `setTimeout`, `previews` = open rendered documents |
| `RstPreviewRender` | `lextudio/extension.js` content path | `phase[r]` = where call `r` is in `preview`'s callback chain; `html` = the file `finalName`; `build[r]` = the call's sphinx-build process |
| `RstPreview` | the two lextudio halves together | the variables of both, through `INSTANCE` |
| `PreviewPaths` | `lextudio/extension.js`: `loadSetting`, `expandMacro`, `getRstUri`, `relativeDocumentationPath` and `preview`'s path arithmetic | `confPath`, `outPath` = the settings; `input`, `output` = `_input`, `_output`; `finalName` = the html file `preview` reads |
| `ViewManager` | tht13 `extension.js` and `document.js` | `views` = `fileMap`/`idMap` keys in insertion order; `registered` = views whose `registrations` are not disposed; `preview[d]` = the preview document of `d`; `renders` = provider calls the host still waits on |

**SphinxExec.**
- Each element of `Invs` is one call on one instance.
- `Start` is the synchronous prefix of `_exec` and `spawn`: it throws when the
  path is falsy. Otherwise it logs the command, spawns the child, ends stdin
  when input is given, and registers the six listeners.
- `ChildError`, `ChildExit`, `StreamData` and `StreamClose` are the child's
  events. Each is one macrotask.
- The promise continuations an event triggers are microtasks, and they run
  before the next event. They are therefore part of the same step, through
  `Join`: `Promise.all` rejects or fulfils, then `dispose`, then `_exec`'s stderr
  log and its exit-code test. The failure record is `SphinxError`, the
  constructor's copy of the output, the exit code and the stderr's kind.
- `listeners` follows `once`/`on` and `dispose` exactly: a `once` listener is
  removed when it fires.
- Output is abstracted to chunks. A chunk is the set of recognisable phrases it
  contains: the 8 error patterns, or `"output"`. The encoding is not modelled.
  Neither is the environment merge in `spawn`.
- `StdinMode` leaves out `!options.stdio` of line 177: no caller passes
  `stdio`, so stdin is ignored unless input is given.


**TerminalSpawn.**
- The counter saturates at `MaxIt + 1`; only `it > MaxIt` matters. The run uses
  the real 500.
- The shell is modelled as `CreateFile` followed by `WriteTty`.
- `emulator` is what `spawn` found. A missing one makes `SpawnError` the
  next step (Node emits `error` on the next tick, before any timer). No
  listener is attached, so the adapter goes down with its interval.

**RstPreviewProvider.**
- A document stands for its source uri and its rendered uri.
- `stale` and `pendingFire` are history variables for the properties.
- `Update(us)` is one synchronous loop of `update` calls. The editor's order
  of `textDocuments` is free.

**RstPreviewRender.**
- Each element of `Reqs` is one call of `provideTextDocumentContent`.
- `Request` is the synchronous part: settings, `_cmd`, `finalName`, and
  `exec`.
- `ExecCallback`, `StatCallback` and `ReadCallback` are the three callbacks,
  each with every early `reject`/`return`.
- sphinx-build is the environment:
  - A build snapshots the saved source.
  - A build that exits 0 either rewrites the html, first truncating it and
    then writing it, or does not write `finalName` (`skip`). `skip` covers a
    document excluded from the project, or a `finalName` that
    `relativeDocumentationPath` computes wrongly.
  - Other builds exit non-zero, or, on win32, exit 0 with an exception on
    stderr.
- An html file is abstracted to the source version it was built from and
  whether its write is complete.

**RstPreview.**
- Joint steps:
  - a save of `Doc` is both a provider save and a new version for the builds;
  - `showPreview(Doc)` and a timer fire for `Doc` while its preview is open
    make the host call `provideTextDocumentContent`, which is `Request`.
- Calls for the other documents are not followed.
- Once the `Reqs` calls are used, the host's further requests are not
  followed either.

**PreviewPaths.**
- Paths are strings written as sequences of one-character strings, because
  the code cuts them by character count (`substring(this._input.length)`,
  `lastIndexOf('.')`). Fixed words are one letter: `r` for rst, `h` for
  html, `R` for rendered, `$` for `${workspaceRoot}`.
- `LastIndexOf`, `Substring`, `PathJoin` and `Normalize` model the
  JavaScript and node functions the code calls (clamping and swapped
  indices of `substring`; `path.join` drops empty and `.` parts, resolves
  `..` and keeps a trailing `/`). They are node's code, not the
  repository's, and have no map entry.
- The reference is what `sphinx-build -b html . <output>` writes when run
  in `input`: for each `.rst` file below `input`, the page at its relative
  path with `.html`. `ReadsOwnPage` compares the code's `finalName` with it.
- `Configure` is the user editing the settings; each
  `ProvideTextDocumentContent` reloads them, as the code does per call.

**ViewManager.**
- A text document is opened anew as a new `TextDocument` with a new `Uri`
  object. `inc[d]` counts the objects, and a view's key is `[doc, inc]`.
  `GetByUri` matches the key exactly, which is `indexOf`'s identity test.
- Each view registers a provider for the `rst` scheme. Its save, change and
  configuration listeners call `update(uri)` on that provider.
- The host (VS Code, not in the repository) behaves as follows:
  - it answers a provider's `onDidChange(uri)` by calling that same provider
    again when `uri` is open;
  - it opens a preview by asking the provider registered last;
  - it applies each answer when it arrives, and drops answers for a closed
    preview.
- A provider renders its own document (`python preview.py doc.fileName`),
  whatever the uri. A page is abstracted to its document and saved version,
  or to `NotRst` for the error snippet of a non-rst document.
- `Visible` is constant `FALSE`. `visible` compares the view's own
  `previewUri` object with editors' `Uri` objects by `===`, and no editor
  holds that object.
- `misdirected` is a history variable: some preview command has opened
  another preview than its uri's.
- `RendersBound` is a state constraint: at most `MaxRenders` python
  processes at once.

## Runs

| run | cfg | result | shows |
|---|---|---|---|
| sphinx_safety | `MC_SphinxExec.cfg` | pass | One call under fair event delivery. `ResultReflectsChild`: in every order of `exit`/`data`/`close`, the result holds the whole stdout, the whole stderr and the child's own code, and the kind is classified from the whole stderr. `StderrLogged`: stderr is logged after its command line, on success and failure, and never with `log: false`. `Termination`: the call settles, also when the spawn fails and `exit` never comes. |
| sphinx_listener_leak | `MC_SphinxExec_NoListenerLeak.cfg` | violation | spec §5 says listeners are released on the spawn-error path; the code skips `dispose` there |
| terminal_settles | `MC_TerminalSpawn.cfg` | pass | `SettlesUnlessDown` with the real limit of 500 polls, the emulator installed or missing: the poll loop ends |
| terminal_spawn_crash | `MC_TerminalSpawn_Settles.cfg` | violation | a missing emulator: `spawn` emits `error` with no listener, the adapter exits and the promise never settles |
| terminal_empty_tty | `MC_TerminalSpawn_ResolvesWithTty.cfg` | violation | a poll between redirection and `tty` resolves with an empty name |
| preview_safety | `MC_RstPreview.cfg` | pass | The debounce driving the calls of `a.rst`, with two overlapping calls on win32. `UpdatesFlushed`: every burst of updates is followed by a fire. `RequestsSettle`: every call settles. |
| render_stale_html | `MC_RstPreviewRender_PreviewMatchesSource.cfg` | violation | r1's build truncates the html; r2's build exits 0 without writing it; r2 stats and reads the half-written file and resolves with it |
| preview_lost_refresh | `MC_RstPreviewProvider_EveryPreviewRefreshed.cfg` | violation | saving `a.rst` arms the timer for `a.rst`, and a save of `b.rst` in the window is dropped; the open `b.rst` preview is never refreshed |
| views_safety | `MC_ViewManager.cfg` | pass | An rst and a plain document, with every order of commands, edits, saves, closes and answers. `PreviewLoads`: an opened preview always gets an answer. |
| views_cross_talk | `MC_ViewManager_PreviewShowsOwnDocument.cfg` | violation | with views for `a` and `b`, saving `a` makes both providers answer for `a`'s preview, and `b`'s answer puts `b`'s page in it |
| views_duplicate | `MC_ViewManager_OneViewPerDocument.cfg` | violation | `a` is previewed, closed, opened again and previewed: IDMap misses the new `Uri` object and a second view is created |
| paths_safety | `MC_PreviewPaths.cfg` | pass | `ReadsOwnPage`: for every document of up to three levels and every `confPath` (unset, by macro, with and without a trailing `/`, in full) and output setting, the preview of a document sphinx builds reads the page sphinx wrote for it. |

Five more configurations check properties that are not among the runs
(the project keeps at most twelve), and each finds a violation:
- `MC_TerminalSpawn_IntervalStops.cfg`: after the timeout rejects, the
  interval is never cleared and polls forever.
- `MC_PreviewPaths_NeverReadsOtherPage.cfg`: with `confPath` at the root
  `/a`, the preview of `/b/c.rst`, a document outside it, is cut at the same
  character count and reads `/o/c.html`, the page of `/a/c.rst`. A
  suffix-less document in a directory `c.rst` is cut at that directory's
  dot and reads the same page.
- `MC_SphinxExec_SuccessMeansExitZero.cfg`: spec §3 says an undefined exit
  code is a failure; `if (result.exitCode)` resolves on the `null` code of a
  child ended by a signal.
- `MC_ViewManager_PreviewOfRequestedUri.cfg`: `rst.previewToSide(uri)`
  throws when no text editor is active. When one is active, it previews that
  editor's document instead of `uri`.
- `MC_ViewManager_QuiescentPreviewCurrent.cfg`: the answer to the opening of
  a preview can arrive after the answer to a later save, and the older page
  stays.

### Bounds
- **SphinxExec:**
  - Exit codes `{0, 1, null}`.
  - stdout is empty or two chunks, so `exit` can fall between them.
  - stderr is empty, one classified line, or a warning followed by a line
    matching two patterns, so order and partial reads both matter.
  - A child that fails to spawn.
  - One call. Calls share only the log, whose entries name their call, so
    every property is decided per call. Two calls without symmetry took
    longer than the run's time budget.
- **TerminalSpawn:** the real 500.
- **RstPreviewProvider:** two rst documents and one document in another
  language.
- **RstPreviewRender** (`render_stale_html`): two overlapping calls, the
  fewest that race, and two saves.
- **RstPreview:** the provider's three documents, two calls for `a.rst`, and
  one save. Win32 is on, since its build kinds include every non-win32 kind.
- **PreviewPaths:** the root `/a`; every path of one to three of the names
  `a`, `b`, `c.rst` and `d.e` (84 documents, inside and outside the root and
  `/a/b`); five `confPath` values and two output values.
- **ViewManager:**
  - Two documents, one of them not rst. One save each. At most two renders
    in flight.
  - Each document is opened once, and twice in `views_duplicate`, which is
    what the identity test needs.
  - `views_cross_talk` uses two rst documents, with symmetry.

### Fairness
- **SphinxExec:** weak fairness on each child event. Node and the OS deliver
  every pending event of a spawned child. The spawn itself is not fair: a
  caller may never call.
- **TerminalSpawn:** weak fairness on `Poll`, since a scheduled interval fires, and
  on `SpawnError`, since the next tick runs.
  The shell gets no fairness, because the emulator may be missing.
- **RstPreviewProvider:** weak fairness on `Timeout`, since a `setTimeout`
  fires.
- **RstPreviewRender** and **RstPreview:** weak fairness on build steps,
  callbacks and the timer. Processes end, and the event loop runs queued
  callbacks. Saves and new calls are not fair.
- **PreviewPaths:** none; it has only safety.
- **ViewManager:** weak fairness on each provider answer, since every
  `python` process ends and its callback runs. The user's actions are not
  fair.

`CHECK_DEADLOCK FALSE` is used where the system really stops: every call has
settled, or the poll is over.

## Not modelled, and why
- `SphinxError.toString`, `errorSnippet`, `buildPage` and
  `createStylesheet` are formatting.
- `fixLinks` (both extensions) rewrites links in the page text with a
  regular expression, a string function on html that a unit test reaches
  directly. lextudio's rewrites every `src`/`href`, `http` and `#anchor`
  links included. tht13's skips `http` and `/` links.
- `RstPreviewRender` does not compute `finalName`: `PreviewPaths` does, and
  its `skip` build stands for a `finalName` that names no file.
- `getViewColumn` and `showSource` only choose an editor column or editor.
- `util.js` is not in the repository. `dispose` is assumed to remove every
  listener.
- Writing to stdin of a child whose spawn failed is not modelled.
- No abstract specification is refined. An abstract process call, or an
  abstract promise, was tried and dropped: each component's contract here
  is either a single guard of the code (settle once, reject on error) or
  the properties the runs already check, so a refinement adds no check a
  plausible code change could fail.
- Three hazards have no property:
  - the interval that outlives the timeout (`MC_TerminalSpawn_IntervalStops.cfg`
    shows it, outside the runs);
  - the tht13 listeners `dispose` never removes, which still run after
    `deactivate` but find no provider to render;
  - the win32 exception check, which is a single guard of `ExecCallback`.

## Plan
1. **Done:**
   - `SphinxExec`, the spec's core.
   - `TerminalSpawn`.
   - `RstPreviewProvider` and `RstPreviewRender`, composed in `RstPreview`.
   - `ViewManager`, the tht13 extension.
   - The missing terminal emulator in `TerminalSpawn`.
   - `PreviewPaths`, the lextudio path mapping.
2. Larger `ViewManager` instances: three documents, reopening, and
   `deactivate` with renders in flight.

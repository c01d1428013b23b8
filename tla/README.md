# Auto-LFS-Builder: verification project

TLA+ models of the parts of Auto-LFS-Builder that keep state across failures,
restarts, files and keys, TLC runs that check them on small instances, and proofs,
checked by TLAPS, that the main properties hold for every value of the constants.
Paths such as `lfs-build.sh:255` refer to the repository this directory stands
beside (`src/` in the project file); `kconfiglib.py` and `menuconfig.py` are those
of `docs/jhalfs/menu`.

## 1. The system and its parts

The repository builds a Linux From Scratch system with shell scripts run on a host
or in a container, from the books in `docs/lfs-git`, `docs/blfs-git` and
`docs/glfs`. What to build can be chosen with jhalfs' menu, two Python programs that
make up most of the repository's implementation: a Kconfig library and a text
interface over it.

| Component | State it keeps | Operations | Hard behaviour | What makes it correct |
|---|---|---|---|---|
| `lfs-build.sh` | archives and unpacked trees in `$LFS_WORKSPACE/sources`, the system in `$LFS`, `lfs-system.tar.gz`, the ISO | the 14 phases of `main`, run under `set -e` | killed or failing at any command, started again on what is left | parts in order; success only with a complete image; which leftovers are harmless and which stop every later run |
| `iso-creator.sh` | the ISO file | `create_iso_image`, sourced by the pipeline | overwrites in place; found through `$0` after a `cd` | the ISO announced is the one just made |
| `docker-compose.yml`, `Dockerfile`, `lfs-build`, `lfs-clean` | volumes and bind mounts, restart policy | start, automatic restart, `down -v`, `lfs-clean` | restarts without cleaning; cleaning that misses files | a failed build can be completed |
| `lfs-build-fixed.sh` | as `lfs-build.sh` | the same phases, each called as `if ! phase` | that form switches `set -e` off inside the phase | a phase that reports success succeeded |
| `scripts/download-enhanced.sh` | files in the sources directory, counters | `download_package`, `download_packages_enhanced`, `verify_all_packages`, `check_missing_packages` | retries, resumed downloads, corrupt files, `((x++))` under `set -e` | success means every file present and, where a checksum is known, correct |
| `src/parsers/dependency_resolver.py` | the depth-first search | `topological_sort` | cycles, dependencies outside the graph | dependencies first, every package once, an error exactly on a cycle |
| `kconfiglib.py`: values and cache | user values, cached values | `tri_value` and the other properties, `set_value`, `unset_value` of symbols and choices | values are cached when asked for and invalidated along registered dependents | no lookup serves a stale value; what may be assigned takes effect |
| `kconfiglib.py`: files | `.config`, `.config.old`, the minimal configuration, `autoconf.h`, `auto.conf`, a file for each symbol | `load_config`, `write_config`, `write_min_config`, `write_autoconf`, `sync_deps` | errors and crashes in a write; Kconfig files edited in between | a whole configuration survives; what changed is recompiled; what is written loads back |
| `kconfiglib.py`: loading | the menu tree, the conditions of each property, `_visited` | the parser, `_finalize_tree`, `_build_dep`, the search for dependency loops | nested blocks over several files, a tree rebuilt while it is walked, recursion through choices | the tree and the conditions are what the lines say; every loop is an error, and what is accepted can be evaluated |
| `menuconfig.py` | the menu and what it shows, selection and scroll, open dialogs, `_conf_changed` | every key, loading, saving, quitting, resizing | a change hides what is selected; jumps, show-all mode and loaded files in any order | the selected row is on the screen; no key ends in an exception; no change is lost unasked |
| `lfs-build-glibc-fixed.sh`, `scripts/glibc-fix.sh` | as `lfs-build.sh`, patched headers | the same phases; header patching | the same | the same |
| `src/common/*.sh` | none | logging, traps, a download that nothing calls | – | – |
| `src/parsers/documentation_merger.py`, `regenerate_all_scripts.sh`, `scripts/ci_pipeline.sh` | git checkouts of the books | pull each source, regenerate | one source of several fails | failures are reported |
| `src/parsers/lfs_parser.py`, `package_analyzer.py`, the books' `kernel-config.py` and `gen-changelog.py` | none | extract or render text | – | – |
| `generated/validation_suite.sh`, `src/validators/*.sh` | counts of failed checks | run checks, aggregate | a failed check hidden by the aggregation | exit status says whether every check passed |
| `fix-lfs-builder.sh`, `enhance-lfs-builder.sh` | the build script itself and backups | patch in place | second application, interrupted application | backup holds the original |
| `install.sh`, `arch-setup.sh` | installation directory | clone or update, write configuration | interrupted installation | an interrupted installation can be repeated |
| `scripts/arch-support.sh`, `scripts/arch-validation.sh` | detected platform | detection, version comparison | version numbers of unequal length | comparison is a total order |
| `monitor-build.sh`, `activate`, `src/builders/*`, `generated/complete_build.sh` | none | display, placeholders | none | – |

The shell components interact through files only: the container or a user starts
the pipeline, the pipeline reads and writes the sources directory and `$LFS`, and
nothing but the files carries state from one run to the next. What is hard there is
rarely concurrency; it is what a failed, killed or restarted run leaves, and which
failures a script notices at all: `set -e` means different things in a plain call,
in `if ! f`, before `|| true` and in a pipeline.

`menuconfig.py` calls `kconfiglib.py` directly: it reads cached values, assigns user
values, and loads and writes files through it. Both are sequential. What is hard is
the state that one call leaves and a later one relies on: a cached value, the list
of rows computed before a change, the flag that says whether anything needs saving,
a file half written, a symbol already marked as visited.

`PROJECT.json` lists every component with its status, the hazards with the lines
where they bite, and for each definition the lines it models.

## 2. Modules

| Module | Models | Uses |
|---|---|---|
| `LfsBuild` | `lfs-build.sh` with `iso-creator.sh`, `lfs-clean` and the container's restarts and volumes | – |
| `BuildContract` | abstract: what a script that delivers one artefact promises | – |
| `LfsBuildRefines` | the mapping of `LfsBuild` to `BuildContract` | `LfsBuild` |
| `LfsBuildFixed` | `lfs-build-fixed.sh` | `LfsBuild` |
| `DownloadEnhanced` | `scripts/download-enhanced.sh` | – |
| `DependencyResolver` | `dependency_resolver.py` | – |
| `KconfigEval` | how `kconfiglib.py` computes one value, and what it reads for it | constants `ExprValue`, `ExprItems` |
| `KconfigExpr` | the recursions of `expr_value` and `expr_items`, and a computation of everything | `KconfigEval` |
| `KconfigInstances` | small Kconfig files as the parser leaves them | `KconfigExpr` |
| `KconfigCache` | the cache of values and its invalidation | constants `Eval`, `Fresh` |
| `KconfigValues` | the cache with the evaluation, and what its values must satisfy | `KconfigCache`, `KconfigEval` |
| `KconfigUser` | user values, assignments, `load_config`, `needs_save` | – |
| `KconfigFiles` | configuration and dependency files, and the make that follows | `KconfigUser`, constant `Values` |
| `KconfigSaved` | those files with the values of the evaluation: what loading a saved file gives back | `KconfigFiles`, `KconfigCache_proofs` |
| `KconfigParse` | the parser of Kconfig files | – |
| `KconfigTree` | `_finalize_tree` | `KconfigParse` |
| `KconfigLoops` | the search for dependency loops | – |
| `KconfigLoad` | `Kconfig.__init__`: parser, tree, dependents and search together | `KconfigTree`, `KconfigLoops`, `KconfigExpr` |
| `MenuShown` | which nodes a menu lists, what a search lists, which texts are valid | `KconfigExpr` |
| `MenuInstances` | small menus | `KconfigInstances`, `MenuShown` |
| `Menuconfig` | `menuconfig.py` | `KconfigUser`, constant `Values` |
| `MenuconfigFits` | what the theorems about `menuconfig.py` ask of Kconfig files and their evaluation | `Menuconfig` |
| `MC...` | instances for TLC, and properties that need the evaluation | the module named |
| `..._proofs` | theorems and proofs | the module named |

The evaluation of Kconfig values is recursive, and the prover treats no recursive
operators. `KconfigEval` therefore has one level of each recursion (`ExprStep`,
`ItemsStep`) and takes the recursive operators as constants: `KconfigExpr` declares
them recursive for TLC, and the proofs take from them only that they satisfy these
equations on finite expressions. `KconfigCache`, `KconfigFiles` and `Menuconfig` take
the evaluation itself as a constant operator (`Eval`, `Values`). `KconfigCache` shows
that every value the code reads from its cache is the one computed afresh;
`KconfigFiles` and `Menuconfig` rest on that and use the values themselves.
`KconfigSaved` puts the two together: it says of `Values` that they are what the
evaluation, with an empty cache, gives, and takes its lemmas from
`KconfigCache_proofs` by an INSTANCE.

Operators called mutants stand before the action they change. They are no part of
the specification: each is a bug that could be made there, and shows that the
property it breaks depends on the code.

### KconfigEval and KconfigCache

An entry is `<<attribute, item>>`. `KconfigEval` computes one entry from those in
view and returns the value with the set of entries it read, so that the code's short
circuits decide what a cached value depends on. `Fresh(k, u)` is what the user values
`u` make of every entry when nothing is cached. In `KconfigCache` a `Fill` is the
end of one property's computation: a property that is not cached yet is computed
after those it reads, which is what the recursion of the code does. `SetValue`,
`UnsetValue`, `SetMode` and `UnsetChoice` are `set_value` and `unset_value` of
symbols and choices with the invalidation they start (`_rec_invalidate`, which goes
on only through items whose visibility is cached, and invalidates everything at
`MODULES`).

### KconfigFiles

A file is there or not, and has lines: the function from symbols to their values.
A write is three steps, so that the process can stop between them:
it is asked for, `OpenForWriting` leaves the file empty, `FinishWriting` fills it;
`Fail` is an error or a crash at any point, which may leave any part of the lines,
and the next process (`Start`) reads what is left, perhaps with edited Kconfig files.

| Code | Action |
|---|---|
| `set_value` and `unset_value` by whoever uses the library | `Edit` |
| `load_config`, `load_allconfig` | `LoadConfig`, `MergeConfig` |
| `write_config` with `_save_old` | `WriteConfig`, for each way the backup goes (renamed, copied, failed) |
| `write_min_config`, `write_autoconf` | `WriteMinConfig`, `WriteAutoconf` |
| `sync_deps`, `_touch_dep_file`, `_write_old_vals` | `SyncDeps`, `Touch`, `WriteOldVals` |
| make | `Compile`, `BuildDone` (external, as the comments on `sync_deps` describe it) |

### KconfigParse, KconfigTree, KconfigLoops and KconfigLoad

`KconfigParse` reads lines, as the tokenizer makes them, from a stack of open files
(`include` and `readers`, the include path and the file stack of the code);
the recursive `_parse_block` is the stack `blocks`, with what `_parse_properties` is
working on in `prop`. It is a module of its own because it can be proved about:
`_finalize_tree`, in `KconfigTree`, is recursive over the tree. `Finalize` is `_finalize_tree`, in one step, as operators over
the nodes and what is known of each symbol. The lines a file has are chosen while it
is read (`NextLines`), so one run goes through all files that can be put together;
`stream` keeps the lines met, and what the properties compare with is defined from
them alone.

`KconfigLoops` is `_check_dep_loop_sym` and `_check_dep_loop_choice` with the stack
of their calls explicit. `KconfigLoad` composes both: `CheckSanity` is the error of the
sanity checks (a default that is no symbol, of a choice, a string or a number), and
`BuildDep` (`_build_dep` and `_add_choice_deps`) turns what was parsed into the graph
that is searched.

### Menuconfig

One record, `ui`, is the main display; `dialogs` the stack of open dialogs; `vals`
what the user values give, with the list each menu shows. Every key of the main
display and of the dialogs is an action: `Down`, `Up`, `End`, `Home`, `Page`,
`Space`, `Enter`, `SetTriVal`, `Leave`, `ToggleAll`, `ToggleHelp`, `Load`, `Save`,
`SaveMin`, `Quit`, `Info`, `OpenJump`, `Search`, `SelectMatch`, `Jump` and so on. A
page key is `PgJump` steps of one row in the code as in the model (`PageStep`), so
that the properties hold between them. A lookup that would raise ends in the outcome
`crash`. The files a user names may be missing, and writing may fail, leaving any
part of the file.

## 3. Runs

Each property answers one or more hazards of `PROJECT.json`.

| Run | Checks | Shows |
|---|---|---|
| `lfs_build` | `PrerequisitesInstalled`, `SuccessIsWhole`, `WholeImageIsComplete`, `CleanBuildsAreSound`, `FailsForACause`, `WedgedUntilCleaned`, `ImplementsContract`, `FailedBuildRecovers` | parts in order; success means complete; a run without a fault fails only over leftovers of a failed one (a build directory, a damaged archive), which stop every later run until `lfs-clean`; the pipeline implements `BuildContract`; with `lfs-clean` after failures a failed build is followed by a completed one |
| `lfs_build_fixed` | `CheckedPartsInstalled`, `CleanedIsSound`, `FixedFailsForACause`, `FixedRecovers` | what the explicit checks guarantee when everything else may fail unnoticed; `rm -rf glibc-2.39` (392) is not checked either, so that only a run that no fault hits is sure not to build glibc from leftovers |
| `download` | `SuccessIsComplete`, `FailsOnlyByFault`, `VerifiedFilesKept`, `RetrySucceeds` | success means every file complete and, where a checksum is known, right; earlier calls never make a later one fail; retrying works |
| `dependency_resolver` | `DependenciesFirst`, `ResultIsRight`, `Terminates` | for every book about three packages: a right order or a real cycle, always an end |
| `kconfig_cache` | `CacheCoherent`, `ReadsRegistered`, `ValuesAreFresh`, `AssignableRespected`, `OnlyWhatIsAllowed` | after any lookups and assignments the cache holds what the user values alone determine; `assignable` tells the truth; nothing but a select overrides dependencies |
| `kconfig_files` | `TypeOK`, `BackupSurvives`, `ObjectsUpToDate`, `RoundTrip`, `MinConfigIsEnough`, `NoSaveMissed` | the last whole configuration survives a failed save; interrupted syncs and builds leave no stale object; full and minimal configurations load back to the same values; a configuration that says it needs no saving needs none |
| `kconfig_load` | `TypeOK`, `TreeIsRight`, `ConditionsAddUp`, `AcceptsRightly`, `LoopReported`, `EvaluationOrder` | for every way to put the pieces together: the tree and every condition are what the lines say, exactly the well-formed files are accepted, a loop found is one, and an accepted file has an order to evaluate it in |
| `menuconfig` | `SelectionVisible`, `NeverCrashes`, `NothingLost`, `RowsOfParents` | under every sequence of keys and resizes the selected row is on the screen, no lookup fails on these menus, and quitting loses nothing unasked |

Runs that TLC refutes, each a claim of the repository:

| Run | Claim | What happens |
|---|---|---|
| `lfs_build_resumed` | README.md:41 "Resumable: Can continue from interruptions", DOCKER.md:138-146 `down` "preserves progress", `up` resumes, `down -v` and `up` "clean and restart" | a run stopped while gcc's `build/` was there leaves it in a bind mount; every later run fails at `mkdir -v build` (lfs-build.sh:255), resumed or restarted after `down -v` |
| `kconfig_choice_outside` | kconfiglib.py:3390-3393 "handled automatically since the Choice is propagated to the conditions of the properties", 1205 "invalidation must be rock solid" | a choice symbol with its prompt in a definition outside of the choice is not registered with it: setting another one leaves stale values |
| `kconfig_loop` | kconfiglib.py:6385-6388 marked 2 means "not part of a dependency loop" | a symbol reached through its choice is marked without the others being followed from it; the file is accepted and evaluating it never ends |
| `menuconfig_crash` | menuconfig.py:1160-1161 Left "jumps to the parent menu" | after a jump to a visible comment in a hidden menu, Left looks the menu up where it is not listed: ValueError |

### Bounds, and why they are enough

- Packages: one of each kind (cross tool with bundled library, headers, glibc in
  its own directory, tool built in its tree). Packages meet only through
  their order, and two of the four have a build directory, so that one can be wedged
  before and one after the other; `lfs_build_resumed`, where one interruption is
  enough (`MaxFaults` 1), has three packages. The proofs cover any number.
- `MaxFaults`: 2 faults for the pipelines. One leaves something behind, the second
  hits the run that meets it; runs, restarts and cleanings are not bounded.
  4 for the download: three use up the attempts of one package and one is left.
- `Settings`: the container's and two of a host, so that every switch, and both
  ways to start the script, occur on and off.
- Books: all functions from three headings to lists of at most two entries,
  repetitions and self-dependency included; requests with a heading left out, with
  another spelling, and with both spellings of one.
- Kconfig files of `kconfig_cache`: a tristate choice with a bool and a tristate
  symbol under `MODULES`; selects and implies into a symbol with defaults; integers
  whose ranges and defaults are other symbols; an optional choice. Together they
  reach every branch of the evaluation and each way one value enters another.
- `kconfig_files`: these four, and a file edited from `Before` to `After` (the
  symbol `A` is removed, and `N`, which depended on it, is free), for builds and for
  saves apart: both share nothing but the user values. `saves` counts to 2, enough to
  tell the first save after a whole one from a retry.
- `kconfig_load`: `MaxPieces` = 4 of 14 pieces (definitions with a prompt or a
  select, `if`, menu, choice, comment, `source`), in a root file and one it includes,
  so that blocks open and close across files, nest, and a symbol is defined twice;
  the family `nest` has deeper files, `loops` choices that symbols outside depend on.
- `menuconfig`: nine configurations, each with the groups of keys it is about
  (`does`) and terminals with windows of one to four rows, so that lists are longer
  than, as long as and shorter than the window. `ScrollOffset` is 1 and `PgJump` 2
  where the code has 5 and 6: the window is smaller than both in some runs and larger
  in others, as in the code. Windows below a dialog that fills the screen may be cut
  by curses or not: `Resize` allows both.

### Fairness

- `LfsBuild`: `WF(Step)`, a running script goes on (make has a timeout, wget its
  tries); `WF(Rerun)`, `docker-compose.yml:148 restart: unless-stopped` starts it
  again; `SF(lfs-clean)` stands for an operator who cleans up if the build fails
  again and again, and is needed: without it a wedged build fails for ever, as
  `WedgedUntilCleaned` says. `ComposedSpec`, of `lfs_build_resumed`, has instead what
  the documentation has the user do: `SF(DownVolumes)` while the build fails, and
  nobody runs `lfs-clean`. `down -v` removes volumes by name, but all of them, and the
  workspace, are bind mounts (docker-compose.yml:19, 178-217), whose files stay.
- `DownloadEnhanced`: `WF` on the work of a call, `SF` on the next tested call of a
  user who keeps trying, between whatever bare calls.
- `DependencyResolver`: `WF(Next)`, the program runs.
- `kconfiglib.py` and `menuconfig.py` wait for their user: only safety is stated.

Deadlock is checked in the pipelines, the download and `kconfig_load` (where a
result, accepted or an error, is the only place to stop). The resolver's call ends;
the user of `KconfigCache` and `KconfigFiles` may have asked and assigned all there
is; `menuconfig` is quit.

## 4. Proofs

All proofs are for every value of the constants, under the assumptions the modules
name and TLC evaluates: for the pipelines, the order lists each package once, what it
lists is downloaded, and the headers come before what is cleaned (fixed script);
requests name no package twice; a Kconfig instance is made of parts that fit
together (`ItemsRight`), and what is entered in it is valid.

- **`LfsBuild_proofs`**: the safety properties of `lfs_build`, `NoSuccessWhileWedged` and
  `TypeOK`.
  None is inductive. `IInv` adds what each stage relies on: the download loop left
  no archive out (`DownloadInv`); packages before the current one are installed,
  their trees gone and their archives whole, and the current one has come as far
  as the stage says (`BuildInv`); after the build phases all packages are in, then
  the wanted files, then the image that holds them (`AfterInv`). `BuildInv` needs
  "archive whole" and "tree gone" for `NoSuccessWhileWedged`, and "tree made" at
  the install step for `CleanBuildsAreSound`. `WedgedUntilCleaned` is an action
  property: one case for each way a tree or an archive can change. `Refinement` is
  `Spec => ImplementsContract`: each action maps to one action of the contract or to
  a stutter, with `IInv` and `ImageInv` (no image is fresh until the run has made its
  own).
  In the same module, the safety properties of `lfs_build_fixed`. The
  invariant has the same shape, but weaker parts (`InPlace` allows cut headers);
  `HeadersInv` ties missing headers of a run without faults to a damaged archive,
  which the failure of glibc's prerequisites needs. `CleanInv` follows the tree of
  glibc through the steps of a run without a fault of its own, whatever earlier runs
  left: `CleanedSound`. A run whose own `rm -rf` of the tree fails unnoticed
  (`RemoveOldCut`) may build it from what is left.
- **`DownloadEnhanced_proofs`**: the safety properties of `download`. `IInv` says
  that while none failed every package the loop has passed is in order
  (`TakenAreFine`), what the file in hand may be (`InHand`), and that a counted
  failure means a fault (`Running`).
- **`DependencyResolver_proofs`**: an order returned is complete, without
  repetition, dependencies first and only for a graph without a cycle; the error
  means a cycle. The invariant follows the recursion: `Calls` (the stack is the
  nodes being visited), `Chained` (each call made the next for a dependency, which
  gives the cycle when one is found again), `Explored`, `Settled` and
  `SettledIsAcyclic` (what is finished depends on finished nodes only and holds no
  cycle), `Ordered` and `Progressed`.
- **`KconfigCache_proofs`**, in three steps.
  *Any evaluation.* If the dependents that are registered cover what the computations
  read, and a computation that reads anything caches the visibility of its item
  (`ReadsRegistered`), no sequence of lookups and assignments leaves a stale value
  (`NoStaleValue`). This is the argument the comments at kconfiglib.py:1205 and 4694
  rest on: what `_rec_invalidate` leaves cached has read nothing that it has thrown
  away (`SurvivorsKeepReads`), although it stops at items without a cached
  visibility. If a computation depends on what it reports to read only, every cached
  value is the one a computation from nothing gives (`FreshValues`).
  *The code's evaluation* is such a one in every well-formed instance
  (`CodeReadsRegistered`, `CodeCacheCoherent`, `CodeValuesAreFresh`): lemma by lemma,
  what each function of `KconfigEval` reads is near its item (`Proper...`) and it
  reads alike where what it read is alike (`Like...`); expressions are treated by
  their depth (`ExprReads`, `LikeExpr`). The premises are `TheEvaluation` (the
  equations of `expr_value` and `expr_items`, finite expressions, `WellFormed`) and
  `FreshSolves` (values can be computed at all: no dependency loop). TLC evaluates them
  on the instances. `WellFormed` is what the parser and `_build_dep` leave, except
  that it rules out three things a file can have: a choice symbol with its prompt in a
  definition outside of the choice (`kconfig_choice_outside` shows what then happens),
  a choice default that is not one of the choice's symbols (kconfiglib only warns),
  and a selector with several definitions whose dependencies only the warning about
  unmet selects reads.
  *The values.* `CodeValuesAllowed` is `OnlyWhatIsAllowed` for all user values,
  under `FreshDependenciesMet`: `direct_dep` is met where a prompt or a default of the
  symbol applies, which is what `_propagate_deps` and `direct_dep` come to
  (`kconfig_load` checks the conditions themselves, `ConditionsAddUp`). The heart is
  `VisibleInChoice`: in a y-mode choice a symbol is fully visible or not at all, so
  that all but the selection are n.
  `CodeAssignableRespected` is `AssignableRespected`: after any assignments, of what
  `set_value` can give a bool or tristate symbol exactly the values in `assignable`
  become its value, and of a choice symbol's those do. Two functions that read
  different things have to agree across a change of the user values, so the proof goes
  along the order in which values depend on each other (`Ordered`, a rank for every
  entry; `Agree` is the induction, by a least counterexample): nothing that the
  visibility of the symbol rests on reads the user value or the pick that `set_value`
  changes (`UsersReadOnce`, `AssignmentKeeps`), `PlainTriIs` and `AssignableIs` put the
  two functions side by side, and in a choice a symbol as visible as y means y mode
  (`VisibleMeansYes`), where the pick is the selection (`PickedIs`). Its hypotheses,
  evaluated by TLC on the instances: `FreshAssigned` (values can be computed after any
  assignment too, in an order of the instance, and the prompts of a choice's symbols
  depend on the choice, as the parser makes them) and `FreshSelectsRight` (selects give
  n, m or y, choice symbols are neither selected nor implied, which kconfiglib warns
  about, and the case that `_assignable` has wrong, in section 5, does not come up).
  *Saying it again.* The last part is for the files: user values that say again what
  the values are give them back (`SaidAgain`). It has to be said only of what is
  asked for (`SaysAgain`): the mode of a choice, unless it is the one without a user
  value; the selection in y mode, unless it is the default one; the values of visible
  symbols, unless they are the default or selected. Two computations that read other user values
  but are alike in what they make of them have to agree all the way up (`Alike...`); the
  values as they are, with the new user values put in (`With`), solve the evaluation
  again (`SolvedAgain`, with one lemma for each kind of symbol: `TriAgain`,
  `MemberAgain`, `TextAgain`, and `ModeAgain` and `SelectionAgain` for choices), and
  without a loop there is one solution only (`Agree`).
- **`KconfigUser_proofs`** holds what the next and the last share: what is entered or
  loaded from fitting lines is again one of the user values there can be
  (`SetFits`, `LoadedFits`).
- **`KconfigFiles_proofs`**: `TypeOK`, `BackupSurvives` and `ObjectsUpToDate`, for any
  evaluation and any edits of the Kconfig files. For the last, `ObjectsInv` says
  that a symbol whose object is up to date with its file has in `auto.conf` the value
  the object was made with, or is on the list of those still to be touched: a sync
  that stops halfway and runs again with other values loses nothing.
  `NoSaveIsMissed` is `NoSaveMissed` under two hypotheses, which TLC evaluates on the
  instances. `ValuesValid`: values that are written are valid, and a user value that
  counts, and is not n, is written (a string that is empty because it is hidden is the
  one exception in the code). `TypesStay`: editing the Kconfig files takes no value
  away from a symbol that stays, as turning a tristate into a bool would. The invariant
  `LinesInv` follows every line of `.config` back to the instance that wrote it, through
  renames, copies, interrupted writes and restarts with edited files.
  `CodeRoundTrip` and `CodeMinConfigIsEnough` are `RoundTrip` and `MinConfigIsEnough` for
  the evaluation of the code. `LoadedLinesAre` is what `load_config` makes of lines
  with valid values, whatever was set before: user values, and the mode and the pick of
  a choice inferred from those of its symbols that are not n. `MemberShown` (proved in
  `MembersAre`) is what the lines of a choice's symbols can be: one y, the selection, in y
  mode; m or n in m mode; so that what is inferred is the mode and the selection there
  was (`LinesSay`). The lines that `_min_config_contents` leaves out are those that
  `SaysAgain` need not hear of (`MinLeaves`). Hypotheses (`SavingRight`, evaluated by TLC on
  the instances, but for the equations of the recursion that `TheEvaluation` has):
  those of `NoSaveIsMissed`; that the values are the only solution of the evaluation
  (`FreshSolved`); that the instance is as the parser and the types leave it
  (`FreshRight`: dependencies are met where prompts apply, the symbols of a choice are bool
  or tristate and in no other choice, the bounds and defaults of an int are numbers);
  and `FreshSavable`, which a Kconfig file can break, and loading then gives another
  value: a default y of a tristate that is visible as m only (it is written as y and
  loaded as m), and a choice that has a mode other than the one without a user value but
  only symbols that are n (nothing in the file tells its mode).
- **`KconfigLoad_proofs`**, in two parts.
  *The parser* (`ParseSpec`, the part of `LoadSpec` before `Finalize`), for any number
  of files, any lines in them and any depth: `ParserAcceptsRightly` is
  `AcceptsRightly`, `ParserTypeCorrect` is `TypeOK`, and `NodesSayWhereTheyAre` is the
  part of `TreeIsRight` about the file and line number of each node (`WhereItSays`).
  The one hypothesis, `LinesRight`, says that what follows in a file is a line, one of
  `Line`, which the lines of the tokenizer all are.
  What is accepted is defined from the text that was read, what the parser does by
  its stacks; the invariant `ParserInv` relates the two. `TextOK`: in
  each file what was read is right so far, and a file that was read to the end has
  all its blocks closed, and sources only files that were read to the end, none of
  which leads back to it (`Acyclic`).
  `PathOK`: the open files are a path, each sources the next one at the line it
  stopped at, no file is on it twice, and what a file sourced before that line is
  done. `CallsOK`: for some sequence `K` that says in which file and at which line each
  running `_parse_block()` call began, the calls are the blocks that are open
  there, in their order, each as deep as its place, each with the end that
  closes it, and a call of a file has the files that its source line has still to
  enter. `PropFits`: properties go to the node of the last line before them that is no
  property. `Placed`: a node is at its line. Each action has a lemma (`EntryParsed`,
  `BlockParsed`, `EndParsed`, `SourceParsed`, `EofParsed`, `PropertyParsed`), which
  puts together what the line does to each of these.
  That a file is accepted needs both directions: an error means that the text, whatever
  is still unread of it, has the fault (an end that closes nothing in its own file,
  `MismatchIsWrong`; a file found on the include path is on a cycle of files,
  `LoopIsWrong`), and when the last file ends every file that was begun is done and none of
  them leads back to itself (`AcceptedIsRight`).
  *The search*: whatever the graph of dependents and choices, a loop
  the search meets is raised and is one (`LoopsAreReported`), and in an accepted
  graph every symbol ends after all its dependents (`AcceptedIsOrdered`). The theorems
  are about `SearchSpec`, the search from any graph; `KconfigLoad` runs it on the graph
  of a parsed file. The invariant follows the recursion as in the resolver, with
  calls in two kinds: along a dependency, or from a choice to its symbols and back.
  `Mixed` (the calls of a choice and of its symbols alone do not come back to where they
  were) gives a loop at least one dependency. What `kconfig_loop` refutes is stronger:
  the edges a choice adds are not among those this order respects.
- **`Menuconfig_proofs`**: all four properties of `menuconfig`, for every instance,
  height, `_SCROLL_OFFSET` and sequence of keys, with the hypotheses of
  `MenuconfigFits` about the Kconfig files and their values; `MCMenuconfig` has TLC
  evaluate these for all user values of every instance.
  `SelectedRowIsVisible`: the invariant `Inv` adds to `SelectionVisible` that `shown`
  lists nodes in show-all mode as in normal mode, what dialogs may be stacked, and that
  below a dialog that fills the screen the main display need not fit, but is refitted
  when it comes back. It is under `ValuesShown`, true of `_shown_nodes` unless a choice
  with several definitions names a symbol in more than one of them.
  `RowsAreOfParents` (under `ShownInside`): the menus above are a chain, and there is
  at most one remembered row for each, also after a jump (`Rowed`).
  `NothingIsLost`: the user values are always such as can be given and files such as
  can be written (`Data`), and while the flag that asks about saving is down the file
  named last gives every symbol its value (`Kept`). What loading gives back is taken
  from the evaluation (`SavedLoadsBack`, `MinLoadsBack`, `LoadForgets`).
  `NoKeyCrashes`: whatever is looked up is in the list it is looked up in (`Found`).
  Two of its hypotheses a Kconfig file can break, and each is a crash then:
  `MenusShown` (a menu that shows something is shown itself; `menuconfig_crash` breaks
  it with a comment in a hidden menu) and `ChangesShow` (changing a node leaves it in
  the list). The other hypotheses hold but for a choice defined in several places,
  which is the third way seen to a crash (section 5).

Only model-checked, and why:

- `FailedBuildRecovers`, `FixedRecovers`, `RetrySucceeds`, `Terminates`: liveness under
  fairness, which the prover cannot treat.
- `TreeIsRight` but for where the nodes are, and `ConditionsAddUp`: the passes over the
  tree and the definitions they are compared with are recursive.
- the refuted claims.

## 5. Seen while modelling, without a run

In the shell scripts:

- Nothing computes a checksum in `lfs-build.sh`, though DOCKER.md:102 says
  "Checksums verified" and line 74 says so of `wget_download`.
- DOCKER.md:69 sets `CREATE_ISO: "true"`; in the container `$0` is `./lfs-build.sh`,
  the run has changed directory when line 622 looks beside it for the ISO creator, no
  ISO is made and success is reported. The announcement (lfs-build.sh:676, 681) tests
  only that an ISO exists, so that one of an earlier run is announced.
- `run_verbose make headers || return 1` (lfs-build-fixed.sh:363) tests the status
  of `set +x`; the masked failure is the action `HeadersCut`. A failing tar of the
  image (706, 744) is not noticed either.
- The unpacking of mpfr, gmp and mpc may fail unnoticed (lfs-build.sh:276): gcc is then
  built doubtfully, and `CleanBuildsAreSound` excepts it. glibc's prerequisites
  (lfs-build-fixed.sh:381) are two directories, whatever is in them.
- `cd` to the sources directory (download-enhanced.sh:259) failing in a tested call
  has the files fetched into the directory the shell is in, and success reported. The
  model takes the directory to be there.
- "All packages downloaded and verified successfully!" (download-enhanced.sh:327)
  is also said of files that have no checksum, and "All packages are present"
  (405) of files cut short. Sourced and called as its usage says (425-428), the
  function ends the shell at the first `((downloaded_count++))`.
- `dependency_resolver.py` compares names as written (37, 89): one spelled in
  another case than the book's is no dependency any more.

In `kconfiglib.py`:

- `unset_value` of a choice symbol leaves the `user_selection` of its choice, and
  `load_config(replace=True)` leaves that of a choice the file sets. `RoundTrip` shows
  that the file's values come out all the same.
- A symbol that is no longer defined but still named in an expression is not touched
  by `sync_deps` (1757-1766); `ObjectsUpToDate` therefore assumes `NamesStayDefined`.
  After an interrupted write of `auto.conf` a symbol that goes to n is not touched.
- A default y under a prompt whose visibility is m is saved and loaded as m.
- The minimal configuration loses the y mode of a tristate choice whose selection by
  default is a bool symbol (`LosesMode`).
- Retrying a failed save makes the torn `.config` the backup: `BackupSurvives` is
  about the first save after a whole one.
- `needs_save` is false where saving would only drop "# X is not set".
- A prompt condition `A != y` makes a symbol a submenu of A, though it is visible
  when A is n (`SubmenusDepend` allows for it).
- `visible if` on a config, and a type or a `prompt` in a menu or comment
  (kconfiglib.py:3157, 3171), raise AttributeError instead of a parse error;
  `AcceptsRightly` takes each as a refusal of the file.
- An imply of y raises a symbol above direct dependencies of m.
- `_assignable` allows only m for a symbol with visibility m and a select of m whose
  implies are y.
- `_found_dep_loop` lists selects under the heading for implies.

In `menuconfig.py`:

- Besides `menuconfig_crash`: with a tristate `A if P` that has a default y and P at
  m, Space raises at `.index` (1584); a choice defined in several places can make the
  lookups of its symbols fail; a range whose bound is an int symbol without a value
  raises ValueError at line 3083, against the comment at 3063.
- An error in the middle of `load_config` leaves a part of the file loaded, the rows
  not updated and "No changes to save"; after a failed save the flag that asks about
  saving is not set again (`NothingLost` excepts a file whose last write failed).
- The keys n, m and y set the symbol of a node that is itself invisible.

## 6. Not modelled

- Shell: logging, colours, timing, the contents of configuration files and the
  options of configure; the host's tools (`validate_environment` passes or fails as a
  whole); the building of the container's image; which tool makes the ISO.
- Kconfig: the tokenizer and the preprocessor (macros), help texts, options and
  warnings, hex symbols (integers in another base) and symbols without a type,
  comments and headers in files; `menuconfig`'s drawing, styles, the editing of a
  text and the scrolling of the information dialog.
- The glibc variant is `lfs-build.sh` with other configure options and one patched
  header; a model of it would repeat `LfsBuild`.
- The documentation scripts, the validation suite, the installer and the patching
  scripts are single passes of commands whose outcome is their exit status, over
  state (git checkouts, a host system) that a model would have to invent.
- The parsers and generators (`lfs_parser.py`, `package_analyzer.py`,
  `documentation_merger.py`, the books' `kernel-config.py` and `gen-changelog.py`) read
  text once and print text.
- `monitor-build.sh`, `activate`, the builder stubs and `generated/complete_build.sh`
  keep no state.

## 7. What is left

In the order of what it would add:

1. `fix-lfs-builder.sh` applied twice and after an interruption (line 10 copies the
   file it has already patched over the backup), and `install.sh` over an interrupted
   clone.
2. A menu tree of `KconfigTree` as the input of `Menuconfig`, for menus with nested
   choices and implicit submenus that no instance was written for.
3. `FreshSolves` and the ranks of `FreshAssigned` from the order `KconfigLoops` proves
   of an accepted file, which would tie the proofs about the cache to those about the
   search for loops.
4. A contract for the fixed script that says what a masked failure may cost.

# Verification of project-map

TLA+ specifications of `project-map`, the command line that renders a
repository into `PROJECT_MAP.md` and, optionally, into a machine-readable facts
artifact, keeps both honest with `build --check`, ratchets unclassified call
sites with `--strict`, locks out old releases with a version floor it raises
itself, and installs a git hook and a Claude Code hook and skill. TLC checks
small instances; TLAPS proves the properties of builds, of the installers, of
the inbound half of a detection report and of the document, and those of
the Go router walk that no recursive reading is needed for, for every instance.
Paths below are relative to the repository
root, which the manifest sees as `src/`.

## Inventory

| part | state | operations | what is hard | what makes it correct |
|---|---|---|---|---|
| commands (`src/cli/commands.ts`) | `process.exitCode`, the four outputs | build, check, facts, init | every await interleaves with editors and other runs; kills; failing writes; an order of exit codes | a passing check means current outputs; a build is a fixed point; the floor rises behind complete builds only |
| configuration (`src/infrastructure/config`) | `.project-map.yaml` | load, refuse, scaffold, amend one value | read at the start, amended at the end from a second read | the floor never decreases; what is amended does not invalidate what was rendered |
| version arithmetic (`src/core/domain/tool-version.ts`) | none | compare, raise | boundaries of major, minor, patch | a raise locks out older lines only |
| source reading (`src/infrastructure/analysis-unit`, `filesystem`) | none | walk, read one by one, resolve locators | torn scans, vanishing files, two scans per build | one analysis unit, rendered twice |
| facts check (`src/cli/facts-check.ts`) | committed artifact | verdict 0, 1, 3, 4 | precedence of verdicts; half-written artifact | only a current artifact passes |
| ratchet (`src/features/detect/merge/ratchet.ts`, `src/cli/unclassified-baseline.ts`) | baseline file | unlisted, stale | both directions; read after the writes | exact in both directions |
| Go router walk (`src/features/detect/inbound/go`) | registrations, mounts, entered bodies with their distance, anchors | walk declarations in two passes, follow edges, mounts and closures, anchor serve roots | cyclic call graphs, one body reached at several distances, a budget of edges, two walks of one body | the nearest walk decides; a route published with a path is served; no site is dropped |
| Python inbound (`src/features/detect/inbound`) | anchored sites, drafts | read serving calls, read registrations | what an application holds, through attributes, lists, bases and imports; hierarchies that meet again | a registration has a path exactly when a served application holds it |
| outbound (`src/features/detect/outbound`) | drafts, consumed offsets, candidates | four tiers per call site; Go sends per method | who claims a site; records, embeddings and constants read without running; offsets of several files | every claim is emitted once; what is published is what is sent |
| merge and report (`src/features/detect/merge`) | the fact set | merge, resolve, cross-check, cover | order of the drafts; unproven routes that look alike | same facts in every order; nothing merges that is not proven equal |
| document build (`src/features/build`) | results and errors of five extractors | extract concurrently, render | extractors settle in any order and fail apart; homonyms; types spread over files | a failure costs its own section; headings tell types apart; a type has its own members |
| installers (`src/features/install-hooks`) | git hook, `settings.json`, skill | install, reinstall, refuse | read-modify-write of files others own; two awaits between a script and its mode | what a person saved is not lost; the hook is filed once; the gate holds |
| parser, clock, logger, revision | none | adapters | third-party | not modelled |

The commands call the others in one order: load the configuration, scan and
extract, materialize the analysis unit and detect, render, then either compare
(check) or write, ratchet and amend the floor. Detection goes declared
contracts, routes, merge, sends, report. The only shared state is the working
copy: sources, configuration, baseline, outputs, and for the installers the hook
and the settings.

## Modules

| modules | models | proofs |
|---|---|---|
| `ToolVersion`, `VersionFloor`, `BuildRuns`, `MCBuildRuns` | the commands over the working copy, and the abstract floor they implement | `BuildRunsProofs`, `BuildCurrencyProofs`, `BuildOutputsProofs` |
| `GoRouterScope`, `NearestWalk`, `RouterReach`, `MCGoRouterScope` | the router walk; two other readings of the same unit to compare it with | `GoRouterScopeProofs` |
| `ValueIr`, `FactMerge` | values, paths, identity, merge, resolution, cross-check, coverage | `FactMergeProofs` |
| `PythonUnit`, `PythonInbound`, `PythonOutbound` | names, imports and hierarchies of Python; routes; sends | |
| `OutboundLadder`, `GoOutbound` | where a destination is taken from; sends of Go methods | |
| `InboundFacts` | what a detection does with its endpoints, whatever reads the sources | `InboundFactsProofs` |
| `Detection`, `DetectionClaims`, `GoExecution`, `MCDetection` | the use case over all of these; its promises; Go bodies executed | |
| `Headings`, `DocumentBuild`, `MCDocumentBuild` | the extractors and the document | `DocumentBuildProofs` |
| `HookInstall`, `MCHookInstall` | installers, a person, the gate | `HookInstallProofs` |

`MC*` modules hold the values the configurations choose among and nothing else.
`DetectionClaims`, `NearestWalk`, `RouterReach` and `GoExecution` are
specifications of what detection should find, stated over the unit and, where they can be, over what
the language does with it, never over the walk that found it.

### Builds

`ToolVersion` is `tool-version.ts`: releases, their order, when a release
exceeds a floor and to what it raises one. `VersionFloor` is what the floor
promises, with no files, runs or awaits: only an admitted release completes a
build; only a release that completed one raises the floor, to its own line,
strictly up; a scaffold gives a first floor; anything else is a person's
revision. `BuildRuns` is the detailed model. A run is one invocation of the
command line; its `pc` names the await it is at. Two steps model a file write,
because `writeFile` truncates first (`BeginWrite`/`EndWrite`,
`BeginAmend`/`EndAmend`, `BeginScaffold`/`EndScaffold`), so a kill between them
leaves an empty file and two overlapping writers may leave mixed bytes.

| variable | code |
|---|---|
| `source`, `config`, `baseline`, `disk` | the files of the working copy |
| `pc[r]` | the await a run is at; `"done"` once the command returned |
| `call[r]` | the command line and the release of the tool that runs |
| `conf[r]` | `ResolvedConfig`, as loaded |
| `todo[r]` | the files the walk returned and the loop has not read |
| `mapSnap[r]`, `unitSnap[r]` | the two results of `readSourceSet`, with the specs |
| `out[r]` | how many outputs are written |
| `text[r]` | the configuration as `raiseFloor` reads it again |
| `exit[r]` | `process.exitCode` |
| `floor`, `owner`, `wrote`, `stable`, `before` | history, read by properties and by no action |

`Mixed` in the configuration stands for bytes YAML rejects, `Rejected` for a
document the schema rejects; no action makes a configuration `Rejected` after
the start. Every file's bytes are the record of the inputs they depend on, so
equality of records is equality of bytes: the document depends on the layout of
the release's line (a patch carries the format of its minor, as
`tool-version.ts` says), on the settings without the floor, the first scan and
the facts; the artifact on the analyzer build, which every release has its own
of, and the unit; the unit on the detection settings and the second scan. The
JSON companion carries a clock and a revision and is never compared.

Some awaits are joined where nothing can tell the difference. `exists` and `read`
of a committed output are one step, since no actor deletes outputs. The probe
and the read of the baseline are two. `cosmiconfig`'s search and read is one
step, being the library's.

### Go router walk

The source is one depth-first recursion, `visit`; the model keeps its call stack
as the variable `stack`, the innermost body first, and handles one statement of
the innermost body per action, so that a property can look between any two
statements. Two modules read the same unit in other ways. `NearestWalk` reads it
breadth first: `Reading` is what one straight pass through a body meets, without a
stack, and `Level[n]` the bodies, with the scopes they are entered with, that some
path of `n` call edges leads to from a body a pass walked. Nothing is remembered
and nothing is pruned there, so the least distance of a registration is the first
level that has it. `RouterReach` has `Execution`, which runs the Go code on router
objects and says what the service serves.

| variable | code |
|---|---|
| `unit` | the parsed files and the package index, fixed from the start |
| `pass`, `next` | which loop of `analyzeGoRouterValues` runs, and its index |
| `stack` | the frames of `visit`: body, remaining statements, `Scope`, `depth`, `silent` |
| `entered`, `enteredAt` | the sets of the same names; `seedSignature` is the seeds themselves |
| `claims`, `mounts`, `unclassified`, `lostMounts`, `anchors`, `failures` | the fields of `UnitState` that become the `ScopeResult` |
| `seen` | the set a follow of one serve root carries |
| `outright` | history: the bodies a pass walked; `NearestWalk` starts from them |

| statement | Go | action |
|---|---|---|
| `define` | `x := chi.NewRouter()`, `x := y`, `x := y.With(..)` | `Define` |
| `register` | `x.Get(..)` | `Register` |
| `mount` | `x.Mount("/p", y)` | `Mount` |
| `derive` | `x.Route("/p", func(q) {..})`, `x.Group(func(q) {..})`, alone or defined | `Derive` |
| `call` | `H(x)`, `H(Options{base: x})`, `y := H(x)` | `Call` |
| `guard` | `if x == nil {..} else {..}` | `NilGuard` |
| `use` | any other member called on a router | `Unclassified` |

A key, in the code a file and an offset, is the declaration and the position in
it. Call arguments that are calls themselves are given statements of their own,
as Go's evaluation order allows; a pattern is a constant of its site; one router
dialect is declared. `Value` stands for `evaluate` without its side effects:
those are the statements.

### Detection

`Detection` is `detect.use-case.ts`: one behaviour per unit, since the use case
is a pure function, taken one contract, serving call, registration, call site
and Go method at a time so that properties can look between them.

| action | code |
|---|---|
| `Ingest` | `ingestServedContracts`, one entry of the served inventory |
| `BeginInbound`, `ReadServing`, `BeginRegistrations`, `ReadRegistration` | `detectPythonDslRoutes` with `serve-anchor.ts` |
| `MergeHalves` | `finalizeEndpointFacts` (`merge-table.ts`, `core.ts`) and its diagnostics |
| `ReadSite` | `detectPythonOutbound`, one call of one definition |
| `BeginMethods`, `ReadMethod` | `detectGoOutbound`, one method |
| `Report` | withdrawal of consumed candidates, cross-check, coverage |

`InboundFacts` is the same use case with the reading of sources left open: one
action `Extract` adds drafts of registrations and names sites, `ReadRequests`
stands for the sends, and what concerns endpoints (`IngestEntry`, `Merge`,
`ReportFacts`) is as in the code. It is the abstract specification of the
inbound half, with the declared inventory, the merged facts, the cross-check and
the coverage in it; `Detection` extends it, shares its variables and `Ingest`,
and is checked to implement it (`ImplementsInboundFacts`, the identity being the
refinement mapping). What it promises it promises for every reader, the Go
router walk included, whose routes are drafts of the same shape.

Files are given as syntax the adapters read, with the offsets their anchors are
made of; a string is a sequence of path segments and is told apart no further
(`ValueIr`). Go: a package's variables precede its functions, a call stands at
the level of a statement, and blocks are one level deep. What a fact's id
digests is the identity itself, so two facts share an id exactly when they share
that.

`GoExecution` executes the bodies of a unit: a record is an object with fields,
a block is taken or not, a name can be given to another record, a function that
takes a record may write to it. `DetectionClaims` compares what was published
with it.

### Document

`DocumentBuild` is `build.use-case.ts` with the Go and Python adapters of the
five slices and the renderers. The extractors settle in any order, each resolves
or throws (`Resolve`, `Reject`), and `Render` follows the last. A file is given
as the declarations of its syntax tree; the document is a sequence of blocks, a
heading a sequence of tokens, and Markdown's layout is left out. `Headings` is
`qualified-name.ts`.

### Installers

`HookInstall` has a run per invocation of `install-git-hook` or `claude
install`, each with the pieces it installs and one await per step: `Probe`
(exists), `Read`, `Open` (which truncates), `Fill`, `Chmod`. A run may be killed
at any await, a write may fail half-way, and a person saves any piece, edits and
builds, stages all or a part, and commits with or without `--no-verify`. The
hook's script is the guard of `Commit`. `saved`, `excuses`, `guarded` and
`vouched` are history.

## Runs

| run | instance | what it shows |
|---|---|---|
| `sequential_recovery` | three runs of two releases in turn; one kill or failed write at any step; one edit; five floors | a third run can be the check after the repair after the crash, the shortest history in which an output left unrepaired, a floor over a partial build, or an artifact of an earlier tree beside a document of this one shows |
| `floor_ratchet` | three runs, every command, four releases (one a candidate), ten configurations, absent and rejected files; floors edited between runs | floors below, at and above each release and between two patches of a line, plain and not; the refinement of `VersionFloor` |
| `overlapping_runs` | two overlapping runs: a strict build, a strict check and a forced init; five baselines (absent, rejected, empty, exact, and one that names a mandatory core); one edit of anything, one fault | the ratchet in both directions: a core the empty baseline does not list, and an entry that suppresses nothing or names a mandatory core; document and artifact of a check that passes undisturbed |
| `router_walk` | 4,000 call graphs: a root that calls two of four helpers, each helper calls any or none, itself included, in two file orders; 6,084 bodies: any two of thirteen statements in a root and any two of six in a helper; 108 chains of entry points; 108 helpers of two router parameters, or of one in a record, handed in part or whole by one or two callers | call chains of four edges and more, bodies met at two distances in either order, cycles, seeds of both kinds, names defined twice, returns followed to, at and past their bound |
| `detection` | Python services: how an application is held against how it is served, and how it is declared against who answers; what a client sends against what stands between it and the declared type, how it is constructed and what else is called; Go services: what a method does with its record against what makes the record, compositions over packages, places of construction | routes, sends and their report are what the unit says |
| `document_build` | Go types of one name over three files of one, two or alike-ending directories; a generic type with methods in two files; Go constant blocks of every shape, over two files; Python classes, nested enums, tables, migrations, tasks; every order of five extractors, each resolving or throwing | one document whatever the order; headings; members |
| `hook_install` | two runs of either command, forced or not, and two things a person saves or edits, with kills and failed writes; settings without, with, and with a shared group of the hook, and of every wrong shape | nothing saved is lost but in the ways named; one hook; the gate |
| `mount_twice` | call graphs whose first call may take the long way | counterexample, below |
| `unserved_route` | closures that reuse a router's name, on a known and on an unknown receiver | counterexample, below |
| `named_config` | the units of `detection` | counterexample, below |
| `floor_overlap` | two overlapping builds | counterexample, below |
| `late_baseline` | one strict build | counterexample, below |

### Bounds

Build runs: `Run` bounds the invocations, `MaxEdits` the edits, `MaxFaults` the
kills and failed writes. The runs are symmetric and nothing checked is a liveness
property, so symmetry over them is sound.

Router walk: four call edges are one more than the budget, and a root with two
calls is the smallest unit that reaches a body along two paths. `Longest`, how many
steps a reading of a body may take, is 6, which a body of two nested guards needs;
TLC evaluates `BodiesEnd` for it. The walk may stop
only when it is done (`Finished`), so deadlock is checked.

Detection: the code's bounds are constants of the modules and made small so that
units can pass them: `HierarchyDepth` 4 for 16 (`MAX_DEPTH`), `MaxProofSteps` 2
for 3, `MaxConstantEdges` 2 for 3 (`MAX_CONSTANT_EDGES`), `MaxEmbedding` 3 for 8 (`go-scope.ts` walk). Each is compared as
the code compares it, and units lie on both sides of each.

Document: `TopN` 3, `LastN` 1, `Depth` 2 and `MinFiles` 2 are each exceeded by
some unit. Failures are any of the 32 subsets of the extractors.

Installers: the two scenes, settings with skill and the git hook alone, share no
file, so a scene is checked at a time. Two edits let a person save after a run
has looked and again after another has written.

`CHECK_DEADLOCK FALSE` stands where everyone may stop: each `Run` is used once,
a reported unit is reported, a rendered document is rendered, an installer ends.

### Fairness

None is assumed, and no liveness property is stated. A run is a straight line of
awaits over a fixed list, and no step of it waits for another actor, retries or
loops, so that a started run ends would say of the code only that. The two places
that could fail to end are bounded by other means: the recursion of the router
walk (`NothingOpenTwice`) and the walks over hierarchies, constants and embedded
types, whose bounds the properties of detection compare from both sides.
Nothing is assumed of who starts runs, edits files or kills processes.

### Properties

Beside one type invariant per component:

- `CheckAcceptsOnlyCurrent`: exit 0 of an undisturbed check means that the
  document and the artifact on disk are what the tree renders to. Two runs ask
  it: `overlapping_runs` of torn scans, truncated and mixed files, and
  `sequential_recovery` of an artifact left behind by a build that was killed
  between its outputs, which takes three runs.
- `FixedPoint`: a completed build makes a later check of the same release pass,
  the amended floor notwithstanding.
- `OneUnitRenderedTwice`: document and artifact of one run report one unit.
- `RaiseFollowsCompleteBuild`, `RaiseIsPaid`: a floor rises after a complete
  build only, and does rise.
- `WritesClearTheFloor`, `FloorNeverLowered`, `KeepsPromise`: what a step may do
  to the outputs and the floor; the last is the refinement of `VersionFloor`,
  which implies `FloorOnlyRises`. Runs do not overlap where they pass, so the text
  a build amends is the text it loaded; where it is another is `floor_overlap`.
- `RatchetIsExact`: exit 6 says what it is documented to say, in both directions.
- `NearestWalkWins`: a site some path within the budget reaches ends up claimed
  for the values of the nearest such paths and for no others, whatever was walked
  first and whatever `enteredAt` let pass.
- `MountedTwiceHasNoPath`: a router that two paths within the budget mount under
  two prefixes or on two parents is published under neither, also where one of the
  mounts stands in a body the walk passed over on that path.
- `FourthEdgeRefused`: a fourth edge hands no proven router on.
- `NothingOpenTwice`: no body is entered inside a walk of itself with the same
  seeds, which is what ends the recursion on cyclic call graphs.
- `NoSiteDropped`: a registration on a router its body takes is claimed by the end
  of the walk that handed that router in, and at the end of the passes unless
  some edge entered the body without handing that very router.
- `ProvenChainIsServed`: a route published with prefixes is served under them by
  an execution of the unit from its serve roots.
- `DeclaredIsCountedOrReported`: every route a served document declares is in the
  denominator, and registered or reported as missing.
- `ConflictIsDoubleDeclaration`: a route is conflicting exactly when one
  contract declares it twice by one name.
- `OrderOfDraftsIsIrrelevant`, `UnprovenNeverMerge`: the merge does not depend on
  which half is extracted first, and a registration whose route is not proven
  keeps a fact of its own.
- `ImplementsInboundFacts`: readers add drafts of registrations behind those of
  the inventory, one merge sees all of them, and nothing but the cross-check
  speaks of a missing half.
- `HeldRoutesAreAnchored`: a registration is anchored exactly when a served
  application holds it as Python reads attributes, method resolution order
  included. Excepted: units where a class inherits from one ancestor along two
  paths, where the code's order is a preorder and not Python's.
- `VerbsAreThoseOfTheHierarchy`: published verbs are the members of the
  handler's ancestors, all of them, and the walk over ancestors ends early only
  past its depth or where two classes answer to one key.
- `EveryClaimIsEmitted`: a site a tier claims is one fact of that tier, whatever
  stayed unproven in it.
- `VanishedSitesCollide`: a call that leaves the unit unclaimed is reported,
  unless a claimed site was read from a node that starts at the same offset of
  any file.
- `SharedCallIsNested`: two facts stand at one call only where definitions nest.
- `PublishedIsSent`: a literal method or path of a Go fact is what every
  execution that makes the call sends. Excepted: records filled after the call,
  in a block or under another name, constructors that do more than return a
  literal, and constants that mean something else to the reading file; in each of
  these the code publishes what it reads, and executions send something else.
- `ComposedSendsArePublished`: a send is published exactly when its receiver is
  composed of the declared base, within the bound and where the sending file's
  qualifiers mean what the declaring file's do.
- `DocumentIsReproducible`: the document is a function of the unit, the overview
  and the set of extractors that threw.
- `HeadingsTellTypesApart`: one heading, one type. Excepted: two types of one
  name in one directory, and a nested Python enum `core.Kind` beside a `Kind` of
  the directory `core`, which read alike.
- `MembersAreTheTypesOwn`: a Go type has its package's methods on it and no
  others; an enum has the constants the language gives the type (its own type,
  or that of the constant before it where it has neither type nor value), in the
  order and as often as the package declares them, no enum has two entries, and
  none is missing. The types are Go's, constant by constant, and not those of
  the code's blocks. Excepted: a generic type, whose methods are all missing; a
  block with constants of two types; and constants that share one specification
  (`A, B Kind = 1, 2`). What the code does in each is below.
- `HookAtMostOnce`: however installers overlap, the settings never hold the hook
  twice unless a person saves it twice.
- `SavedSettingsSurvive`, `SavedFilesSurvive`: what a person saved stays,
  except where a run had looked before the save or while another wrote, a
  write was cut short, or `--force` was given.
- `GuardedCommitIsCurrent`: behind an installed gate a commit of the whole tree
  has a current document.

An exception is in a property because the code takes it; each was found by TLC
against the property without it, and is recorded here rather than hidden.

Beside some definitions stands a variant of them with a plausible mistake
(`AmendedToPatch`, `EndWriteTwice`, `ChmodForgotten`, `FallbackList` and others).
No action uses a variant; each one, put in place of its neighbour, makes TLC find
a property violated, and the manifest lists which. They show that the property
looks at the code it is about.

## What the runs found

- **The floor can go down** (`floor_overlap`). `raiseFloor` decides on the
  configuration loaded at the start and splices its release over the value it
  finds when it reads the file again. An older build that overlaps a newer one
  lowers the floor the newer one raised, against INV-006
  (`spec/detection.md:4132`).
- **A configuration error after the writes** (`late_baseline`). A declared
  baseline that is absent or does not parse exits 5 after every output is
  written; `README.md:187` and `spec/spec.md:818` promise the error before any
  build runs.
- **A mount recorded twice** (`mount_twice`). `addMount` tells mounts apart by
  parent and prefix. A helper walked first past the budget mounts its router on
  a refused parent (`null`) and, walked again within it, on the proven one; two
  records unanchor the router, and swapping two independent calls brings its
  routes back. `spec/detection.md:5079` says a mount is recorded once per site
  and that the order of two calls no longer matters.
- **A route nothing serves** (`unserved_route`). The closure in
  `unknown.Route("/admin", func(r) { r.Get(..) })` is walked in a copy of the
  scope in which `r` is still the outer router: its registrations are published
  under that router. `README.md:353` says that publishing a sub-router at a path
  that is not its own "names a route the service does not serve, so it is refused".
- **A configuration named by another file's type** (`named_config`).
  `foldContext` (`outbound/go.ts:353`) takes the first construction of any file
  that starts no later than the argument, though offsets are counted per file:
  where two packages construct one client, each from its own configuration type,
  both destinations are named by the first file's. The comment above it (344)
  says that a construction names its configuration through its own imports.

### Met while modelling, with no run

Runs check what they can state once. The following are behaviours of the code
that a reader of the properties should know of; where one is an exception of a
property, the property names it.

Builds. An old release admitted before the floor rose still overwrites newer
outputs (`WritesClearTheFloor` is checked without `Overlap`). A failed amendment
may leave the configuration truncated with exit 0. `init` probes and then writes,
so an overlapping `init` may overwrite a configuration created in between, and
`init --force` writes a floor that may be lower than the one it replaces.

Router walk. The second pass walks a router-taking body outright when no edge has
entered it yet, so a body that precedes the one whose edge would seed it is
claimed unproven at distance 0 (`router-scope.ts:363`). A value that a serve root
anchors and that is also mounted on a router of lost lineage is published under
anchor and mount together (`chi.ts:202`); `ProvenChainIsServed` excludes it. An
edge that seeds one of two router parameters leaves the other unbound, and
registrations on it are dropped (`router-scope.ts:1199`); that this is the only
way a site is lost is `NoSiteDropped`. Lost mounts and
unclassified members are never superseded by a nearer walk.

Routes. Every draft has an unproven handler, so CTR-006's handler conflict cannot
arise; two paths of one document that canonicalize to one route under distinct
operation ids are not conflicting. The order in which a served class's attributes
are read is a preorder (`serve-anchor.ts:278`), not Python's. Only
`from aiohttp import web` makes a serving root, not `import aiohttp.web`. A
subscripted base is trimmed by the ancestry and by nothing else. Relative imports
resolve at the root of the unit only.

Sends. Two facts of one identity never fail a build. A call in a nested function
is one fact per enclosing definition (`python-sites.ts:28`). A template with a
hole as a destination is reported resolved (`resolution.ts:42` against
`spec/detection.md:1312`). `consumed` offsets are shared by the modules
(`outbound/python.ts:120`). Of two bindings of a selector in one declaration the
last wins. Constructions are indexed by the bare name of their class. Ancestors
without an origin are told apart by bare name (`hierarchy.ts:60`). `alias_mutation`
is never produced, though `spec/detection.md:1405` lists it. In Go, a walk across
packages keeps the imports of the reading file although the comments at
`go-scope.ts:95` and `packages.ts:8` say otherwise, so an embedded send is lost
without a diagnostic where that file lacks the import; a constructor gives the
first literal in it and not the one it returns; a method that overrides a sink's
member is still published; the Go side reports nothing it does not claim.

Document. The methods of a generic Go type are lost. They are keyed by the text of
the receiver's type, `Stack[T]` in `func (s *Stack[T]) Push()`, and looked up by the
type's name, `Stack` (`entities/adapters/go.ts:102` and `78`), so the type is
reported without methods, and with fewer than two fields not at all;
DLT-016 (`spec/detection.md:3001`) says that a method is attributed to the
receiver's package, "so a type is reported with its own members and no others".
A constant block goes to the first type it states, with all its constants, those
of another type and untyped ones included, where BEH-015 (`spec/detection.md:860`)
speaks of the constants of a type. Of constants that share a specification the
syntax tree gives the first name alone, so the others are missing from the enum
BEH-015 reports "carrying its member names". The threshold of an
entity differs between languages from BEH-016: Python, Java and TypeScript ask
for two methods or a base, Kotlin for two methods. A context's role is that of
any ancestor segment, not of the directory's own name. "Recent migrations" are
those with the greatest revision ids, not the head of the chain of
`down_revision`. `class Color(enum.Enum)` is an entity as well as an enum, since
only the entity adapter compares the base's whole text. Types are qualified after
the trim to `top_n`, so a type whose homonym was trimmed is headed bare. Enums,
tables, workers and migrations are sorted by one key; equal keys stay in the
order of the walk, which the walker sorts. A Go file contributes no import to
inbound counts.

Installers. `claude install` exits 0 when the hook failed and the skill did not.
Settings that are JSON but no object are replaced without a word. A hook list of
the wrong type ends the installer with an exception. A second installer that
reads while the first has the file truncated writes settings with nothing in them
but the hook. A kill between write and chmod leaves a script git does not run and
a second install refuses to replace. The gate checks the work tree, not the
index, and passes where there is no configuration or no tool.

## Proofs

All proofs are checked by TLAPS with no assumption but those of the modules,
which are about constants and which TLC evaluates in every run: the types of the
inputs, that the members of a path item are spelled in different ways, that a configuration text has its keys, that configurations are closed
under an amendment, that a scaffold carries its release's line, that what a
person saves is a content.

**`BuildRunsProofs`**, for every set of runs, files, releases, configurations and
bounds:

- `TypeCorrect`: `Spec => []TypeOK`, with overlap, faults and live edits. `TypeOK`
  is not inductive: `EndWrite` advances `out` and `EndAmend` reads `text`, so
  `TypeInv` adds that a run at `"flush"` has an output to write and a run at
  `"amending"` has found a floor.
- `BuildsClearTheFloor`, `AmendmentsRaise`: `WritesClearTheFloor` and
  `FloorNeverLowered` under `Sequential` (no overlap, no edit of the
  configuration during a run).
- `CommandsRaise`, `ImplementsVersionFloor`: `FloorOnlyRises` and the refinement
  of `VersionFloor` under `Sequential` and `NoneForces` (no `init --force`).

The last four rest on `FloorInv`. At most one run is active (`Solo`), so between
its load and its last step nobody else touches the configuration: what it loaded
still carries the floor on disk and the floor still admits its release
(`Admitted`); a run about to amend owes a raise against that floor (`Owing`); it
has written every output by then (`Progress`). `RaiseGoesUp` then says that the
amendment goes strictly up. Without `Solo` the step from loaded floor to floor on
disk fails, and `floor_overlap` is what fails with it.

**`BuildCurrencyProofs`**, with overlapping runs, live edits, kills and failed
writes:

- `BuildIsFixedPoint`, `ChecksAcceptOnlyCurrent`, `RaisesArePaid`: `FixedPoint`,
  `CheckAcceptsOnlyCurrent`, `RaiseIsPaid`.
- `RatchetComparesExactly`: `RatchetIsExact`, where detection is wanted at all:
  where it is not, a build ratchets against an empty set of diagnostics whatever
  the tree would raise.

These are about what a run knows. `stable[r]` is true until another actor writes
or edits anything, and `CurrencyInv` says what a stable run at each await knows of
the working copy (`Holds`): before the walk, that the configuration is the one it
loaded; during a scan, that its snapshot is the tree on the files already read
(`Partly`); after rendering, that its outputs are the rendering of the tree; while
writing, which of them are on disk. The first foreign write ends the claim, so
overlap costs one lemma (`OneRunMoves`: who moves unsettles all others, or changes
nothing they know) and not a case for every pair. `FixedPoint` relates two runs,
so the invariant passes what the first one knew at its end to every stable run
that started after it (`Inherits`).

**`BuildOutputsProofs`**, without overlap, with live edits and faults:

- `DocumentAndFactsAgree`, `RaisesFollowCompleteBuilds`: `OneUnitRenderedTwice` and
  `RaiseFollowsCompleteBuild`. `OutputsInv` adds to `CurrencyInv` and `Solo` that a
  run's outputs are, as far as it came in their order, in `wrote` and, where it
  still owns them, its own rendering (`Written`). Here the run need not be stable:
  files may change while it scans, and both outputs still report the one unit it
  read.

**`GoRouterScopeProofs`**, for every set of units:

- `ClaimsTheNearest`: `NearestWalkWins`, for call graphs of any size and shape,
  cycles included. `NearInv` has three parts, none of which is inductive without the
  others, and a fourth for mounts, below. `SoundInv`: during the passes every open frame within the budget is at a
  position some state of its level leads to, and every claim within the budget, then
  and later, is one its level registers; so no claim is nearer than the reference
  finds it. `ReadInv`: of every body a pass walked, and of every key of `enteredAt` at
  the distance on record, each position of the reading is either handled, its
  registration claimed, its mount recorded and its call on record one edge farther
  or nearer, or still in sight of an open frame of that distance. This is what pruning by distance has
  to preserve: when a nearer walk lowers the distance on record, the obligation
  moves to the nearer distance and the frame just opened has all of it in sight;
  when an edge is passed over, the record says that what it owes is handled no
  farther out. `LevelsClaimed`: after the passes every registration of a level is
  claimed at its distance or nearer, which follows from `ReadInv` level by level once
  the stack is empty (`LevelsWalked`). The run's mutant, `RepeatedAtAnyDistance`,
  passes an edge over whatever distance is on record, and so loses the last of these
  obligations. A reading is a recursive function over steps; that it meets
  exactly what paths of single steps lead to (`ReadingIsPaths`) is proved by least
  counterexample and everything else uses the paths. The invariant
  stands on `TypeInv` and `SiteInv`, below, and so on their assumptions, and on two more
  about the units: `BodiesEnd`, that a body, its closures and branches with it, is read to its
  end in finitely many steps, which holds of any source text, and `LongestIsBound`,
  that `Longest` gives a number of steps no smaller than that for each unit.
- `PublishesNoneMountedTwice`: `MountedTwiceHasNoPath`, from `NearInv` and
  `MountsFinite`. What `ReadInv` owes a position includes the mounts made there
  (`MountedAt`), mounts are only added to (`StatementMounts`), and `LevelsMounted`
  says of them what `LevelsClaimed` says of claims. So both mounts are on record in
  the end; they are finitely many, so their number is one the chain of prefixes can
  compare (`TwoMountsNoPath`). That chain is a recursive function, which
  `ChainExists` shows to be defined by least counterexample. The converse, that a
  value no two paths mount differently keeps its path, is false: `mount_twice` is
  a walk past the budget that takes it away.
- `RefusesTheFourthEdge`, `NeverReenters`: `FourthEdgeRefused` and
  `NothingOpenTwice`, both from `WalkInv`. What the fourth edge may claim depends
  on scopes, so the invariant says that a frame past the budget holds in its scope
  only routers its own body constructed (`OwnFrame`); the lemmas `ValueIsOwned` to
  `CrossingIsOwned` show that no evaluation, binding or crossing breaks that. That
  nothing is open twice depends on distances: frames on the stack are no nearer
  than those below them, and the distance on record for a body and its seeds is no
  greater than that of any open frame that carries them (`Orderly`), so an edge
  that would re-enter it is a repeat. No fairness is assumed; that the walk ends
  is not itself a property: the runs show that it never stops short of `Done`, and
  `NeverReenters` that no cycle of calls keeps it from ending.
- `TypeCorrect`: `TypeOK`, from `TypeInv`, which adds that an operand is open only
  in the walk of a serve root: an operand opens a silent frame, and nothing in the
  guard of `FollowOperand` names the pass. It uses `OrderIsDeclared`, that a
  unit's order lists its own declarations and all of them, which the pass over the
  declarations in file order gives.
- `DropsNoHandedSite`: `NoSiteDropped`. `SiteInv` adds to `TypeInv` what a registration
  is owed: during the two passes, one on a router some walk of its body knew is
  claimed or stands ahead in an open frame that knows the name
  (`ClaimedOrPending`); after them, it is claimed or an edge entered its body
  without that router (`ClaimedOrUnhanded`); and the second pass leaves no
  router-taking body behind that nothing entered (`EnteredSomehow`). A name
  bound to a router stays bound to one, proven or lost (`KnownStaysKnown`): this is
  why the walk claims even where it can prove nothing. The theorem also uses
  `BodiesAreStatements`, that bodies are sequences, and `ParametersAreNamedApart`:
  with two parameters of one name, which Go refuses, the later seed would
  overwrite the earlier.

**`FactMergeProofs`**, for every set of values and every sequence of drafts:

- `OrderIsIrrelevant`: any reordering of the drafts merges to the same facts.
- `IdentitiesAreUnique`, `NoDraftIsLost`, `UnprovenStandAlone`,
  `ConflictIsDuplicate`: one fact per identity, every draft in one, no two places
  in one unproven fact, conflicts exactly where a contract operation is drafted
  twice.

The merge is a function of classes of drafts, so these are lemmas about a
reordering's bijection on indices and no invariant is needed.

**`InboundFactsProofs`**, for every set of units (documents, served contracts,
mounts, ids and members of any kind and number) and every behaviour of the
readers `InboundSpec` allows:

- `DeclaredRoutesAreCounted`: `DeclaredIsCountedOrReported`. The declared facts
  and the declared routes are in bijection (`DeclaredFactsAreRoutes`), declared
  facts are the registered ones and those of the declaration alone
  (`DeclaredFactsSplit`), and the latter are in bijection with the diagnostics,
  since what a diagnostic writes of a route names one fact (`DiagnosticNamesFact`).
- `ConflictsAreDoubleDeclarations`, `FactsOfAnyOrder`, `UnprovenAreKeptApart`:
  `ConflictIsDoubleDeclaration`, `OrderOfDraftsIsIrrelevant`, `UnprovenNeverMerge`,
  from the theorems of `FactMergeProofs`.

All four follow from one invariant (`InboundInvariant`). Its first part,
`DraftsInv`, says where every draft comes from: there is a function that gives
each draft the declared operation it was drafted for, or none where it is a
registration, and each operation of the entries ingested so far has exactly one
(`Accounts`). Without it nothing relates the facts to the documents: a draft
missing, doubled or invented would leave the merge theorems true and the
coverage wrong. Its second part, `ReportInv`, says that the facts are those of
the drafts and that no one but the cross-check uses the codes of a missing half.
The assumptions are `UnitsDeclare`, the types of documents and contracts, and
`SpellingsDiffer`: the members of a path item differ once spelled in upper case,
or two declared routes would be one fact. A path a document writes is a
sequence of strings; that its canonical form is a sequence again
(`CanonicalPathIsSequence`) rests on a lemma about `FlattenSeq`
(`FlattenedIsSequence`). That `Detection` implements `InboundSpec`, and so has
these four properties, is checked and not proved: `Detection` reaches the
recursive operators of its readers.

**`DocumentBuildProofs`**, for every set of units, every configuration and every
order in which the extractors resolve and throw:

- `DocumentTyped`: `TypeOK`.
- `DocumentReproducible`: `DocumentIsReproducible`. That a section that did not
  throw is the one of an undisturbed build is the invariant `BuildInv`: what an
  extractor left is a function of the unit and of how it settled, and `errors`
  lists those that threw, each once. The rest is about the operators: sorting the
  errors gives one list in whatever order they came (`ErrorsSorted`), and
  no two entities tie (`EntityBeforeFacts`), because no two reports share name,
  file and line (`RawEntitiesStandApart`).
- `HeadingsAreUnambiguous`: for declarations of any number, names and directories,
  one heading means one name and directory, or names nested to different depths.
- `DocumentTellsTypesApart`: `HeadingsTellTypesApart`, from `DocumentTyped` and
  `HeadingsAreUnambiguous`.
- `TypesHaveTheirOwnMembers`: `MembersAreTheTypesOwn`, from `BuildInv` and what the
  extractors give. The methods of a type, one by one, are those whose receiver is
  written as its name (`GoMethodsDeclared`); these are declared on it in its package,
  and are all that are where no receiver has type parameters
  (`BareReceiver`, `WrittenAndDeclared`), so none is missing then unless the list is
  cut at eight (`MethodsCounted`). A block is filed under the type its first typed
  constant states (`BlockTypeIsFirst`); an enum stands where its first block does, so
  no two are one type's (`GoEnumsApart`), every block's type has one
  (`GoEnumsComplete`), and what it gathers in passes over one list of blocks is what
  the blocks of its type hold, file by file and block by block (`GoEnumMembers`).
  That this is what the language types so, constant by constant, is
  `ConstantsAreReported`: where a type's constants stand in blocks of their own, a
  specification each, a block filed under it holds its constants and no other block
  has one (`BlockAgrees`).

Every listing is a flattening of what the files give, a selection or a sort, so
a few lemmas carry the proofs: `FlattenedOrigin` gives each row of a flattening
the one part and place it comes from, and back; `PickedSelection` does so for a
selection; `ArrangedPermutes` says that putting a sequence in the places a strict
total order gives is a permutation of it; `FlattenThrough` and `PickedThrough`, that
what is made of a flattening or of a selection, element by element, is the
flattening of what is made of its parts, which is how the order of an enum's
constants is known. `SequencesExt` defines
`FlattenSeq` by a recursive function on the length, which `FlatteningExists` shows
to exist by least counterexample. A heading is a sequence of tokens in which words
stand at odd places, so two equal headings of names of one length have equal
directories token by token; minimal qualifiers then end in different segments
unless the directories are equal.

The assumptions are on what is read: `UnitsAreSources` types a file as its
declarations, says that the walk lists a path once (`globby` returns unique
paths) and that no name is declared twice on one line (two local types of one
name, in functions written on one line, would tie and stand in the order they are
read); `ExtractorsAreWords` and `AlphabetIsOrdered` that everything sorted by name
has one place in the order of `localeCompare`; `WeightsAreNumbers` that the
weights of a ranking are whole multiples of a common unit, tenths in the run:
the schema allows any numbers, and how their sums are rounded is not modelled.

**`HookInstallProofs`**, for every set of overlapping, killed and failing runs,
any commands and saves and any number of edits:

- `TypeCorrect`, `HookIsFiledOnce` from `IInv`, which adds to the two that what a
  run is about to write holds the hook at most once.
- `SettingsSurvive`, `OwnFilesSurvive` from `SInv`: a run that looked after the last
  save, and to which nothing else happened, carries a text in which what was saved
  survives (`Careful`).
- `GateHolds` from `GInv`: only the script is ever written to the hook, so a second
  install still under way does not undo a first that succeeded.

Model-checked only:

- What compares the router walk and detection with recursive readings
  (`RouterReach`, so `ProvenChainIsServed`; `PythonUnit` and everything that extends it, `GoExecution`):
  recursive operators cannot be used where theorems are. `FactMerge` and
  `InboundFacts` are below them; that `Detection` implements the latter is
  checked (`ImplementsInboundFacts`).

## Not modelled

- The order in which several locators fail: `BadLocator` settings fail on the
  locator that sorts first.
- `config_declarations`, globbed documents that join the unit the way specs do.
  A pattern that matches the configuration file itself would make the unit
  depend on the floor; the instances declare none.
- The choice of sections by `--only`, `--config`, `--out` and `--json` in
  `BuildRuns`: they rename or drop parts of the document and are fixed per
  instance. A configuration whose path cannot be rewritten in place is one
  whose floor is not plain. The schema's own constraints are one rejected
  configuration.
- The overview file in `BuildRuns`. Builds and checks read it as it is on disk
  (`build.use-case.ts:99`, `241`), one more input and one more moment at which an
  edit can fall; an edit of it is an edit of an input and disturbs a run as one of
  a source does. `DocumentBuild` has the read, in `Render`.
- Of the router walk: how `calleeOf` resolves a name to a declaration, the
  standard multiplexer's patterns, several router dialects, the value of a path
  argument, assignments to record fields.
- Of detection: the way from a syntax tree to the declarations and nodes the
  units are made of; references inside an OpenAPI document; queue operations,
  which no detector makes; the bytes of canonical JSON.
- Of the document: the TypeScript, Java and Kotlin adapters, which have the shape
  of those modelled over other syntax; the Markdown; the metadata of the JSON
  companion.
- Of the installers: commander's errors and a missing `.git`, which end a command
  before it looks at a file.
- The parser, the clock, the logger and the revision, which are adapters of
  libraries.

# TLA+ models of chartify

`src/scripts/chartify/chartify.py` turns two sets of Kubernetes manifests into
one Helm chart. The *base* set and the *overlay* set are two variants of the
same deployment. In the generated chart, one boolean value, the *condition*,
selects which variant is rendered. This directory holds TLA+ models of the
script, the TLC configurations that check them, and this description.

## 1. Inventory

The program is a single-threaded batch script (one process, no threads, no
callbacks). Its hard parts are not concurrency. They are:

- the output directory, which outlives a run;
- file writes, any of which can fail half-way through a run;
- iteration orders the code does not fix;
- string formats that the rest of the logic takes as unique.

| Component | Code | State it keeps | Operations |
|---|---|---|---|
| Manifest loading | `load_manifests` (48-81) | none; it returns a list of documents | read a file or every `*.yaml`/`*.yml` under a directory in glob order; skip empty documents; raise on a missing path, no files, a parse error, or no documents |
| Resource identity | `get_resource_key`, `get_template_filename`, `is_crd` (84-112, 143-146) | none (pure) | key = `group_version_kind[_namespace]_name`, with defaults `v1`, `unknown`, `unnamed` and empty group → `core` |
| Diff engine | `get_resource_diffs` (115-140) | two dicts keyed by resource key (last document wins) and the `results` dict, whose insertion order is added keys, then removed keys, then common keys in set order | classify each key as added, removed, modified or unchanged |
| Template synthesizer | `generate_helm_template` (149-201) | none | choose the representative (overlay for added, otherwise base); choose the folder (`crds` if `is_crd`, otherwise `templates`); wrap the YAML in `if`, `if not`, `if/else`, or nothing |
| Chart scaffolder | `set_nested_value`, `load_values_file`, `create_chart_structure` (204-279) | the values tree | mkdir the output directory and its subfolders (`exist_ok`); write Chart.yaml; copy the base values and inject the condition at a dotted path; write values.yaml |
| Driver | `main`, `write_template_file` (282-396) | the output directory on disk | load → diff → load values → scaffold → write one template per diff entry; any exception means exit 1 |
| Logging, CLI plumbing | 21-45, click options | none that matters | not modelled |

How the components interact: plain calls in a fixed sequence. The only shared
state is the file system: the inputs are read from it and the chart is written
to it. The directory is the state that survives from one invocation to the next.

What makes it correct (the properties the models check):

- **Diff and synthesis together**: rendering the chart with the condition true
  gives exactly the overlay resources. Rendering it false gives exactly the
  base resources. Duplicates within one snapshot are resolved last-wins, as the
  spec documents.
- **Identity**: distinct resources get distinct keys, and so distinct files.
  `is_crd` depends on the key alone, so the folder choice is consistent.
- **Driver**: failures and retries must not corrupt that correspondence. A
  values-file error must stop the run before it writes anything.

## 2. Modules

### `Chartify.tla` and `MCChartify.tla`: the driver, the diff engine and the synthesizer

Data abstraction:

- A document is `[key, body]`. The key is a model value, the result of
  `get_resource_key`, which is modelled separately. The body is a model value
  compared by equality, which stands for Python's deep dict equality.
- `is_crd` is membership of the key in `CrdKeys`. `ResourceKey`'s
  This is sound for Kubernetes-valid fields: `KeyInjective` shows that equal
  keys there mean equal apiVersion and kind, which decide `is_crd`.
- A template is its sequence of lines: `if`, `if not`, `else` and `end`
  directives and documents. The `# Resource:` comment and the `---` line have
  no meaning for Helm and are left out.
- The output directory is `files`, a function from paths to contents. A path
  holds no file (`NoFile`), a torn file (`Torn`), or a content.
- values.yaml is abstracted to two booleans: whether it holds user-supplied
  values, and whether it holds the condition's default. Before the first run
  it holds nothing, or a values.yaml the user wrote (`InitValues`).
- `--values-file` names another file, whose shape is chosen, or the chart's
  own values.yaml. In the second case (`inPlace`), `ReadBack` gives the shape
  `load_values_file` sees. A torn file reads as empty (`safe_load` gives
  `None`, which `or {}` turns into `{}`) or fails to parse.

How the actions correspond to `main`:

| Action | Code |
|---|---|
| `StartRun` | a new process: only `files` survives |
| `LoadManifests` | both `load_manifests` calls; each may raise |
| `ComputeDiffs` | `get_resource_diffs`; `order` is any order the dict can have, with the common keys in any permutation |
| `LoadValuesFile` | `load_values_file`. The shape of another file is chosen nondeterministically; the chart's own values.yaml is read back from `files` |
| `CreateChartStructure` | all of `create_chart_structure`, with one disjunct per point where it can raise (mkdir, the Chart.yaml write, `copy`/`set_nested_value` on a bad values shape, the values.yaml write) |
| `WriteTemplate` | one iteration of the template loop; the write may fail before or after truncating the file |

`RenderLines` is Helm's evaluation of these flat directives. `HelmRendered`
also follows Helm's rule that files under `crds/` are not templated. Both are
the reference the properties compare against; they are not code.

### `DiffDefs.tla`, `DiffAbstract.tla`, `DiffLoop.tla`, `MCDiffLoop.tla`: the diff engine and its refinement

- `DiffDefs` holds the document abstraction and two functions, which Chartify
  EXTENDS:
  - `GetResourceDiffs` is the classification `get_resource_diffs` returns;
  - `ResultOrders` is the set of insertion orders its result dict can have.
- `DiffAbstract` is the function's promise as one atomic step, `Return`. It
  is the step Chartify's `ComputeDiffs` takes.
- `DiffLoop` is the function one statement at a time:
  - one step per document of each dict comprehension;
  - one step per key of the added, removed and common loops;
  - `NextStatement` between the loops. It also evaluates
    `resources1.keys() & resources2.keys()` in any order.

  A Python dict is modelled as `[keys, val]`. `keys` is the insertion order
  and `val` the mapping, so assigning a key that is already present keeps its
  position.

`Abstract == INSTANCE DiffAbstract WITH ...` maps the loop's state to the
abstract state. `results`, `order` and `returned` become visible only when the
loop reaches `pc = "returned"`. `ImplementsAbstract == Abstract!Spec` is
checked as a PROPERTY. It includes `WF` of the abstract step, so it also shows
that the loop returns.

### `ValuesTree.tla` and `MCValuesTree.tla`: `set_nested_value`

- A values tree is a function from keys to scalars or subtrees. A mapping is
  any value that is not one of the `Scalars`.
- The condition is a string of characters. `SplitDot` is `str.split('.')`, so
  `"a..b"` gives `["a", "", "b"]`.
- `Walk` is one iteration of `for key in keys[:-1]`. `current` is the path the
  Python alias points to.
- `Assign` is `current[keys[-1]] = value`.
- The base trees are every tree of depth up to two over keys `a` and `b`.
- The conditions are every string of up to three characters over `a`, `b` and
  `.`.

### `LoadManifests.tla` and `MCLoadManifests.tla`: `load_manifests`

- The path is a file, a directory or something else.
- A directory is a set of `.yaml` and `.yml` files. Each file holds up to two
  documents, or it does not parse. A document is a resource, an empty
  document, or `NotMapping`: a truthy document that cannot be keyed (a
  string, list or number, or a mapping whose `metadata` is not a mapping).
- `Start` takes the `is_file`/`is_dir` branches. For a directory it chooses
  any listing order for each glob, `.yaml` files first.
- `ReadFile` reads one file, and `Finish` raises if nothing was loaded.
- `LogDebugManifest` is main's `log_debug_manifest` on the result. Its
  `.get` calls raise `AttributeError` on a `NotMapping` document; main's
  `except Exception` turns that into exit 1 before anything is written.

Chartify's `Docs` (lists of resources) over-approximates what reaches
`get_resource_diffs`: an unkeyable document ends the run at the log, and
would equally end it in `get_resource_key` without the log. Chartify's
`LoadManifests` failure stands for every raise of this module.

### `ResourceKey.tla` and `MCResourceKey.tla`: the key function

Strings are sequences of one-character strings, because the properties are
about how the key string is assembled. A state holds two documents. One step
computes both template file names. Field values come from two universes:

- `Valid*`: Kubernetes-valid values. Names contain no `_` (narrower than
  Kubernetes: RBAC object names may contain `_`, and a namespaced Role
  `a_b` written without a namespace then shares a key with Role `b` in
  namespace `a`; the collision run shows the `_` case), a named group
  contains a dot, kinds differ by more than case, and apiVersion, kind and name
  are present.
- `Any*`: what chartify accepts without validation.

`CRD` and `apix.io` stand for `CustomResourceDefinition` and
`apiextensions.k8s.io`. The Kubernetes-valid universe is based on Kubernetes
naming rules, not on chartify's code.

## 3. Runs

| Run | Cfg | Expect | What it shows |
|---|---|---|---|
| chartify_core | MCChartify.cfg | pass | `RetryReproducesSelection`: a successful run whose predecessors in the directory used the same inputs (a first run, or a retry after failed runs) renders exactly the overlay when the condition is true and exactly the base when false, and values.yaml holds the default. This covers diff classification, the representative, the wrappers, the hash-dependent write order, and torn files left by failed runs. `TypeOK` includes the DiffEntry tagged union. |
| chartify_stale | MCChartify_stale.cfg | violation | `ChartReproducesSelection` without the retry condition: run 1 writes k1's template, run 2 with other inputs succeeds, and k1's template is still rendered. |
| chartify_crds | MCChartify_crds.cfg | violation | `HelmChartReproducesSelection`: a modified or added CRD goes to `crds/` with directives that Helm does not evaluate there. |
| chartify_values_shape | MCChartify_values.cfg | violation | `ValuesErrorLeavesOutputUntouched`: a values file holding a string passes `load_values_file`; `base_values.copy()` then raises after Chart.yaml is written. |
| resource_key | MCResourceKey.cfg | pass | `KeyInjective` and `FileNameFlat` on Kubernetes-valid fields. |
| resource_key_collision | MCResourceKey_collision.cfg | violation | `KeyInjective` on unvalidated input: no apiVersion (group empty → `core`) and `core/v1` share a key. `a_b` names collide the same way. |
| diff_loop_refinement | MCDiffLoop.cfg | pass | `ImplementsAbstract`: the statement-level function returns the classification and an allowed insertion order, and terminates. |
| values_tree | MCValuesTree.cfg | pass | `ReplacesOnlyPath`: the leaves of the result are the base leaves not on, above or below the path, plus the default at the path. |
| values_reference | MCValuesTree_ref.cfg | violation | `ConditionReferenceResolves`: `--condition ""` (or `a.`, `a..b`) is injected under an empty key, and `.Values.<condition>` does not parse. |
| load_manifests | MCLoadManifests.cfg | pass | `LoadsEveryDocument`: success returns the non-empty documents of every file, grouped by file; "no valid manifests" is raised only when all are empty. |
| chartify_inplace | MCChartify_inplace.cfg | violation | `InPlaceValuesSurvive`: the user's chart is regenerated with `--values-file` naming its values.yaml. Run 1's values.yaml write is interrupted after truncation. Run 2 reads the empty file as `{}`, succeeds, and writes values.yaml without the user's values. |
| load_order | MCLoadManifests_order.cfg | violation | `KeyedResourcesIndependentOfOrder`: the same key in two files with different bodies; the listing order decides which one is kept. |

Bounds:

- Chartify: 2 keys (one of them a CRD), 2 bodies, up to 2 documents per side,
  and 2 runs. This is enough for:
  - all four diff types;
  - a duplicate key within one snapshot;
  - two orders of the common keys;
  - a failure at every write point, followed by a retry or by a rerun with
    other inputs.

  The model has symmetry over bodies, which is sound because bodies are only
  compared for equality. Both initial values.yaml contents are included. The
  run takes about 85 s for 4.2 M states. The in-place violation starts from
  the user's values.yaml only (`UserChart`).
- DiffLoop: 3 keys, 2 bodies and up to 2 documents per side. That gives added,
  removed and common keys together, a duplicate within one side, and two
  orders of the common keys. There is no symmetry, because the run checks
  liveness.
- LoadManifests: two `.yaml` files and one `.yml` file, with up to two
  documents each, over 2 keys and 2 bodies. That gives cross-file duplicates,
  empty files, a parse error after a successful file, an unkeyable document
  next to resources, and both globs. The run takes about 15 s for 1.1 M
  states.

`CHECK_DEADLOCK FALSE` is used everywhere. Every model is of a call or a
program that ends, and it really stops there.

Fairness:

- Chartify, ResourceKey, ValuesTree and LoadManifests state only safety
  properties, and assume no fairness. (The walk of `set_nested_value` is a
  `for` loop over a finite list; its termination needs no check.)
- DiffLoop assumes `WF_vars(Next)`. It models a single
  Python function run by a single thread that never blocks. Once a step is
  enabled, the interpreter takes it.

## 4. Plan

Done:

1. Chartify: the driver, diff and synthesizer.
2. ResourceKey, including file-name flatness.
3. ValuesTree.
4. The diff refinement.
5. LoadManifests.
6. The chart's own values.yaml as `--values-file`, read back after an
   interrupted write.
7. Unkeyable documents and `log_debug_manifest` in LoadManifests.

Next:

- Model a directory glob that also matches a directory named `*.yaml`. `open`
  then raises `IsADirectoryError`, which is not a `YAMLError`.
- Larger Chartify instances. Three keys multiply the 4.2 M states by the
  square of the document choices per side (from 20 to 42). Two keys already
  give every diff type, both representatives, both folders and both orders of
  the common keys. The three-key cases of the diff alone are checked by
  DiffLoop.

## 5. Not modelled

- Logging and echo output.
- The chart name default (`Path(output).name`, with `generated-chart` for
  `.` or an empty name). It goes only into Chart.yaml's name and description,
  which no property reads.
- The values tree inside Chartify. Chartify keeps only the two booleans of
  values.yaml, and ValuesTree checks `set_nested_value` on full trees. A
  composition would multiply Chartify's 4 M states by the number of trees,
  and would check nothing the two models do not already check apart: the
  templates read only the condition, and a failed write is torn whatever the
  tree.
- Unvalidated apiVersions with two slashes. An apiVersion with two slashes, such as
  `a/b/v1`, gives the file name `a_b/v1_….yaml`, which names a subdirectory
  of `templates/`. `write_template_file` then raises after the earlier files
  were written. `FileNameFlat` is kept only for Kubernetes-valid input, where
  it holds.
- YAML text formatting: `yaml.dump` is treated as a faithful serialisation.
- A torn values.yaml that still parses as a partial mapping or a string.
  `ReadBack` gives only "empty" or "unparsable"; the other outcomes would
  only add behaviours, and no property depends on them.
- YAML aliases in the values file: a sub-mapping that `safe_load` shares
  through `&`/`*` would let `set_nested_value` change leaves elsewhere.
  ValuesTree's trees are plain values.
- Deep-equality details beyond "equal bodies" (dict order insensitivity).
- A non-string `kind` or `name` that `.lower()` or the `_` join rejects in
  `get_resource_key`. Like the unkeyable documents of LoadManifests, it ends
  in exit 1 before any write. Chartify's load failure covers it.
- An output directory inside the base or overlay directory. The next run's
  recursive glob would then read the previous chart: Chart.yaml and
  values.yaml as resources, and the templates with their `{{- if ... }}`
  lines as YAML. Modelling this needs Chartify's output composed into
  LoadManifests' tree, and a model of how PyYAML parses each directive line.
  Both models abstract those lines to records, so the outcome (a parse error
  or extra resources) is left open. It is listed as a hazard with no
  property.
- The import guard (`sys.exit(1)` without click or PyYAML), `setup_logging`
  and the click option declarations. They change no state that a property
  reads, apart from the option defaults, which are modelled where they
  matter (`default_condition`).
- The test suite.

One divergence the models do not need a run for: `--default-condition` is
declared `is_flag=True, default=True`, so `main` can never pass `False`. The
chart always defaults to the overlay, although the spec lists a boolean
default. Chartify's `default_condition` is therefore the constant `TRUE`.

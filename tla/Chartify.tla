------------------------------ MODULE Chartify ------------------------------
(***************************************************************************)
(* One or more invocations of chartify's `main` (src/scripts/chartify/     *)
(* chartify.py) writing into the same output directory.                    *)
(*                                                                         *)
(* A manifest document is abstracted to its resource key (the result of   *)
(* get_resource_key, checked separately in ResourceKey) and its body, a   *)
(* model value: two documents with equal key and body are equal under     *)
(* Python's deep dict equality.  A generated template is the sequence of  *)
(* its Helm directive lines and YAML documents; the comment and `---`     *)
(* header lines carry no semantics and are left out.  The output           *)
(* directory is a function from paths to contents and outlives a run, so *)
(* reruns see what earlier runs left behind.  Every file write may fail,   *)
(* either before the file is truncated or after (leaving a torn file).     *)
(***************************************************************************)
EXTENDS DiffDefs

CONSTANTS
    CrdKeys,    \* keys of resources for which is_crd holds
    MaxRuns,    \* bound on the invocations of main into one directory
    NoFile,     \* a path that holds no file
    Torn,       \* a file whose write was interrupted after truncation
    InitValues  \* what values.yaml holds before the first run

ASSUME CrdKeys \subseteq Keys /\ MaxDocs >= 1 /\ MaxRuns >= 1

VARIABLES
    pc,         \* where main is: "idle" before the first run, then the phases
    runs,       \* number of invocations so far
    base,       \* documents loaded from BASE_FILENAME
    overlay,    \* documents loaded from OVERLAY_FILENAME
    diffs,      \* resource_diffs: key -> [type, base, overlay]
    order,      \* iteration order of resource_diffs.items()
    idx,        \* position of the template loop in `order`
    valuesKind, \* shape of what load_values_file returned
    files,      \* the output directory: path -> content
    failure,    \* why the current run exited with code 1
    written,    \* history: paths the current run has written or torn
    lastInputs, \* history: <<base, overlay>> of the last run that loaded its inputs
    retry,      \* history: every run that loaded inputs loaded these same ones
    inPlace,    \* --values-file is the chart's own values.yaml
    userOwned   \* history: values.yaml held user values before the first
                \* run, and every run since read its values from it

vars == <<pc, runs, base, overlay, diffs, order, idx, valuesKind, files,
          failure, written, lastInputs, retry, inPlace, userOwned>>

ChartPath  == [dir |-> ".", name |-> "Chart.yaml"]
ValuesPath == [dir |-> ".", name |-> "values.yaml"]
TemplatePaths == [dir : {"templates", "crds"}, name : Keys]
Paths == {ChartPath, ValuesPath} \cup TemplatePaths

\* What yaml.safe_load of the --values-file gives, as load_values_file sees
\* it: no file given, a YAML error or a non-sized scalar (both raise inside
\* its try), an empty document, a mapping with the user's values, a
\* mapping holding only what chartify injected, a string, a non-empty list.
ValuesKinds == {"none", "unparsable", "empty", "mapping", "generated",
                "string", "list"}

\* values.yaml: whether it holds user-supplied values, and whether it holds
\* the condition's default.
ValuesFiles == [user : BOOLEAN, condition : BOOLEAN]
UserValues == [user |-> TRUE, condition |-> FALSE]

-----------------------------------------------------------------------------
(* Resource identity: the diff engine itself is in DiffDefs.             *)

is_crd(r) == r.key \in CrdKeys

-----------------------------------------------------------------------------
(* Template synthesis.                                                     *)

IfLine    == [op |-> "if"]       \* {{- if .Values.<condition> }}
\* Mutant: the `not` dropped from the removed wrapper.
IfNotLineDropsNot == [op |-> "if"]
IfNotLine == [op |-> "ifnot"]    \* {{- if not .Values.<condition> }}
ElseLine  == [op |-> "else"]     \* {{- else }}
EndLine   == [op |-> "end"]      \* {{- end }}
DocLine(r) == [op |-> "doc", res |-> r]   \* yaml.dump(r).rstrip()

\* generate_helm_template: folder, file name (the key) and content lines.
GenerateHelmTemplate(d) ==
    LET rep == IF d.type = "added" THEN d.overlay ELSE d.base
    IN [folder  |-> IF is_crd(rep) THEN "crds" ELSE "templates",
        name    |-> rep.key,
        content |->
          CASE d.type = "added"     -> <<IfLine, DocLine(d.overlay), EndLine>>
            [] d.type = "removed"   -> <<IfNotLine, DocLine(d.base), EndLine>>
            [] d.type = "unchanged" -> <<DocLine(d.base)>>
            [] d.type = "modified"  -> <<IfLine, DocLine(d.overlay), ElseLine,
                                         DocLine(d.base), EndLine>>]

\* Chart.yaml and values.yaml as create_chart_structure writes them.  The
\* --default-condition option is a flag whose default is True, so main
\* always passes True.
default_condition == TRUE
ChartMeta == [chart |-> "v2"]
ValuesContent(v) == [user |-> v = "mapping", condition |-> default_condition]

\* `base_values.copy()` and set_nested_value raise for a string or a list.
ValuesUsable(v) == v \in {"none", "empty", "mapping", "generated"}

\* What load_values_file makes of values.yaml read back: a file truncated
\* by an interrupted write is empty (safe_load gives None, `or {}` makes it
\* {}) or stops mid-document and does not parse.
ReadBack(f) ==
    IF f = Torn THEN {"empty", "unparsable"}
    ELSE IF f.user THEN {"mapping"} ELSE {"generated"}

-----------------------------------------------------------------------------
(* Rendering a chart, the reference the properties compare against.        *)

Broken == [key |-> Torn, body |-> Torn]

\* Helm's evaluation of the flat if / if not / else / end lines that
\* generate_helm_template emits, with .Values.<condition> = c.
RECURSIVE RenderLines(_, _, _)
RenderLines(lines, c, live) ==
    IF lines = <<>> THEN {}
    ELSE LET l == Head(lines)
             rest == Tail(lines)
         IN CASE l.op = "doc"   -> (IF live THEN {l.res} ELSE {})
                                     \cup RenderLines(rest, c, live)
              [] l.op = "if"    -> RenderLines(rest, c, c)
              [] l.op = "ifnot" -> RenderLines(rest, c, ~c)
              [] l.op = "else"  -> RenderLines(rest, c, ~live)
              [] l.op = "end"   -> RenderLines(rest, c, TRUE)

RenderFile(f, c) ==
    IF f = NoFile THEN {} ELSE IF f = Torn THEN {Broken}
    ELSE RenderLines(f, c, TRUE)

\* The resources `helm template --set <condition>=c` produces when every
\* file is templated, as the spec's synthesizer assumes.
Rendered(c) == UNION {RenderFile(files[p], c) : p \in TemplatePaths}

\* Helm does not template files under crds/: it installs every document
\* they contain whatever the values are.
HelmRenderFile(p, c) ==
    IF p.dir = "crds" /\ files[p] \notin {NoFile, Torn}
      THEN {files[p][i].res : i \in {j \in DOMAIN files[p] : files[p][j].op = "doc"}}
      ELSE RenderFile(files[p], c)
HelmRendered(c) == UNION {HelmRenderFile(p, c) : p \in TemplatePaths}

\* The snapshot the condition selects: overlay when true, base when false.
Selected(c) == LET s == ResourcesByKey(IF c THEN overlay ELSE base)
               IN {s[k] : k \in DOMAIN s}
-----------------------------------------------------------------------------
(* The steps of main.                                                      *)

Init ==
    /\ pc = "idle"
    /\ runs = 0
    /\ base = <<>>
    /\ overlay = <<>>
    /\ diffs = <<>>
    /\ order = <<>>
    /\ idx = 1
    /\ valuesKind = "none"
    /\ files \in {[p \in Paths |-> IF p = ValuesPath THEN v ELSE NoFile] : v \in InitValues}
    /\ failure = "none"
    /\ written = {}
    /\ lastInputs = <<>>
    /\ retry = TRUE
    /\ inPlace = FALSE
    /\ userOwned = (files[ValuesPath] = UserValues)

Fail(why) == pc' = "failed" /\ failure' = why

\* A new invocation of main: setup_logging, the chart name, the argument
\* echo.  Nothing of the previous process survives but the directory.
StartRun ==
    /\ pc \in {"idle", "done", "failed"}
    /\ runs < MaxRuns
    /\ runs' = runs + 1
    /\ pc' = "load"
    /\ failure' = "none"
    /\ written' = {}
    /\ base' = <<>>
    /\ overlay' = <<>>
    /\ diffs' = <<>>
    /\ order' = <<>>
    /\ idx' = 1
    /\ valuesKind' = "none"
    /\ inPlace' = FALSE
    /\ UNCHANGED <<files, lastInputs, retry, userOwned>>

\* The path checks, both load_manifests calls and both log_debug_manifest
\* calls.  Any of them can raise (missing path, no YAML file, parse error,
\* no non-empty document, a document that is not a keyable mapping).
LoadManifests ==
    /\ pc = "load"
    /\ \/ \E b, o \in Docs :
            /\ base' = b
            /\ overlay' = o
            /\ pc' = "diff"
            /\ UNCHANGED failure
       \/ Fail("load") /\ UNCHANGED <<base, overlay>>
    /\ UNCHANGED <<runs, diffs, order, idx, valuesKind, files, written, lastInputs,
                   retry, inPlace, userOwned>>

ComputeDiffs ==
    /\ pc = "diff"
    /\ diffs' = GetResourceDiffs(base, overlay)
    /\ order' \in ResultOrders(base, overlay)
    /\ lastInputs' = <<base, overlay>>
    /\ retry' = (retry /\ lastInputs \in {<<>>, <<base, overlay>>})
    /\ pc' = "values"
    /\ UNCHANGED <<runs, base, overlay, idx, valuesKind, files, failure, written,
                   inPlace, userOwned>>

\* load_values_file; its except clauses turn every error into a
\* ClickException.  --values-file names some other file, or the chart's own
\* values.yaml, which click requires to exist.
LoadValuesFile ==
    /\ pc = "values"
    /\ \/ inPlace' = FALSE /\ valuesKind' \in ValuesKinds
       \/ /\ files[ValuesPath] # NoFile
          /\ inPlace' = TRUE
          /\ valuesKind' \in ReadBack(files[ValuesPath])
    /\ IF valuesKind' = "unparsable" THEN Fail("values")
       ELSE pc' = "chart" /\ UNCHANGED failure
    /\ userOwned' = (userOwned /\ inPlace')
    /\ UNCHANGED <<runs, base, overlay, diffs, order, idx, files, written, lastInputs, retry>>

\* create_chart_structure: the mkdirs, the Chart.yaml write, building the
\* values from base_values, the values.yaml write, each of which can raise.
\* A failed write leaves the file as it was (open failed) or torn.
CreateChartStructure ==
    /\ pc = "chart"
    /\ \/ Fail("io") /\ UNCHANGED <<files, written>>
       \/ \E f \in {files[ChartPath], Torn} :
            /\ files' = [files EXCEPT ![ChartPath] = f]
            /\ written' = IF f = Torn THEN {ChartPath} ELSE {}
            /\ Fail("io")
       \/ /\ ~ValuesUsable(valuesKind)
          /\ files' = [files EXCEPT ![ChartPath] = ChartMeta]
          /\ written' = {ChartPath}
          /\ Fail("values")
       \/ /\ ValuesUsable(valuesKind)
          /\ \E f \in {files[ValuesPath], Torn} :
               /\ files' = [files EXCEPT ![ChartPath] = ChartMeta, ![ValuesPath] = f]
               /\ written' = IF f = Torn THEN {ChartPath, ValuesPath} ELSE {ChartPath}
          /\ Fail("io")
       \/ /\ ValuesUsable(valuesKind)
          /\ files' = [files EXCEPT ![ChartPath] = ChartMeta,
                                    ![ValuesPath] = ValuesContent(valuesKind)]
          /\ written' = {ChartPath, ValuesPath}
          /\ pc' = "templates"
          /\ UNCHANGED failure
    /\ idx' = 1
    /\ UNCHANGED <<runs, base, overlay, diffs, order, valuesKind, lastInputs, retry,
                   inPlace, userOwned>>

\* One iteration of main's loop: generate_helm_template, then
\* write_template_file, whose open(..., 'w') can fail before or after
\* truncating.  The loop's end is the "generated successfully" echo.
WriteTemplate ==
    /\ pc = "templates"
    /\ LET t == GenerateHelmTemplate(diffs[order[idx]])
           p == [dir |-> t.folder, name |-> t.name]
       IN \/ /\ files' = [files EXCEPT ![p] = t.content]
             /\ written' = written \cup {p}
             /\ idx' = idx + 1
             /\ pc' = IF idx = Len(order) THEN "done" ELSE "templates"
             /\ UNCHANGED failure
          \/ \E f \in {files[p], Torn} :
               /\ files' = [files EXCEPT ![p] = f]
               /\ written' = IF f = Torn THEN written \cup {p} ELSE written
               /\ Fail("io")
               /\ UNCHANGED idx
    /\ UNCHANGED <<runs, base, overlay, diffs, order, valuesKind, lastInputs, retry,
                   inPlace, userOwned>>

Next ==
    \/ StartRun
    \/ LoadManifests
    \/ ComputeDiffs
    \/ LoadValuesFile
    \/ CreateChartStructure
    \/ WriteTemplate

Spec == Init /\ [][Next]_vars

-----------------------------------------------------------------------------
(* Properties.                                                             *)

TypeOK ==
    /\ pc \in {"idle", "load", "diff", "values", "chart", "templates",
               "done", "failed"}
    /\ runs \in 0..MaxRuns
    /\ base \in Docs \cup {<<>>}
    /\ overlay \in Docs \cup {<<>>}
    /\ \A k \in DOMAIN diffs : diffs[k] \in DiffEntry
    /\ order \in Seq(Keys)
    /\ idx \in 1..(Cardinality(Keys) + 1)
    /\ valuesKind \in ValuesKinds
    /\ files[ChartPath] \in {NoFile, Torn, ChartMeta}
    /\ files[ValuesPath] \in {NoFile, Torn} \cup ValuesFiles
    /\ failure \in {"none", "load", "values", "io"}
    /\ written \subseteq Paths
    /\ lastInputs \in (Docs \X Docs) \cup {<<>>}
    /\ retry \in BOOLEAN
    /\ inPlace \in BOOLEAN
    /\ userOwned \in BOOLEAN

\* A successful run whose every predecessor into this directory used the
\* same inputs (a first run, or a retry after runs that failed midway)
\* leaves a chart that renders exactly the overlay resources when the
\* condition is true and exactly the base resources when it is false, and
\* a values.yaml holding the condition's default.  This is the diff
\* classification, the representative and folder choice, the wrapper of
\* each diff type and the overwriting of torn files all at once.
RetryReproducesSelection ==
    (pc = "done" /\ retry) =>
        /\ files[ValuesPath] = ValuesContent(valuesKind)
        /\ \A c \in BOOLEAN : Rendered(c) = Selected(c)

\* A successful run leaves a chart that renders the selected snapshot,
\* whatever earlier runs wrote into the same directory.
ChartReproducesSelection ==
    pc = "done" => \A c \in BOOLEAN : Rendered(c) = Selected(c)

\* As RetryReproducesSelection, with Helm's treatment of crds/: the CRD
\* the chart installs must also follow the condition.
HelmChartReproducesSelection ==
    (pc = "done" /\ retry) =>
        \A c \in BOOLEAN : HelmRendered(c) = Selected(c)

\* A values file that cannot serve as the values baseline is a
\* ValuesFileError: the run stops before it writes any output.
ValuesErrorLeavesOutputUntouched ==
    (pc = "failed" /\ failure = "values") => written = {}

\* A chart whose values.yaml the user maintains, regenerated with
\* --values-file pointing at that values.yaml: a run that succeeds keeps
\* the user's values in it, however earlier runs into the directory ended.
InPlaceValuesSurvive ==
    (pc = "done" /\ userOwned) => files[ValuesPath].user
=============================================================================

---------------------------- MODULE LoadManifests ----------------------------
(***************************************************************************)
(* load_manifests (src/scripts/chartify/chartify.py) reading one path:     *)
(* a single file, a directory tree walked by two recursive globs (every    *)
(* *.yaml file, then every *.yml file, each in the order the file system   *)
(* lists them), or something else.  A file holds a sequence of documents,  *)
(* some of them empty (None, {}), some of them truthy but not a mapping   *)
(* that can be keyed, or does not parse.  One step reads one file; a last *)
(* step is main's log_debug_manifest over the result.                    *)
(***************************************************************************)
EXTENDS DiffDefs

CONSTANTS
    YamlNames,    \* file names the '**/*.yaml' glob matches
    YmlNames,     \* file names the '**/*.yml' glob matches
    PathName,     \* the path itself, when it is a file
    Empty,        \* a document yaml.safe_load_all yields that is falsy
    Unparsable,   \* a file on which yaml.safe_load_all raises YAMLError
    NotMapping,   \* a truthy document that is no mapping (a string, a list,
                  \* a number) or whose metadata is no mapping
    MaxFileDocs   \* bound on the documents of one file

VARIABLES
    kind,         \* what the path is: "file", "dir" or "other"
    files,        \* the files under the path: name -> content
    yaml_files,   \* the files in the order they are read
    j,            \* position of the read loop
    manifests,
    pc,
    error         \* the ClickException raised

vars == <<kind, files, yaml_files, j, manifests, pc, error>>

Contents == {Unparsable} \cup
            UNION {[1..n -> Resource \cup {Empty, NotMapping}] : n \in 0..MaxFileDocs}

\* A directory tree: some of the names, each with a content.
Trees == UNION {[D -> Contents] : D \in SUBSET (YamlNames \cup YmlNames)}

\* list(glob('**/*.yaml')) + list(glob('**/*.yml')), each glob in any order.
GlobOrders(fs) ==
    {a \o b : a \in SetToSeqs(DOMAIN fs \cap YamlNames),
              b \in SetToSeqs(DOMAIN fs \cap YmlNames)}

\* Mutant: every document is kept, the empty ones included.
NonEmptyKeepsAll(c) == c
\* [doc for doc in docs if doc]
NonEmpty(c) == SelectSeq(c, LAMBDA d : d # Empty)

Init ==
    /\ kind \in {"file", "dir", "other"}
    /\ files \in CASE kind = "file" -> [{PathName} -> Contents]
                   [] kind = "dir"  -> Trees
                   [] OTHER         -> {<<>>}
    /\ yaml_files = <<>>
    /\ j = 1
    /\ manifests = <<>>
    /\ pc = "start"
    /\ error = "none"

Raise(e) == pc' = "failed" /\ error' = e

\* The is_file / is_dir branches, with the directory's globs.
Start ==
    /\ pc = "start"
    /\ \/ /\ kind = "file"
          /\ yaml_files' = <<PathName>>
          /\ pc' = "read"
          /\ UNCHANGED error
       \/ /\ kind = "dir"
          /\ yaml_files' \in GlobOrders(files)
          /\ IF yaml_files' = <<>> THEN Raise("no yaml files")
             ELSE pc' = "read" /\ UNCHANGED error
       \/ /\ kind = "other"
          /\ Raise("path not found")
          /\ UNCHANGED yaml_files
    /\ UNCHANGED <<kind, files, j, manifests>>

\* One file: parse it and extend manifests with its non-empty documents.
ReadFile ==
    /\ pc = "read"
    /\ j <= Len(yaml_files)
    /\ LET c == files[yaml_files[j]]
       IN IF c = Unparsable
            THEN Raise("parse") /\ UNCHANGED manifests
            ELSE manifests' = manifests \o NonEmpty(c) /\ UNCHANGED <<pc, error>>
    /\ j' = j + 1
    /\ UNCHANGED <<kind, files, yaml_files>>

\* if not manifests: raise; otherwise return them.
Finish ==
    /\ pc = "read"
    /\ j > Len(yaml_files)
    /\ IF manifests = <<>> THEN Raise("no valid manifests")
       ELSE pc' = "done" /\ UNCHANGED error
    /\ UNCHANGED <<kind, files, yaml_files, j, manifests>>

\* manifest.get('kind', ...) and manifest.get('metadata', {}).get('name', ...)
\* raise AttributeError unless both are mappings.
Loggable(d) == d # NotMapping

\* main's log_debug_manifest over the returned list; the AttributeError is
\* caught by main's `except Exception` and ends the run.
LogDebugManifest ==
    /\ pc = "done"
    /\ IF \A n \in 1..Len(manifests) : Loggable(manifests[n])
         THEN pc' = "logged" /\ UNCHANGED error
         ELSE Raise("attribute")
    /\ UNCHANGED <<kind, files, yaml_files, j, manifests>>

Next == Start \/ ReadFile \/ Finish \/ LogDebugManifest

Spec == Init /\ [][Next]_vars

-----------------------------------------------------------------------------
Concat(w) == FlattenSeq([n \in 1..Len(w) |-> NonEmpty(files[w[n]])])

\* A successful load returns every non-empty document of every file the
\* globs find, and nothing else, each file's documents together and in
\* their order in the file; "no valid manifests" is raised only when every
\* document found is empty.
LoadsEveryDocument ==
    /\ pc \in {"done", "logged"} =>
         /\ manifests # <<>>
         /\ \A n \in 1..Len(manifests) : manifests[n] # Empty
         /\ \E w \in SetToSeqs(DOMAIN files) : manifests = Concat(w)
    /\ pc = "failed" /\ error = "no valid manifests" =>
         \A f \in DOMAIN files : files[f] # Unparsable /\ NonEmpty(files[f]) = <<>>

\* The resources keyed as get_resource_diffs keys them (last document
\* wins) depend only on the directory's content, not on the order in which
\* the file system lists its files.
KeyedResourcesIndependentOfOrder ==
    pc = "logged" /\ kind = "dir" =>
        \A w \in GlobOrders(files) :
            ResourcesByKey(manifests) = ResourcesByKey(Concat(w))
=============================================================================

---------------------------- MODULE MCResourceKey ----------------------------
(* Field values for ResourceKey.  The Kubernetes-valid universe: names and *)
(* namespaces are DNS names (no '_'), a named API group contains a dot     *)
(* (so no group is called "core"), kinds differ by more than case, and    *)
(* apiVersion, kind and name are present.  The unchecked universe adds     *)
(* what chartify accepts without validation.  "CRD" and "apix.io" stand    *)
(* for CustomResourceDefinition and apiextensions.k8s.io.                  *)
EXTENDS ResourceKey

MCUpper == {"C", "R", "D", "P"}
MCToLower == [c \in MCUpper |-> CASE c = "C" -> "c" [] c = "R" -> "r"
                                  [] c = "D" -> "d" [] c = "P" -> "p"]

ValidApiVersions == {<<"v", "1">>, <<"a", ".", "b", "/", "v", "1">>,
                     <<"a", "p", "i", "x", ".", "i", "o", "/", "v", "1">>}
ValidKinds == {<<"C", "R", "D">>, <<"P", "o">>}
ValidNames == {<<"a">>, <<"b", ".", "c">>}
ValidNamespaces == {Missing, <<>>, <<"a">>}

\* chartify reads any YAML: '_' in names, a group named core, kinds that
\* differ only in case, missing fields.
AnyApiVersions == ValidApiVersions \cup {<<"c", "o", "r", "e", "/", "v", "1">>, Missing}
AnyKinds == ValidKinds \cup {<<"C", "r", "D">>, Missing}
AnyNames == ValidNames \cup {<<"a", "_", "b">>, Missing}
AnyNamespaces == ValidNamespaces \cup {<<"b">>}
=============================================================================

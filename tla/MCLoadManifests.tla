--------------------------- MODULE MCLoadManifests ---------------------------
(* load_manifests over a directory of two .yaml files and one .yml file,   *)
(* two keys and two bodies, and up to two documents per file.              *)
EXTENDS LoadManifests

CONSTANTS k1, k2, b1, b2, y1, y2, m1

MCKeys == {k1, k2}
MCBodies == {b1, b2}
MCYamlNames == {y1, y2}
MCYmlNames == {m1}
=============================================================================

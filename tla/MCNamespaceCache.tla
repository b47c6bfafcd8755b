-------------------------- MODULE MCNamespaceCache --------------------------
(* NamespaceCache on a small cluster: one ordinary namespace, one that the *)
(* exclusion globs match, two descriptions, one request thread.            *)
EXTENDS NamespaceCache

CONSTANTS team, kubeSystem, plain, described, thread

MCNames == {team, kubeSystem}
MCExcluded == {kubeSystem}
MCValues == {plain, described}
MCReaders == {thread}
=============================================================================

---------------------------- MODULE MCPatchGate ----------------------------
(* Values for the constants of PatchGate that a .cfg file cannot write.    *)
EXTENDS PatchGate

CONSTANTS s1, s2, p1, p2

\* The default branch: a plain name, or one with a slash in it.
Trunk == <<"trunk">>
Release == <<"release", "1.0">>
Topic == <<"topic">>

RepoBranches == {Main, Default, Topic}
Heads == {Main, Default, Topic, Detached}

\* GloScope configures neither policy nor profile: codex's defaults, on a
\* host that has a sandbox.
AppSettings == {[policy |-> "on_request", managed |-> TRUE, fullDisk |-> FALSE,
                 netConfined |-> TRUE, deniedReads |-> FALSE, platform |-> TRUE]}
AllSettings == SettingRecords
=============================================================================

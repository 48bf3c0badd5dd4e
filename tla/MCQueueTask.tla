---------------------------- MODULE MCQueueTask ----------------------------
(* Small worlds of ids for QueueTask. *)
EXTENDS QueueTask

CONSTANTS mod, lowMod, file, hiddenFile, lowFile, junk

\* CurseForge: a mod asked for by its id, a file and a hidden file of it, a
\* mod out of range and a file of it, and a member that is no id.
MCMods     == {mod, lowMod}
MCAccepted == {mod}
MCHidden   == {hiddenFile}
MCMembers  == {mod, lowMod, file, hiddenFile, lowFile, junk}
MCKindOf   == [m \in MCMembers |-> IF m \in {mod, lowMod, junk} THEN 1 ELSE 2]
MCModOf    == [m \in MCMembers |->
    CASE m \in {mod, file, hiddenFile} -> mod
      [] m \in {lowMod, lowFile}       -> lowMod
      [] m = junk                      -> NoMod]

CONSTANTS project, version, hash, unknown

\* Modrinth: a project, a version and a hash of it, and a hash nobody knows.
MrMods     == {project}
MrMembers  == {project, version, hash, unknown}
MrKindOf   == [m \in MrMembers |-> CASE m = project -> 1 [] m = version -> 2
                                      [] m \in {hash, unknown} -> 3]
MrModOf    == [m \in MrMembers |-> IF m = unknown THEN NoMod ELSE project]
=============================================================================

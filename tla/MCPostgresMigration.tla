------------------------ MODULE MCPostgresMigration -------------------------
(* An instance of PostgresMigration for TLC. *)
EXTENDS PostgresMigration

MCObjects == <<"continuation_streams", "continuation_events", "pausemesh_events_no_truncate">>

Applied(version, checksum, objects) ==
    [objects |-> objects \cup {MigrationTable},
     migrations |-> {[version |-> version, checksum |-> checksum]}]

\* A fresh database; one that is migrated; one whose trigger was dropped; one
\* that a later version has migrated; ones with a table, or with
\* an empty migration table, but no record.
MCDatabases ==
    {Nothing, [Nothing EXCEPT !.objects = {MCObjects[1]}],
     [Nothing EXCEPT !.objects = {MigrationTable}]}
        \cup UNION {{Applied(1, k, ToSet(MCObjects)), Applied(1, k, {MCObjects[1], MCObjects[2]}),
                     Applied(2, k, ToSet(MCObjects))} : k \in Checksums}
=============================================================================

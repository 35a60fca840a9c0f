------------------------------ MODULE MCTools ------------------------------
(* Instances of Tools for TLC. *)
EXTENDS Tools

CONSTANTS t1, t2

\* The modes of the files in the comment of chmod.c, and one with all bits.
MCModes == {
    {"IRUSR", "IWUSR", "IRGRP", "IXGRP", "IROTH"},
    {"IWUSR", "IRGRP", "IROTH", "IWOTH"},
    {"IRUSR", "IWUSR", "IXUSR", "IRGRP", "IWGRP", "IXGRP", "IROTH", "IWOTH", "IXOTH",
     "ISUID", "ISGID", "ISVTX"}}

\* Two subdirectories, and a file in one of them that has its name.
MCDirs == {<<>>, <<"top">>, <<"top", "a">>, <<"top", "b">>}
MCTree == MCDirs \cup {<<"top", "f">>, <<"top", "a", "a">>, <<"top", "b", "f">>}

\* "./list .", "./list top" and "./list top/a".
MCArgs == {<<>>, <<"top">>, <<"top", "a">>}

\* Readings at the limits of bytes and of signs.
MCClimate     == {<<-1, 300>>, <<256, -32768>>}
MCWeather     == {<<-32768, 4149248>>, <<255, 65536>>}
MCCalibration == {<<-1, 120, 256, 256>>, <<256, 240, 256, 250>>, <<-20, 0, 600, 1023>>}
=============================================================================

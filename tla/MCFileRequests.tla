--------------------------- MODULE MCFileRequests ---------------------------
(* FileRequests for TLC: two requests, two files, the second one only made  *)
(* from a descriptor.                                                       *)
EXTENDS FileRequests, TLC

CONSTANTS File1, File2

TwoFiles == {File1, File2}
TwoRequests == 1..2

Ways == (File1 :> {"sync", "async"}) @@ (File2 :> {"descriptor"})

\* Every class; the ones that change a file along with a write.
Pairs ==
    {<<"write", "write">>, <<"sendfile", "write">>, <<"close", "write">>,
     <<"read", "sync">>, <<"truncate", "stat">>, <<"chmod", "chown">>,
     <<"utime", "unlink">>, <<"mkdir", "mkdtemp">>, <<"rmdir", "scandir">>,
     <<"rename", "access">>, <<"link", "readlink">>, <<"realpath", "unlink">>}

=============================================================================

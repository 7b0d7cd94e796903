------------------------------ MODULE FsCalls ------------------------------
(***************************************************************************)
(* The calls that the runs of Fs make, on the same few paths from / and    *)
(* from d, so that they meet in every directory.                           *)
(***************************************************************************)

C(call, path, new) == [call |-> call, path |-> path, new |-> new]
MCCalls ==
    {C("open", <<"/", "d", "x">>, <<>>), C("openw", <<"d">>, <<>>),
     C("creat", <<"d", "x">>, <<>>), C("mkdir", <<"/", "d">>, <<>>),
     C("mknod", <<"x">>, <<>>),
     C("chdir", <<"/", "d">>, <<>>), C("chdir", <<"/">>, <<>>), C("chdir", <<"x">>, <<>>),
     C("link", <<"/", "d", "x">>, <<"x">>), C("link", <<"x">>, <<"/", "d", "x">>),
     C("link", <<"d">>, <<"x">>),
     C("unlink", <<"/", "d", "x">>, <<>>), C("unlink", <<"/", "d">>, <<>>),
     C("unlink", <<"x">>, <<>>),
     C("close", <<>>, <<>>)}
============================================================================

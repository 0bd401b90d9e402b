----------------------------- MODULE MCDemoFiles -----------------------------
(* DemoFiles with the uses the descriptions of the drivers suggest.         *)
EXTENDS DemoFiles

(* Every use of this set ends.                                              *)
MCEnding == {<<"demo02", "echo">>, <<"demo02", "cat">>, <<"demo03", "echo">>,
             <<"demo03", "head">>, <<"demo01", "cat">>, <<"file-operation", "cat">>}

(* The use demo03.c gives as its example.                                   *)
MCDemo03Echo  == {<<"demo03", "echo">>}
=============================================================================

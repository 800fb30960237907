---------------------------- MODULE MCScriptRun ----------------------------
(* Constants that a cfg cannot write down. *)
EXTENDS ScriptRun

FirstHi   == <<"hi", "hi">>
FirstBoth == <<"hi", "bye">>
OneHi     == <<"hi">>
=============================================================================

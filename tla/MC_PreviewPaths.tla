--------------------------- MODULE MC_PreviewPaths ---------------------------
(* PreviewPaths in the workspace /a, for the documents of up to three      *)
(* levels made of four names: two plain ones, an .rst file and a name     *)
(* with a dot that is not a source file.                                   *)
EXTENDS PreviewPaths

CONSTANTS Unset_, NoDoc_

\* workspace.rootPath
MCRoot == <<"/", "a">>

\* a, b, c.rst, d.e
MCNames == {<<"a">>, <<"b">>, <<"c", ".", "r">>, <<"d", ".", "e">>}

\* Every absolute path of one to three of the names.
MCDocPaths == {Unsplit(<< << >> >> \o s) : s \in BoundedSeq(MCNames, 3) \ {<< >>}}

\* confPath: unset (the root), the root by its macro, a docs folder under
\* the root written with the macro, with a trailing '/', or in full.
MCConfSettings == {Unset_, <<"$">>, <<"$", "/", "b">>, <<"$", "/", "b", "/">>,
                   <<"/", "a", "/", "b">>}

\* builtDocumentationPath: unset (root/_build/html) or a folder outside.
MCOutSettings == {Unset_, <<"/", "o">>}
=============================================================================

---------------------------- MODULE PreviewPaths ----------------------------
(***************************************************************************)
(* Which html file the preview of lextudio.restructuredtext reads         *)
(* (out/extension.js).  provideTextDocumentContent(uri) loads the         *)
(* settings confPath and builtDocumentationPath into this._input and      *)
(* this._output (expanding ${workspaceRoot}) and runs                      *)
(*     sphinx-build -b html . "<output>"        in the directory input;  *)
(* preview(uri) takes uri.fsPath, the document's path plus '.rendered'    *)
(* (getRstUri), strips that suffix and the document's own extension at    *)
(* lastIndexOf('.'), appends '.html', cuts off the first input.length     *)
(* characters and joins the rest to the output directory.                 *)
(*                                                                         *)
(* Paths are strings, written as sequences of one-character strings,      *)
(* since the code cuts them by character count.  Fixed words are          *)
(* abbreviated to one letter: "r" for rst, "h" for html, "R" for rendered, *)
(* "$" for ${workspaceRoot}.  Paths are posix; path.join is modelled by    *)
(* what node's path.join and path.normalize do.                           *)
(***************************************************************************)
EXTENDS Integers, SequencesExt

CONSTANTS
    Root,          \* workspace.rootPath
    DocPaths,      \* fsPath of the documents whose preview is opened
    ConfSettings,  \* values of restructuredtext.confPath
    OutSettings,   \* values of restructuredtext.builtDocumentationPath
    Unset,         \* a setting the user has not set
    NoDoc          \* no preview asked for yet

Rendered  == <<".", "R">>          \* '.rendered'
Html      == <<".", "h">>          \* '.html'
RstSuffix == <<".", "r">>          \* '.rst', sphinx's source suffix
Macro     == <<"$">>               \* '${workspaceRoot}'
BuildDir  == <<"_", "/", "h">>     \* the "_build", "html" of the default

VARIABLES
    confPath,   \* the confPath setting
    outPath,    \* the builtDocumentationPath setting
    input,      \* this._input
    output,     \* this._output
    request,    \* the document of the last provideTextDocumentContent
    finalName   \* the html file that call stats and reads

vars == <<confPath, outPath, input, output, request, finalName>>

-----------------------------------------------------------------------------
(* String.prototype operations, with 0-based indices.                     *)

\* s.lastIndexOf(c): the last index of c, -1 when there is none.
LastIndexOf(s, c) == SelectLastInSeq(s, LAMBDA x : x = c) - 1

\* The index i of s.substring, clamped to 0..s.length.
Clamp(i, s) == IF i < 0 THEN 0 ELSE IF i > Len(s) THEN Len(s) ELSE i

\* s.substring(a, b): the characters between the clamped indices, which
\* are swapped when a > b.
Substring(s, a, b) ==
    LET i == Clamp(a, s)
        j == Clamp(b, s)
    IN  IF i <= j THEN SubSeq(s, i + 1, j) ELSE SubSeq(s, j + 1, i)

-----------------------------------------------------------------------------
(* node's path module, posix.                                             *)

\* The '/'-separated parts of s, empty ones included.
Split(s) ==
    FoldLeft(LAMBDA acc, c : IF c = "/" THEN Append(acc, << >>)
                             ELSE [acc EXCEPT ![Len(acc)] = Append(@, c)],
             << << >> >>, s)

\* The parts joined with '/'.
Unsplit(parts) ==
    IF parts = << >> THEN << >>
    ELSE FoldLeft(LAMBDA acc, p : acc \o <<"/">> \o p, Head(parts), Tail(parts))

\* normalizeString: empty and '.' parts dropped, '..' resolved (and
\* dropped at the root of an absolute path).
Resolve(parts, abs) ==
    FoldLeft(LAMBDA acc, p :
                IF p \in {<< >>, <<".">>} THEN acc
                ELSE IF p = <<".", ".">>
                     THEN IF acc # << >> /\ Last(acc) # <<".", ".">> THEN Front(acc)
                          ELSE IF abs THEN acc ELSE Append(acc, p)
                     ELSE Append(acc, p),
             << >>, parts)

\* path.normalize(s): the resolved parts, '.' for none, the leading '/'
\* and a trailing '/' kept.
Normalize(s) ==
    LET abs   == s # << >> /\ Head(s) = "/"
        body  == Unsplit(Resolve(Split(s), abs))
        body1 == IF body = << >> /\ ~abs THEN <<".">> ELSE body
        body2 == IF body1 # << >> /\ Last(s) = "/" THEN body1 \o <<"/">> ELSE body1
    IN  IF abs THEN <<"/">> \o body2 ELSE body2

\* path.join(a, b): the non-empty arguments joined with '/' and normalised.
PathJoin(a, b) ==
    LET parts == SelectSeq(<<a, b>>, LAMBDA p : p # << >>)
    IN  IF parts = << >> THEN <<".">> ELSE Normalize(Unsplit(parts))

-----------------------------------------------------------------------------
(* The provider.                                                           *)

\* RstDocumentContentProvider.expandMacro: the first '${workspaceRoot}'
\* of the setting replaced by the root.
ExpandMacro(s) == ReplaceFirstSubSeq(Root, Macro, s)

\* loadSetting(section, default): the setting, or the default when unset,
\* expanded.
LoadSetting(value, default) == ExpandMacro(IF value = Unset THEN default ELSE value)

\* getRstUri(uri): the preview uri's path, the document's path plus
\* '.rendered'; its fsPath is that path.
GetRstUri(p) == p \o Rendered

\* Mutant: the cut is one character past the input directory.
RelativeDocumentationPathPastSlash(whole, in) == Substring(whole, Len(in) + 1, Len(whole))

\* relativeDocumentationPath(whole): whole.substring(this._input.length).
RelativeDocumentationPath(whole, in) == Substring(whole, Len(in), Len(whole))

\* preview(uri): strip '.rendered' when fsPath ends with it, replace the
\* extension after the last '.' by '.html', and join the part after the
\* input directory to the output directory.
FinalName(fsPath, in, out) ==
    LET w1 == IF IsSuffix(Rendered, fsPath)
              THEN Substring(fsPath, 0, LastIndexOf(fsPath, "."))
              ELSE fsPath
        w2 == Substring(w1, 0, LastIndexOf(w1, ".")) \o Html
    IN  PathJoin(out, RelativeDocumentationPath(w2, in))

Init ==
    /\ confPath \in ConfSettings
    /\ outPath \in OutSettings
    /\ input = << >> /\ output = << >>
    /\ request = NoDoc
    /\ finalName = << >>

\* The user edits the settings.
Configure(c, o) ==
    /\ confPath' = c /\ outPath' = o
    /\ UNCHANGED <<input, output, request, finalName>>

\* provideTextDocumentContent(getRstUri(d)): the settings are loaded into
\* this._input and this._output, then preview(uri) names the html file.
ProvideTextDocumentContent(d) ==
    /\ input' = LoadSetting(confPath, Root)
    /\ output' = LoadSetting(outPath, PathJoin(Root, BuildDir))
    /\ request' = d
    /\ finalName' = FinalName(GetRstUri(d), input', output')
    /\ UNCHANGED <<confPath, outPath>>

Next ==
    \/ \E c \in ConfSettings, o \in OutSettings : Configure(c, o)
    \/ \E d \in DocPaths : ProvideTextDocumentContent(d)

Spec == Init /\ [][Next]_vars

-----------------------------------------------------------------------------
(* What sphinx-build -b html . <output> writes, run in the directory in:   *)
(* for every source file below in with the suffix .rst, the page at its    *)
(* path relative to in, with .html for .rst.                               *)

\* The non-empty parts of an absolute path without '.' or '..' parts.
Parts(p) == SelectSeq(Split(p), LAMBDA x : x # << >>)

\* Sphinx builds the document d from the source directory in.
Built(d, in) ==
    LET dp == Parts(d)
        ip == Parts(in)
    IN  /\ in # << >> /\ Head(in) = "/"
        /\ Len(dp) > Len(ip) /\ SubSeq(dp, 1, Len(ip)) = ip
        /\ IsSuffix(RstSuffix, Last(dp)) /\ Len(Last(dp)) > Len(RstSuffix)

\* The page sphinx writes for the built document d.
Page(d, in, out) ==
    LET dp   == Parts(d)
        rel  == SubSeq(dp, Len(Parts(in)) + 1, Len(dp))
        stem == SubSeq(Last(rel), 1, Len(Last(rel)) - Len(RstSuffix))
    IN  PathJoin(out, Unsplit(Front(rel) \o <<stem \o Html>>))

-----------------------------------------------------------------------------
\* The preview of a document the build renders reads that document's own
\* page: cutting the html path at confPath's length lands on the
\* directory sphinx builds from, with or without a trailing '/', and the
\* '.rendered' and '.rst' suffixes are both stripped.
ReadsOwnPage ==
    request # NoDoc /\ Built(request, input) =>
        finalName = Page(request, input, output)

\* The preview of a document never reads the page sphinx wrote for another
\* document.
NeverReadsOtherPage ==
    request # NoDoc =>
        \A e \in DocPaths :
            Built(e, input) /\ finalName = Page(e, input, output) => e = request
=============================================================================

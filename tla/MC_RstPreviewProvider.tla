----------------------- MODULE MC_RstPreviewProvider -----------------------
(* Two rst documents and one document of another language.                 *)
EXTENDS RstPreviewProvider

MCDocs == {"a.rst", "b.rst", "notes.md"}
MCRstDocs == {"a.rst", "b.rst"}
=============================================================================

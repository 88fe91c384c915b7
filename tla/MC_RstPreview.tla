---------------------------- MODULE MC_RstPreview ----------------------------
(* Two rst documents and one document of another language; the calls for  *)
(* a.rst are followed, up to two at once, over one save, on win32.        *)
EXTENDS RstPreview

MCDocs == {"a.rst", "b.rst", "notes.md"}
MCRstDocs == {"a.rst", "b.rst"}
MCMaxVersion == 1
=============================================================================

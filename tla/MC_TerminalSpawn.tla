-------------------------- MODULE MC_TerminalSpawn --------------------------
(* TerminalSpawn with the poll limit of console.js.                        *)
EXTENDS TerminalSpawn

\* `if (it > 500)`
MCMaxIt == 500

\* The configured emulator is installed, or spawn fails with ENOENT.
MCEmulators == {"found", "missing"}

\* Only installed emulators.
MCFoundEmulators == {"found"}
=============================================================================

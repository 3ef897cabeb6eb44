----------------------------- MODULE MCStartup -----------------------------
(* A small instance of Startup for TLC: files 1 and 3 can be repeated (3, like   *)
(* 007, only until the next one), 2 and 4 cannot (like 005 and 008).             *)
EXTENDS StartupProofs

CONSTANTS sample01, test001, other, admin, member, renamed

MCSeedCodes  == <<sample01, test001>>
MCSeedEmails == <<admin, member>>
MCBreaks     == {<<3, 4>>}
=============================================================================

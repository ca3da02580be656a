----------------------------- MODULE MCIssueSync -----------------------------
(* Small instances of IssueSync.                                           *)
EXTENDS IssueSync

CONSTANTS chat, timer

MCBlockers == <<chat, timer>>
=============================================================================

------------------------------- MODULE MC_ULog -------------------------------
(* Two verbs over one URI (the compaction keeps a row per verb) and pages of *)
(* two slots, so that a full page, and with it a last slot that is not       *)
(* padding, comes up at every second append.                                 *)
EXTENDS ULog

CONSTANTS post, get, uri, none

MCVerb == {post, get}
MCKey  == {uri}
==============================================================================

---------------------------- MODULE MCDatasetLoad ----------------------------
(***************************************************************************)
(* Sources, archives and failures for checking DatasetLoad with TLC.       *)
(***************************************************************************)
EXTENDS DatasetLoad

\* The second version is shorter than the first.
TwoVersions == <<2, 1>>

TheLoader == CHOOSE p \in Callers : TRUE

Starts(n) == [p \in Callers |-> n]

\* One process that downloads an archive with one file, and is started twice.
Plain ==
  [loaders |-> {TheLoader}, getters |-> {}, source |-> "url", mime |-> "zip",
   entries |-> <<"file">>, replace |-> TRUE, retries |-> 1, runs |-> Starts(2)]

Archives ==
  {[Plain EXCEPT !.entries = e] :
     e \in {<< >>, <<"file">>, <<"bad">>, <<"file", "bad">>, <<"file", "file">>}}

OtherSources ==
  {[Plain EXCEPT !.source = s] : s \in {"json", "other"}}
    \cup {[Plain EXCEPT !.mime = m] : m \in {"json", "image", "unsupported"}}

Retrying == {[Plain EXCEPT !.mime = "json", !.retries = n, !.runs = Starts(3)] : n \in {0, 2}}

\* One process that must not meet a file of its own.
Creating == {[Plain EXCEPT !.replace = FALSE, !.mime = m] : m \in {"json", "zip"}}

\* Two processes at a time, which may have the same name for their download.
Twofold ==
  {[Plain EXCEPT !.loaders = Callers, !.mime = m, !.replace = r, !.retries = 0,
                 !.runs = Starts(1)] :
     m \in {"json", "zip"}, r \in BOOLEAN}

\* Of two processes one may fail or be killed, and is started again.
Disturbed ==
  {[Plain EXCEPT !.loaders = Callers, !.retries = 0,
                 !.runs = [Starts(1) EXCEPT ![TheLoader] = 2]]}

\* A request of the Scryfall client, which may give up.
Cancelled ==
  {[Plain EXCEPT !.loaders = {}, !.getters = {TheLoader}, !.retries = n] : n \in {0, 1, 3}}

AllSetups == Archives \cup OtherSources \cup Retrying \cup Creating \cup Twofold
  \cup Disturbed \cup Cancelled
=============================================================================

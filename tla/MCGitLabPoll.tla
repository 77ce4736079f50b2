---------------------------- MODULE MCGitLabPoll -----------------------------
(* Small instances of GitLabPoll for TLC.                                   *)
EXTENDS GitLabPoll

AllSources == <<"todos", "events", "pipes">>
TodosAndPipes == <<"todos", "pipes">>
OnlyTodos  == <<"todos">>
OnlyEvents == <<"events">>
=============================================================================

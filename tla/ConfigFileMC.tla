----------------------------- MODULE ConfigFileMC -----------------------------
(***************************************************************************)
(* Two commands at a time on a small file.                                 *)
(***************************************************************************)
EXTENDS ConfigFile, TLC

MCFolded == [n \in {} |-> ""]

MCMatched == [g \in {} |-> {}]

MCPortal ==
  [s \in Sessions |->
     {[id |-> "111", name |-> "dev", roles |-> {"read"}]}]

PortalKeys == <<<<"sso_start_url", "corp.start">>, <<"sso_region", "us">>>>

Answers ==
  [typed |-> None, signed |-> Sessions, portal |-> MCPortal, credentials |-> {}]

MCCommands ==
  { [op |-> "sync", env |-> None, flags |-> <<>>, reset |-> FALSE] @@ Answers,
    [op |-> "select", target |-> <<"dev", "read">>, adopt |-> TRUE] @@ Answers,
    [op |-> "doctor", scopes |-> {"corp"}, legacy |-> {<<<<"corp.start">>, <<"us">>>>}] }

MCLines == {Marked("default", None)}

\* A session, and a profile that logs in at its portal in the legacy way.
MCInitial ==
  { Whole(<<Section("session", "corp", PortalKeys),
            Section("profile", "ops",
                    PortalKeys \o <<<<"sso_account_id", "111">>,
                                    <<"sso_role_name", "read">>>>)>>) }

=============================================================================

------------------------------ MODULE RoleTargets ------------------------------
(***************************************************************************)
(* The session a command acts on, and the account and role it gets         *)
(* credentials for (src/cli/context.rs, src/cli/target.rs, the readers of  *)
(* src/aws_files/read.rs).  None of this changes a file.                   *)
(***************************************************************************)
EXTENDS SyncPlan

\* A session is known to the service by its start URL and region.
Portal(keys) == <<Value(keys, "sso_start_url"), Value(keys, "sso_region")>>

PortalOf(t, s) == Portal(SectionKeys(t, "session", s))

\* AwsFiles::sso_session: the section is there and has both.
Reads(t, s) == <<>> \notin Range(PortalOf(t, s))

Scopes(t, s) == Value(SectionKeys(t, "session", s), "sso_registration_scopes")

\* legacy_sso_profile
IsLegacy(t, n) ==
  LET keys == ProfileKeys(t, n)
  IN ~Has(keys, "sso_session") /\ <<>> \notin Range(Portal(keys))

-----------------------------------------------------------------------------
(***************************************************************************)
(* resolve_session, without --profile.  `typed` is --session and `env` is  *)
(* GAC_REDUX_SESSION.                                                      *)
(***************************************************************************)
DefaultSession(t) == Value(ProfileKeys(t, Default), "sso_session")

SessionFor(t, typed, env) ==
  LET default == SessionsIn(t) \cap Range(DefaultSession(t))
      named == CASE typed # None -> {typed}
                 [] typed = None /\ env # None -> {env}
                 [] typed = None /\ env = None /\ default # {} -> default
                 [] OTHER -> SessionsIn(t)
  IN IF Cardinality(named) = 1 THEN {s \in named : Reads(t, s)} ELSE {}

-----------------------------------------------------------------------------
(***************************************************************************)
(* The rows `gac list` shows: of the typed session, or of all of them.  A  *)
(* session that needs a login is left out while there are others.          *)
(***************************************************************************)
ListedSessions(t, typed) == IF typed = None THEN SessionsIn(t) ELSE {typed}

Rows(t, typed, signed, portal) ==
  LET names == ListedSessions(t, typed)
      listed(s) == UNION {{[session |-> s, account |-> a, role |-> r] : r \in a.roles} :
                          a \in portal[s]}
  IN IF /\ \A s \in names : Reads(t, s)
        /\ names \subseteq signed \/ Cardinality(names) > 1
     THEN UNION {listed(s) : s \in names \cap signed}
     ELSE {}

\* How a row can be named: on the command line, or by choosing it in the list.
Spellings(row) ==
  {<<row.account.name, row.role>>, <<AccountSlug(row.account), row.role>>,
   <<row.account.id, row.role>>, <<row.session, row.account.id, row.role>>}

\* target::find
RowsNamed(rows, target) == {row \in rows : target \in Spellings(row)}

-----------------------------------------------------------------------------
(***************************************************************************)
(* target::resolve: the role of a profile, by its portal, or NoRole where  *)
(* the command fails.                                                      *)
(***************************************************************************)
NoRole == <<>>

AsRole(portal, account, role) ==
  IF <<>> \in {portal[1], portal[2], account, role} THEN NoRole
  ELSE <<portal, account, role>>

\* session_of_profile, by the portal of the session.
PortalOfProfile(t, n) ==
  LET keys == ProfileKeys(t, n)
      process == Value(keys, "credential_process")
      session == Value(keys, "sso_session")
  IN CASE session # <<>> -> PortalOf(t, session[1])
       [] session = <<>> /\ OwnCommand(process) -> PortalOf(t, process[2])
       [] OTHER -> Portal(keys)

\* The region is read first: a profile has no role where it does not parse.
RoleOf(t, n) ==
  LET keys == ProfileKeys(t, n)
      process == Value(keys, "credential_process")
      parses == Garbled \notin Range(Value(keys, "region"))
  IN CASE ~parses -> NoRole
       [] parses /\ OwnCommand(process) ->
            AsRole(PortalOf(t, process[2]), <<process[3]>>, <<process[4]>>)
       [] OTHER -> AsRole(PortalOfProfile(t, n), Value(keys, "sso_account_id"),
                          Value(keys, "sso_role_name"))

RoleOfRow(t, row) ==
  AsRole(PortalOf(t, row.session), <<row.account.id>>, <<row.role>>)

\* The environment variables that name a profile, the first to be looked at first.
ProfileVariables == <<"AWS_PROFILE", "AWS_DEFAULT_PROFILE">>

\* profile_from_env, and [default] when neither is set.
ProfileInUse(shell) ==
  LET set == SelectSeq(ProfileVariables, LAMBDA var : shell[var] # "")
  IN IF set = <<>> THEN Default ELSE shell[Head(set)]

\* What `gac exec` and `gac env` use when they are given neither a profile nor an
\* account and role.
RoleInUse(t, shell) == RoleOf(t, ProfileInUse(shell))

-----------------------------------------------------------------------------
(***************************************************************************)
(* What reports say: `gac status` of a session's block, and of [default]   *)
(* under the session it uses; `gac doctor` of the default block.           *)
(***************************************************************************)
Header(t, s) ==
  IF HasBlock(t, s) THEN t.lines[BlockOf(t, s).first].keys ELSE DefaultSettings

\* block_status: settings that cannot be read are shown as the defaults.
StatusBlock(t, s) ==
  LET block == BlockOf(t, s)
  IN [profiles |-> Cardinality({i \in block.first .. block.last :
                                  t.lines[i].k = "profile"}),
      settings |-> Settings(IF Readable(Header(t, s)) THEN Header(t, s)
                            ELSE DefaultSettings, <<>>)]

StatusDefault(t, s) ==
  LET keys == ProfileKeys(t, Default)
  IN IF Value(keys, "sso_session") = <<s>>
     THEN <<Value(keys, "sso_account_id"), Value(keys, "sso_role_name")>>
     ELSE NoRole

DoctorDefault(t) ==
  LET found == FindDefault(t)
      section == IF found.ok /\ found.managed # <<>> THEN DefaultLines(t, found)
                 ELSE <<>>
  IN IF Range(GetIn(section, "sso_session")) \subseteq SessionsIn(t)
     THEN <<GetIn(section, "sso_account_id"), GetIn(section, "sso_role_name")>>
     ELSE NoRole

=============================================================================

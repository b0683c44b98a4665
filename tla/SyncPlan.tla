-------------------------------- MODULE SyncPlan --------------------------------
(***************************************************************************)
(* What `gac sync` puts into a session's block (src/profiles.rs): the      *)
(* settings in its BEGIN line, the profiles they make of the accounts and  *)
(* roles the portal lists, and how a profile is written.                   *)
(***************************************************************************)
EXTENDS ConfigText

CONSTANTS
  Folded,   \* the account and role names that profile names cannot hold, each
            \* with what is left of it (lower case, for an account), or ""
  Matched   \* the globs, each with the texts it matches

Account == [id : STRING, name : STRING, roles : SUBSET STRING]

-----------------------------------------------------------------------------
(***************************************************************************)
(* Settings: for each key, the lines of a BEGIN line that have it.  A      *)
(* header names each of mode, name and region once.                        *)
(***************************************************************************)
SettingKeys == {"mode", "name", "region", "include", "exclude"}

DefaultSettings == <<<<"mode", "sso">>, <<"name", "{account}", "/", "{role}">>>>

LinesOf(keys, key) ==
  FlattenSeq([i \in DOMAIN keys |-> IF keys[i][1] = key THEN <<keys[i]>> ELSE <<>>])

\* A mode, a name or a region that does not parse stops a sync without --reset;
\* a glob is any text.
ParsedKeys == {"mode", "name", "region"}

Readable(header) ==
  \A i \in DOMAIN header :
    header[i][1] \in ParsedKeys => Garbled \notin Range(header[i])

\* Mutant: a sync forgets the settings of the one before.
SettingsForgotten(stored, flags) ==
  [key \in SettingKeys |->
     LinesOf(IF Has(flags, key) THEN flags ELSE DefaultSettings, key)]

\* The stored settings, each overridden by its flag.
Settings(stored, flags) ==
  [key \in SettingKeys |->
     LinesOf(CASE Has(flags, key) -> flags
               [] ~Has(flags, key) /\ Has(stored, key) -> stored
               [] OTHER -> DefaultSettings,
             key)]

ToHeader(settings) ==
  settings["mode"] \o settings["name"] \o settings["region"]
    \o settings["include"] \o settings["exclude"]

Mode(settings) == settings["mode"][1][2]

-----------------------------------------------------------------------------
(***************************************************************************)
(* The profiles.                                                           *)
(***************************************************************************)
Fold(name) == IF name \in DOMAIN Folded THEN Folded[name] ELSE name

AccountSlug(account) ==
  IF Fold(account.name) = "" THEN account.id ELSE Fold(account.name)

RoleSlug(role) == IF Fold(role) = "" THEN "role" ELSE Fold(role)

\* A template is its placeholders and the text between them.
Render(template, account, role, s) ==
  FoldLeft(LAMBDA name, piece :
             name \o CASE piece = "{account}" -> AccountSlug(account)
                       [] piece = "{account_id}" -> account.id
                       [] piece = "{role}" -> RoleSlug(role)
                       [] piece = "{session}" -> s
                       [] OTHER -> piece,
           "", template)

\* Selection: a glob may match the account by name, slug or id, or the profile.
Hits(globs, account, role, name) ==
  \E i \in DOMAIN globs :
    Matched[globs[i][2]]
      \cap {account.name \o "/" \o role, AccountSlug(account) \o "/" \o role,
            account.id \o "/" \o role, name} # {}

Selects(settings, account, role, name) ==
  /\ \/ settings["include"] = <<>>
     \/ Hits(settings["include"], account, role, name)
  /\ ~Hits(settings["exclude"], account, role, name)

\* plan: the accounts and roles that are selected, each with its profile's name.
Planned(accounts, settings, s) ==
  LET named ==
        UNION {{[name |-> Render(Tail(settings["name"][1]), account, role, s),
                 account |-> account, role |-> role] : role \in account.roles} :
               account \in accounts}
  IN {p \in named : Selects(settings, p.account, p.role, p.name)}

\* Mutant: of two roles with one name, both are written.
CollidesNever(planned) == FALSE

\* Two roles with one name: the sync fails.
Collides(planned) == \E p, q \in planned : p # q /\ p.name = q.name

\* process_command, and the SSO keys it stands for.
RoleKeys(mode, s, account, role) ==
  IF mode = "process"
  THEN <<<<"credential_process", "gac", s, account, role>>>>
  ELSE <<<<"sso_session", s>>, <<"sso_account_id", account>>,
         <<"sso_role_name", role>>>>

\* parse_process_command
OwnCommand(words) == Len(words) = 4 /\ words[1] = "gac"

\* render_body
ProfileLines(profiles, s, settings) ==
  LET order == SetToSeq(profiles)
  IN [i \in DOMAIN order |->
        Section("profile", order[i].name,
                RoleKeys(Mode(settings), s, order[i].account.id, order[i].role)
                  \o settings["region"])]

\* render_session
SessionLine(s, url, region, scopes) ==
  Section("session", s,
          <<<<"sso_start_url">> \o url, <<"sso_region">> \o region>>
            \o IF scopes = <<>> THEN <<>>
               ELSE <<<<"sso_registration_scopes">> \o scopes>>)

=============================================================================

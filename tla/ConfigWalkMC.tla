----------------------------- MODULE ConfigWalkMC -----------------------------
(***************************************************************************)
(* The texts, lines and commands of the runs of ConfigWalk.                *)
(***************************************************************************)
EXTENDS ConfigWalk, TLC

MCFolded == [n \in {"pay inc"} |-> "pay"]

MCMatched == [g \in {"*/read"} |-> {"pay/read", "pay inc/read", "111/read"}]

Inc(roles) == [id |-> "111", name |-> "pay inc", roles |-> roles]
Pay == [id |-> "222", name |-> "pay", roles |-> {"admin"}]

\* The account 111 is there with two roles, and another whose name becomes the
\* same in profile names.
Portal1 == [s \in Sessions |-> {IF s = "corp" THEN Inc({"admin", "read"}) ELSE Pay}]
Portal2 == [s \in Sessions |-> IF s = "corp" THEN {Inc({"admin"}), Pay} ELSE {Pay}]

CorpKeys == <<<<"sso_start_url", "corp.start">>, <<"sso_region", "us">>>>

Scoped == <<<<"sso_registration_scopes", "sso:account:access">>>>

LegacyKeys(region) ==
  <<<<"region", "us">>, <<"sso_start_url", "corp.start">>, <<"sso_region", region>>,
    <<"sso_account_id", "111">>, <<"sso_role_name", "read">>>>

Syncs(typed, portals, flags, resets, credentials) ==
  [op : {"sync"}, typed : {typed}, env : {None}, portal : portals,
   signed : {Sessions}, flags : flags, reset : resets, credentials : {credentials}]

Selects_(typed, signed, target, adopt) ==
  [op |-> "select", typed |-> typed, signed |-> signed, portal |-> Portal1,
   target |-> target, adopt |-> adopt, credentials |-> {}]

Setups(name, typed, given, region) ==
  [op |-> "setup", session |-> name, typed |-> typed, given |-> given,
   url |-> "corp.start", region |-> region]

Doctors(scopes, legacy) == [op |-> "doctor", scopes |-> scopes, legacy |-> legacy]

ById == <<"name", "{account_id}", "/", "{role}">>

Everyday ==
  Syncs("corp", {Portal1}, {<<>>, <<<<"mode", "process">>, <<"region", "eu">>>>},
        {FALSE}, {"pay/read"})
    \cup Syncs("corp", {Portal2}, {<<>>}, {FALSE}, {})
    \cup Syncs(None, {Portal2}, {<<ById, <<"exclude", "*/read">>>>}, {TRUE}, {})
    \cup Syncs("lab", {Portal1}, {<<>>}, {FALSE}, {})
    \cup {Setups("corp", TRUE, {"url", "region"}, "us"),
          Setups("lab", FALSE, {"url", "region"}, "eu"),
          Setups("lab", FALSE, {"url"}, "eu"), Setups("lab", FALSE, {}, "eu"),
          Selects_(None, {"corp"}, <<"pay", "admin">>, FALSE),
          Selects_(None, {"corp", "lab"}, <<"corp", "111", "read">>, TRUE),
          [op |-> "clear"],
          Doctors({"corp"}, {<<<<"corp.start">>, <<"eu">>>>,
                             <<<<"corp.start">>, <<"us">>>>}),
          Doctors({}, {})}

\* A portal that assigns a role named like the default profile.
NamedDefault ==
  Syncs("corp", {[s \in Sessions |-> {Inc({"default"})}]},
        {<<<<"name", "{role}">>>>}, {FALSE}, {})
    \cup {Setups("corp", TRUE, {"url", "region"}, "us")}

\* The two commands that pick or drop the default profile's role.
Picking ==
  {Selects_(None, {"corp"}, <<"pay", "admin">>, TRUE), [op |-> "clear"]}

AnyLine ==
  {Begin("lab", <<>>), End("corp"), Begin(Garbled, <<>>),
   Section("session", "corp", CorpKeys),
   Section("profile", "dev", LegacyKeys("us")),
   Section("profile", "pay/admin", <<<<"region", "eu">>>>),
   Marked("open", None), Marked("comment", None),
   Section("default", None, <<<<"region", "us">>, <<"s3">>, <<"+", "max">>>>)}

\* Texts a user and gac may have left.
Texts ==
  { [lines |-> <<Section("profile", "dev", LegacyKeys("us")),
                 Section("profile", "ops", LegacyKeys("eu")), Blank,
                 Marked("default", None)>>,
     ended |-> FALSE],
    Whole(<<Begin("corp", <<<<"mode", "sso">>, <<"name", "{account}", "/", "{role}">>>>),
            Section("session", "corp", CorpKeys),
            Section("profile", "pay/admin", RoleKeys("sso", "corp", "111", "admin")),
            End("corp"), Blank, Marked("open", None),
            Section("default", None, RoleKeys("sso", "corp", "111", "admin")),
            Marked("close", None)>>),
    Whole(<<Begin("lab", <<>>),
            Section("profile", "ops", RoleKeys("sso", "lab", "222", "admin")),
            End("lab"),
            Section("session", "corp", CorpKeys \o Scoped),
            Begin("corp", <<>>), End("corp")>>) }

\* What the scanners tell apart, and every text of up to four such lines.
MarkerLine ==
  {Begin(s, <<>>) : s \in {"corp", "lab", Garbled}}
    \cup {End(s) : s \in {"corp", "lab"}}
    \cup {Marked(k, None) : k \in {"open", "close"}}
    \cup {Marked("default", None), Marked("profile", "default")}

MarkerTexts == {Whole(ls) : ls \in UNION {[1 .. n -> MarkerLine] : n \in 1 .. 4}}

Blanks == {Empty}

Process ==
  {Whole(<<Section("session", "corp", CorpKeys),
           Section("default", None, RoleKeys("process", "corp", "111", "read"))>>)}

=============================================================================

------------------------------ MODULE ConfigEdits ------------------------------
(***************************************************************************)
(* What each command that edits the config file turns the text it read     *)
(* into.  A command that fails, or finds nothing to do, returns the text   *)
(* unchanged: it writes nothing.                                           *)
(*                                                                         *)
(* A command carries what it learns besides the text: the answers of the   *)
(* portal and of the user, the sessions that are signed in, and the names  *)
(* the credentials file defines.                                           *)
(***************************************************************************)
EXTENDS RoleTargets

\* The keys that gac writes; the indentation of a continuation line is none of them.
ASSUME KeyAssumption ==
  Continued \notin {"sso_start_url", "sso_region", "sso_registration_scopes",
                   "sso_session", "sso_account_id", "sso_role_name", "region"}

IsAnswered(c) ==
  /\ c.portal \in [Sessions -> SUBSET Account]
  /\ \A s \in Sessions : /\ IsFiniteSet(c.portal[s])
                         /\ \A account \in c.portal[s] : IsFiniteSet(account.roles)
  /\ c.signed \subseteq Sessions
  /\ c.typed \in Sessions \cup {None}
  /\ c.credentials \subseteq STRING

IsCommand(c) ==
  \/ /\ c.op = "sync" /\ IsAnswered(c)
     /\ c.env \in Sessions \cup {None}
     /\ c.flags \in Seq(KeyLine)
     /\ c.reset \in BOOLEAN
  \/ /\ c.op = "select" /\ IsAnswered(c)
     /\ c.target \in Seq(STRING)
     /\ c.adopt \in BOOLEAN
  \/ /\ c.op = "setup"
     /\ c.session \in Sessions
     /\ c.typed \in BOOLEAN
     /\ c.given \subseteq {"url", "region"}
     /\ {c.url, c.region} \subseteq STRING
  \/ c.op = "clear"
  \/ /\ c.op = "doctor"
     /\ c.scopes \subseteq Sessions
     /\ c.legacy \subseteq Seq(Seq(STRING))

-----------------------------------------------------------------------------
\* `gac sync`

Outside(t, s) == IF HasBlock(t, s) THEN Without(t, BlockOf(t, s)) ELSE t

\* Mutant: only the credentials file is looked at.
UnguardedByConfig(planned, credentials, outside) ==
  {p \in planned : p.name \notin credentials}

\* sync_conflict: the name is defined outside the block.
Conflicts(name, credentials, outside) ==
  name \in credentials \cup ProfilesIn(outside)

Unguarded(planned, credentials, outside) ==
  {p \in planned : ~Conflicts(p.name, credentials, outside)}

ResolvingKeys ==
  {"sso_session", "sso_start_url", "credential_process", "role_arn",
   "web_identity_token_file", "login_session"}

\* collisions: the names with keys in the credentials file that the config file
\* resolves in another way, which hides those keys.
Collisions(t, credentials) ==
  {n \in credentials \cap ProfilesIn(t) :
     \E key \in ResolvingKeys : Has(ProfileKeys(t, n), key)}

\* Mutant: a sync writes profiles only.
OwnSessionDropped(t, s, outside) == <<>>

\* A session that is defined only in its block stays in it.
OwnSession(t, s, outside) ==
  IF s \in SessionsIn(outside) THEN <<>>
  ELSE <<SessionLine(s, PortalOf(t, s)[1], PortalOf(t, s)[2], Scopes(t, s))>>

SyncOf(t, c, s) ==
  LET outside == Outside(t, s)
      stored == IF c.reset THEN DefaultSettings ELSE Header(t, s)
      settings == Settings(stored, c.flags)
      planned == Planned(c.portal[s], settings, s)
      kept == Unguarded(planned, c.credentials, outside)
      body == OwnSession(t, s, outside) \o ProfileLines(kept, s, settings)
  IN IF Scan(t).ok /\ s \in c.signed /\ Readable(stored) /\ ~Collides(planned)
     THEN Upsert(t, s, Rendered(s, ToHeader(settings), body))
     ELSE t

Sync(t, c) ==
  LET session == SessionFor(t, c.typed, c.env)
  IN IF session = {} THEN t ELSE SyncOf(t, c, CHOOSE s \in session : TRUE)

-----------------------------------------------------------------------------
\* `gac setup`

DefaultScope == <<"sso:account:access">>

\* append_session_block
AppendSession(t, s, url, region) ==
  AppendText(t, Rendered(s, <<>>, <<SessionLine(s, url, region, DefaultScope)>>))

\* reusable: a session that is named, where one that is not what was asked for
\* is an error; or one at the start URL that is given, in the region if that is
\* given too; or the only one when neither is.
Reuses(t, c) ==
  LET readable == {s \in SessionsIn(t) : Reads(t, s)}
      matches(s) == /\ "url" \in c.given => PortalOf(t, s)[1] = <<c.url>>
                    /\ "region" \in c.given => PortalOf(t, s)[2] = <<c.region>>
  IN CASE c.typed -> c.session \in SessionsIn(t)
       [] ~c.typed /\ "url" \in c.given -> \E s \in readable : matches(s)
       [] ~c.typed /\ c.given = {"region"} -> FALSE
       [] ~c.typed /\ c.given = {} -> Cardinality(readable) = 1

Setup(t, c) ==
  IF /\ ~Reuses(t, c)
     /\ c.session \notin SessionsIn(t)
     /\ Scan(t).ok
     /\ ~HasBlock(t, c.session)
  THEN AppendSession(t, c.session, <<c.url>>, <<c.region>>)
  ELSE t

-----------------------------------------------------------------------------
(***************************************************************************)
(* `gac select` and `gac select --clear` edit the lines of [default].      *)
(***************************************************************************)
SetIn(section, key, value, after) ==
  LET holders == Holding(section, {key})
      anchors == Holding(section, after)
      at == CASE holders # {} -> Min(holders)
              [] holders = {} /\ anchors # {} -> Max(anchors)
              [] OTHER -> 1
  IN [section EXCEPT ![at] = WithKeys(@, SetKey(@.keys, key, value, after))]

RemoveIn(section, key) ==
  IF Holding(section, {key}) = {} THEN section
  ELSE [section EXCEPT ![Min(Holding(section, {key}))] =
          WithKeys(@, RemoveKey(@.keys, key))]

\* The region of the session's block, for a section that has none.
RegionLines(t, section, s) ==
  IF Holding(section, {"region"}) # {} THEN <<>>
  ELSE LinesOf(Header(t, s), "region")

\* Mutant: the session of the section stays.
PickedForRole(section, row, region) ==
  SetIn(SetIn(section, "sso_account_id", <<row.account.id>>, {"sso_session"}),
        "sso_role_name", <<row.role>>, {"sso_account_id"})

Picked(section, row, region) ==
  LET session == SetIn(section, "sso_session", <<row.session>>, {})
      regional == IF region = <<>> THEN session
                  ELSE SetIn(session, "region", Tail(region[1]), {"sso_session"})
      account == SetIn(regional, "sso_account_id", <<row.account.id>>,
                       {"sso_session", "region"})
  IN SetIn(account, "sso_role_name", <<row.role>>, {"sso_account_id"})

Chosen(t, c) == RowsNamed(Rows(t, c.typed, c.signed, c.portal), c.target)

\* Mutant: a [default] the user wrote is taken over without asking.
MaySelectUnasked(t, c, found, chosen) ==
  /\ found.ok
  /\ Cardinality(chosen) = 1
  /\ Default \notin c.credentials
  /\ Scan(t).ok

MaySelect(t, c, found, chosen) ==
  /\ found.ok
  /\ Cardinality(chosen) = 1
  /\ Default \notin c.credentials
  /\ found.hand # <<>> => c.adopt
  /\ \A row \in chosen :
       Holding(DefaultLines(t, found), {"region"}) = {} =>
         Scan(t).ok /\ Readable(Header(t, row.session))

Select(t, c) ==
  LET found == FindDefault(t)
      chosen == Chosen(t, c)
      range == found.managed \o found.hand
      section == DefaultLines(t, found)
      block(row) ==
        RenderedDefault(Picked(section, row, RegionLines(t, section, row.session)))
  IN CASE ~MaySelect(t, c, found, chosen) -> t
       [] MaySelect(t, c, found, chosen) /\ range = <<>> ->
            AppendText(t, block(CHOOSE row \in chosen : TRUE))
       [] MaySelect(t, c, found, chosen) /\ range # <<>> ->
            Splice(t, range[1], block(CHOOSE row \in chosen : TRUE))

\* What select says of [default] when a variable of the shell takes precedence.
Warns(shell) == \E i \in DOMAIN ProfileVariables : shell[ProfileVariables[i]] # ""

Clear(t) ==
  LET found == FindDefault(t)
      section == DefaultLines(t, found)
  IN IF /\ found.ok /\ found.managed # <<>>
        /\ Holding(section, {"sso_account_id", "sso_role_name"}) # {}
     THEN Splice(t, found.managed[1],
                 RenderedDefault(RemoveIn(RemoveIn(section, "sso_account_id"),
                                          "sso_role_name")))
     ELSE t

-----------------------------------------------------------------------------
(***************************************************************************)
(* `gac doctor --fix`: the fixes are planned on the text that was read and *)
(* applied one after the other; one that does not apply is skipped.        *)
(***************************************************************************)

\* The headers that name a profile, or a session.
Headers(t, kind, name) ==
  At(t, {kind}, name)
    \cup IF kind = "profile" /\ name = Default THEN At(t, {"default"}, None) ELSE {}

\* section::find: the one section the lines name, or a reason it is not found.
Found(t, kind, name) ==
  /\ Scan(t).ok
  /\ FindDefault(t).ok
  /\ Cardinality(Headers(t, kind, name)) = 1

The(t, kind, name) == CHOOSE i \in Headers(t, kind, name) : TRUE

InGacBlock(t, i) ==
  \E range \in Blocks(t) \cup Range(FindDefault(t).managed) :
    i \in range.first .. range.last

\* Mutant: a block is dead when it does not hold its session itself.
DeadBlocksByContent(t) ==
  {s \in Sessions :
     /\ HasBlock(t, s)
     /\ LET block == BlockOf(t, s)
        IN s \notin SessionsIn(Slice(t, block.first, block.last))}

DeadBlocks(t) == {s \in Sessions : HasBlock(t, s)} \ SessionsIn(t)

RemoveBlock(t, s) ==
  IF HasBlock(t, s) THEN Without(t, BlockOf(t, s)) ELSE t

\* The sessions that can be used but have no scopes.
Bare(t) == {s \in SessionsIn(t) : Reads(t, s) /\ Scopes(t, s) = <<>>}

OwnedByUser(t, s) ==
  ~ /\ Found(t, "session", s)
    /\ InGacBlock(t, The(t, "session", s))

AddScopes(t, s) ==
  IF Found(t, "session", s)
  THEN WithLines(t, [t.lines EXCEPT ![The(t, "session", s)] =
         WithKeys(@, SetKey(@.keys, "sso_registration_scopes", DefaultScope,
                            {"sso_start_url", "sso_region"}))])
  ELSE t

LegacyProfiles(t) == {n \in ProfilesIn(t) : IsLegacy(t, n)}

LegacyPortal(t, n) == Portal(ProfileKeys(t, n))

LegacyPortals(t) == {LegacyPortal(t, n) : n \in LegacyProfiles(t)}

\* Mutant: the region of the portal is not compared.
SessionsAtUrl(t, portal) ==
  {s \in SessionsIn(t) : Reads(t, s) /\ PortalOf(t, s)[1] = portal[1]}

SessionsAt(t, portal) ==
  {s \in SessionsIn(t) : Reads(t, s) /\ PortalOf(t, s) = portal}

\* unused_name: the names that no session and no block has taken.
FreeNames(t) == {s \in Sessions \ SessionsIn(t) : ~HasBlock(t, s)}

\* Mutant: a portal no session has is moved under its own URL.
MoveToUrl(t, portal) ==
  IF SessionsAt(t, portal) # {} THEN {CHOOSE s \in SessionsAt(t, portal) : TRUE}
  ELSE Range(portal[1])

\* The session the profiles of a portal are moved to: one that matches, or a new
\* one, no two portals the same.  There is none when the names of the model run
\* out; the program's never do.
MoveTo(t, portal) ==
  LET new == SetToSeq({p \in LegacyPortals(t) : SessionsAt(t, p) = {}})
      free == SetToSeq(FreeNames(t))
  IN IF SessionsAt(t, portal) # {} THEN {CHOOSE s \in SessionsAt(t, portal) : TRUE}
     ELSE {free[i] : i \in {j \in DOMAIN new \cap DOMAIN free : new[j] = portal}}

Moved(keys, s) ==
  RemoveKey(RemoveKey(SetKey(keys, "sso_session", <<s>>, {"sso_start_url"}),
                      "sso_start_url"), "sso_region")

MoveProfiles(t, names, s) ==
  LET headers == {The(t, "profile", n) : n \in names}
      moved(line) == WithKeys(line, Moved(line.keys, s))
  IN WithLines(t, [i \in DOMAIN t.lines |-> IF i \in headers THEN moved(t.lines[i])
                                            ELSE t.lines[i]])

MoveLegacy(t, fix) ==
  LET moved == MoveProfiles(t, fix.profiles, fix.session)
  IN CASE \E n \in fix.profiles : \/ ~Found(t, "profile", n)
                                  \/ InGacBlock(t, The(t, "profile", n)) -> t
       [] OTHER -> IF fix.create
                   THEN AppendSession(moved, fix.session, fix.portal[1], fix.portal[2])
                   ELSE moved

\* Fix::apply_to_config
Applied(t, fix) ==
  CASE fix.edit = "RemoveBlock" -> RemoveBlock(t, fix.session)
    [] fix.edit = "AddScopes" -> AddScopes(t, fix.session)
    [] fix.edit = "MoveLegacy" -> MoveLegacy(t, fix)

\* plan: the fixes the user agrees to, gac's own blocks first.
Fixes(t, c) ==
  LET scopes == {s \in Bare(t) : OwnedByUser(t, s) => s \in c.scopes}
      move(portal) ==
        {[edit |-> "MoveLegacy", session |-> s, portal |-> portal,
          profiles |-> {n \in LegacyProfiles(t) : LegacyPortal(t, n) = portal},
          create |-> SessionsAt(t, portal) = {}] : s \in MoveTo(t, portal)}
  IN SetToSeq({[edit |-> "RemoveBlock", session |-> s] : s \in DeadBlocks(t)})
       \o SetToSeq({[edit |-> "AddScopes", session |-> s] : s \in scopes})
       \o SetToSeq(UNION {move(portal) : portal \in LegacyPortals(t) \cap c.legacy})

Doctor(t, c) ==
  LET fixes == Fixes(t, c)
      after[n \in 0 .. Len(fixes)] ==
        IF n = 0 THEN t ELSE Applied(after[n - 1], fixes[n])
  IN after[Len(fixes)]

-----------------------------------------------------------------------------
Outcome(t, c) ==
  CASE c.op = "sync" -> Sync(t, c)
    [] c.op = "setup" -> Setup(t, c)
    [] c.op = "select" -> Select(t, c)
    [] c.op = "clear" -> Clear(t)
    [] c.op = "doctor" -> Doctor(t, c)

(***************************************************************************)
(* What a user, an editor or another tool does: a line put in or taken     *)
(* out, or the ending of the last line.                                    *)
(***************************************************************************)
Edits(t, lines) ==
  {WithLines(t, InsertAt(t.lines, i, line)) :
     i \in 1 .. Len(t.lines) + 1, line \in lines}
    \cup {WithLines(t, RemoveAt(t.lines, i)) : i \in DOMAIN t.lines}
    \cup {[lines |-> t.lines, ended |-> FALSE] : x \in {t.lines} \ {<<>>}}

=============================================================================

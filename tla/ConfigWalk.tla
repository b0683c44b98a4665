------------------------------ MODULE ConfigWalk ------------------------------
(***************************************************************************)
(* One command after another on a config file that its user edits in       *)
(* between: what `scan` and `find` make of every text that can come about, *)
(* and what each command may do to it.                                     *)
(***************************************************************************)
EXTENDS ConfigEdits

CONSTANTS
  Commands,   \* the commands that are run
  EditLines,  \* the lines users put in
  Initial,    \* the texts the file may have at first
  OnlyRead,   \* texts on which nothing is run: what the scanners make of them
  MaxRuns,    \* bound on the commands that are run
  MaxEdits    \* bound on the users' edits

ASSUME CommandAssumption == \A c \in Commands : IsCommand(c)

ASSUME TextAssumption ==
  /\ Initial \cup OnlyRead \subseteq Text
  /\ EditLines \subseteq Line

VARIABLES
  text,   \* the config file
  ran,    \* the command that made it what it is, or UserEdit
  runs,   \* how many commands were run
  edits   \* how often users edited it

vars == <<text, ran, runs, edits>>

UserEdit == [op |-> "edit"]

Init ==
  /\ ran = UserEdit
  /\ \/ text \in Initial /\ runs = 0 /\ edits = 0
     \/ text \in OnlyRead /\ runs = MaxRuns /\ edits = MaxEdits

Run ==
  /\ runs < MaxRuns
  /\ \E c \in Commands : ran' = c /\ text' = Outcome(text, c)
  /\ runs' = runs + 1
  /\ UNCHANGED edits

Edit ==
  /\ edits < MaxEdits
  /\ text' \in Edits(text, EditLines)
  /\ ran' = UserEdit
  /\ edits' = edits + 1
  /\ UNCHANGED runs

Next == Run \/ Edit

Spec == Init /\ [][Next]_vars

-----------------------------------------------------------------------------
(***************************************************************************)
(* The markers, told declaratively: a reference for the two scanners.      *)
(***************************************************************************)
Marks(t, kinds) == {i \in DOMAIN t.lines : t.lines[i].k \in kinds}

NoMarkBetween(t, i, j) == \A x \in Marks(t, {"begin", "end"}) : x \notin i + 1 .. j - 1

\* Lines i and j delimit one block.
Delimit(t, i, j) ==
  /\ i < j
  /\ t.lines[i].k = "begin" /\ t.lines[j].k = "end"
  /\ t.lines[i].of = t.lines[j].of /\ t.lines[i].of # Garbled
  /\ NoMarkBetween(t, i, j)

WellNested(t) ==
  LET begins == Marks(t, {"begin"})
      ends == Marks(t, {"end"})
  IN /\ \A i \in begins : \E j \in ends : Delimit(t, i, j)
     /\ \A j \in ends : \E i \in begins : Delimit(t, i, j)
     /\ \A i, j \in begins : t.lines[i].of = t.lines[j].of => i = j

\* `scan` finds exactly the well-nested, unique blocks of a text, in order, and
\* refuses every other text (managed_block.rs, MarkerError).
ScanFindsBlocks ==
  LET scan == Scan(text)
  IN /\ scan.ok <=> WellNested(text)
     /\ scan.ok =>
          {<<b.first, b.last>> : b \in Range(scan.blocks)} =
            {p \in Marks(text, {"begin"}) \X Marks(text, {"end"}) :
               Delimit(text, p[1], p[2])}

\* The default block: from the first opening mark to the first closing one.
DefaultBlocks(t) ==
  {p \in Marks(t, {"open"}) \X Marks(t, {"close"}) :
     /\ p[1] < p[2]
     /\ \A x \in Marks(t, {"open"}) : x >= p[1]
     /\ \A x \in Marks(t, {"close"}) : x <= p[1] \/ x >= p[2]}

\* No mark is left over, and [default] is written once: alone, or first in the
\* default block.
OneDefault(t) ==
  LET inside == UNION {b[1] .. b[2] : b \in DefaultBlocks(t)}
  IN /\ Marks(t, {"open", "close"}) \subseteq inside
     /\ \A b \in DefaultBlocks(t) : t.lines[b[1] + 1].k = "default"
     /\ Cardinality(DefaultBlocks(t))
          + Cardinality(Marks(t, {"default"}) \ inside) <= 1
     /\ At(t, {"profile"}, Default) \subseteq inside

\* `find` finds the default profile of a text that has at most one, knows who
\* wrote it, and refuses every other text (default_block.rs, DefaultError).
FindKnowsOwner ==
  LET found == FindDefault(text)
  IN /\ found.ok <=> OneDefault(text)
     /\ found.ok =>
          {<<r.first, r.last>> : r \in Range(found.managed)} =
            DefaultBlocks(text)
     /\ found.ok /\ found.managed = <<>> =>
          {r.first : r \in Range(found.hand)} = Marks(text, {"default"})

-----------------------------------------------------------------------------
(***************************************************************************)
(* What one command may do to the text.                                    *)
(***************************************************************************)
DefaultRange(t) ==
  IF FindDefault(t).ok THEN Range(FindDefault(t).managed) ELSE {}

\* No block overlaps the default block or holds it.
Apart(t) ==
  \A b \in Blocks(t) : \A r \in DefaultRange(t) :
    b.last < r.first \/ r.last < b.first

\* The default block holds [default] and nothing else.
Plain(t) ==
  \A i \in DOMAIN DefaultLines(t, FindDefault(t)) :
    i > 1 => DefaultLines(t, FindDefault(t))[i].k \notin {"profile", "session"}

\* Where gac's blocks are, from line to line.  The default block is one of them if
\* gac could find it in the text that the command read.
GacRanges(t, found) ==
  {<<b.first, b.last>> : b \in Blocks(t)} \cup IF found THEN DefaultBlocks(t) ELSE {}

\* A line with the keys left out that the user agreed to let this command change.
Shown(c, line) ==
  CASE c.op = "doctor" /\ line.k = "session" /\ line.of \in c.scopes ->
         WithKeys(line, KeysBut(line.keys, {"sso_registration_scopes"}))
    [] c.op = "doctor" /\ line.k \in {"profile", "default"} /\ c.legacy # {} ->
         WithKeys(line, KeysBut(line.keys,
                                {"sso_session", "sso_start_url", "sso_region"}))
    [] OTHER -> line

Adopted(c, line) == c.op = "select" /\ c.adopt /\ line.k = "default"

\* The lines the user wrote, which the command may not change.
UserPlaces(t, c, found) ==
  {i \in DOMAIN t.lines : /\ ~Adopted(c, t.lines[i])
                          /\ \A r \in GacRanges(t, found) : i \notin r[1] .. r[2]}

UserLines(t, c, found) ==
  LinesAt([i \in DOMAIN t.lines |-> Shown(c, t.lines[i])], UserPlaces(t, c, found))

\* The blocks of a text, by their session, and the default block, which has none.
BlockNames(t) == {<<b.of>> : b \in Blocks(t)} \cup {<<>> : r \in DefaultRange(t)}

\* The keys of [default] that do not pick an account and role.
OwnKeys(before, t) ==
  LET picking == {"sso_session", "sso_account_id", "sso_role_name"}
                   \cup IF Has(SectionKeys(before, "default", None), "region") THEN {}
                        ELSE {"region"}
  IN FlattenSeq([i \in DOMAIN t.lines |->
                   IF t.lines[i].k = "default" THEN KeysBut(t.lines[i].keys, picking)
                   ELSE <<>>])

\* A line the user wrote outside gac's blocks stays as it is and where it is,
\* but for keys the user agreed to give up; at most a blank line before each
\* appended block is added.  [default] keeps its other keys when gac takes it
\* over, picks a role and clears it (managed_block.rs:4-5, section.rs:1-4,
\* README.md:64).
KeepsUserLines ==
  LET found == FindDefault(text).ok
  IN ran' # UserEdit /\ Apart(text) =>
       /\ \E n \in 0 .. Cardinality(BlockNames(text') \ BlockNames(text)) :
            UserLines(text', ran', found) =
              UserLines(text, ran', found) \o [i \in 1 .. n |-> Blank]
       /\ ran'.op \in {"select", "clear"} => OwnKeys(text, text') = OwnKeys(text, text)

UserLinesKept == [][KeepsUserLines]_vars

\* A session that is defined in its own block, or by the user, is never lost,
\* never gets a second definition, and stays the session of its portal
\* (sync.rs:42, setup.rs:70-86, profiles.rs:356).
Copies(t, s) == At(t, {"session"}, s)

AtHome(t, s) ==
  \E i \in Copies(t, s) :
    \A b \in Blocks(t) : i \in b.first .. b.last => b.of = s

KeepsSessions ==
  ran' # UserEdit =>
    \A s \in Sessions :
      LET before == Cardinality(Copies(text, s))
          after == Cardinality(Copies(text', s))
      IN /\ AtHome(text, s) => after > 0
         /\ after <= 1 \/ after <= before
         /\ AtHome(text, s) /\ before = 1 =>
              PortalOf(text', s) = PortalOf(text, s)

SessionsKept == [][KeepsSessions]_vars

\* The sessions with a definition in another session's block.
Strays(t) ==
  {s \in Sessions : \E i \in Copies(t, s) : \E b \in Blocks(t) :
     i \in b.first .. b.last /\ b.of # s}

SyncedSession(t, c) == CHOOSE s \in SessionFor(t, c.typed, c.env) : TRUE

ProfilesOf(t, block) == ProfilesIn(Slice(t, block.first, block.last))

\* A profile that sync writes shares its name with none the user or another block
\* defines (guards.rs:1-4).
TakesNoName ==
  ran'.op = "sync" /\ text' # text =>
    LET block == BlockOf(text', SyncedSession(text, ran'))
    IN \A n \in ProfilesOf(text', block) :
         At(text', {"profile"}, n) \subseteq block.first .. block.last

NameTakenOnce == [][TakesNoName]_vars

\* Neither do sync and select hide keys that the credentials file has under the
\* name of a profile (guards.rs:82-94).
NoProfileShadowed ==
  [][/\ TakesNoName
     /\ ran'.op \in {"sync", "select"} =>
          Collisions(text', ran'.credentials)
            \subseteq Collisions(text, ran'.credentials)]_vars

\* A block disappears only when its session is gone (doctor/fix.rs:127-145).
KeepsBlocks ==
  ran' # UserEdit =>
    {b.of : b \in Blocks(text)} \cap SessionsIn(text)
      \subseteq {b.of : b \in Blocks(text')}

OnlyDeadBlocksGo == [][KeepsBlocks]_vars

\* The profiles of a block have one that is named like the default profile.
NamesDefault(t) ==
  \E b \in Blocks(t) :
    \E i \in b.first .. b.last : Defines(t.lines[i], {"profile"}, Default)

\* What gac writes, gac can read: a text whose markers were in order still has
\* them in order (managed_block.rs:94-95).
KeepsMarkers ==
  ran' # UserEdit =>
    /\ Scan(text).ok => Scan(text').ok
    /\ /\ FindDefault(text).ok /\ Apart(text)
       /\ ran'.op = "sync" => ~NamesDefault(text')
       => FindDefault(text').ok

MarkersStayWhole == [][KeepsMarkers]_vars

\* A command that is run again at once finds nothing to do, nor does a sync
\* without the flags it was given before: the block remembers its settings
\* (sync.rs:91-97, sync.rs:101-106, select.rs:131-137).
Repeats(c, before, t) ==
  \/ c = before
  \/ /\ c.op = "sync" /\ before.op = "sync"
     /\ c = [before EXCEPT !.flags = <<>>, !.reset = FALSE]
     /\ \A s \in SessionFor(t, c.typed, c.env) :
          Range(before.flags) \subseteq Range(Header(t, s))

SecondRunIsIdle ==
  [][\/ ran.op \in {"edit", "doctor"}
     \/ ran.op = "clear" /\ ~Plain(text)
     \/ ~Repeats(ran', ran, text)
     \/ text' = text]_vars

\* Every account and role that the portal lists and the block's settings select
\* has a profile that commands resolve to just that account and role, or its
\* name is in use elsewhere; and the block has no other profile, as status counts
\* them (sync.rs:27-60, README.md:60).
SyncedProfilesResolve ==
  [][ran'.op = "sync" /\ text' # text =>
       LET s == SyncedSession(text, ran')
           status == StatusBlock(text', s)
           planned == Planned(ran'.portal[s], status.settings, s)
           written == ProfilesOf(text', BlockOf(text', s))
           taken == ran'.credentials \cup ProfilesIn(Outside(text', s))
       IN /\ written = {p.name : p \in planned} \ taken
          /\ Cardinality(written) = status.profiles
          /\ \A p \in planned :
               p.name \in taken
                 \/ RoleOf(text', p.name) = <<PortalOf(text', s), <<p.account.id>>,
                                              <<p.role>>>>]_vars

\* A profile that resolves to a role goes on resolving to it, whatever command is
\* run, unless it is in the block that is synced, in the block of a session that
\* is gone, or the default profile that is picked or cleared, with what else
\* was put into its block.  No session is defined in another's block, which a
\* sync replaces.
OthersKeepTheirRole ==
  [][LET Given ==
           UNION {ProfilesOf(text, b) :
                    b \in {x \in Blocks(text) :
                             \/ ran'.op = "sync" /\ x.of \in SessionFor(text, ran'.typed, ran'.env)
                             \/ ran'.op = "doctor" /\ x.of \in DeadBlocks(text)}}
             \cup IF ran'.op \in {"select", "clear"}
                  THEN {Default} \cup UNION {ProfilesOf(text, r) : r \in DefaultRange(text)}
                  ELSE {}
     IN ran' # UserEdit /\ Strays(text) = {} =>
          \A n \in ProfilesIn(text) \ Given :
            RoleOf(text, n) # NoRole => RoleOf(text', n) = RoleOf(text, n)]_vars

\* After `gac select` a command that is given no profile uses the row that was
\* picked, unless select warned that a variable takes precedence; after --clear
\* [default] has no role.  What status and doctor say of [default] is what
\* resolves (select.rs:82-94, README.md:83).
RunsAnotherGac(t) == OwnCommand(Value(ProfileKeys(t, Default), "credential_process"))

Shells(t) == [Range(ProfileVariables) -> {""} \cup ProfilesIn(t)]

DefaultIsAsPicked ==
  /\ ran'.op = "select" =>
       \E row \in Chosen(text, ran') :
         /\ \A shell \in Shells(text') :
              Warns(shell) \/ RoleInUse(text', shell) = RoleOfRow(text', row)
         /\ StatusDefault(text', row.session) = <<<<row.account.id>>, <<row.role>>>>
         /\ DoctorDefault(text') = <<<<row.account.id>>, <<row.role>>>>
  /\ ran'.op = "clear" => RoleOf(text', Default) = NoRole

SelectedRoleIsUsed ==
  [][text' # text /\ Plain(text) /\ ~RunsAnotherGac(text) => DefaultIsAsPicked]_vars

\* The same of every [default], one whose credential_process is gac's included.
\* README.md:83 says that `gac select` sets the account and role of [default];
\* target::resolve looks at its credential_process first.
SelectedRole == [][text' # text /\ Plain(text) => DefaultIsAsPicked]_vars

\* Only `gac select` gives the file a default profile.  default_block.rs:1 says
\* that gac writes the default profile only once the user has handed it over;
\* a sync whose name template yields "default" writes one on its own.
DefaultHandedOver ==
  [][ran'.op = "sync" /\ Default \in ProfilesIn(text')
       => Default \in ProfilesIn(text)]_vars

=============================================================================

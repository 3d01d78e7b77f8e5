------------------------------ MODULE StoreOpen ------------------------------
(***************************************************************************)
(* The database file and what every start of the conductor does to it:      *)
(* store.Open (internal/store/sqlite.go) with the backup, the statements     *)
(* from before the versioned migrations, the downgrade guard and the runner  *)
(* of internal/store/migrations.                                             *)
(*                                                                          *)
(* Every statement commits by itself, and a migration with its entry in the  *)
(* ledger commits as one, so a crash or an I/O error, after which Open        *)
(* returns and the conductor goes on without a store, may come between any    *)
(* two of them.  A table is <<t>>, a column of it <<t, c>>; the columns that  *)
(* tables had from the first are not told apart from the table.               *)
(*                                                                          *)
(* Several releases of the program start on the file, one at a time.  A       *)
(* release is known by how many of the migrations it has; it has all          *)
(* statements from before them (registry.go: entries are only ever added).    *)
(***************************************************************************)
EXTENDS Naturals, Sequences, SequencesExt, FiniteSetsExt

CONSTANTS
  Releases,    \* the releases that are started
  Ages,        \* how many statements the file has had when the first of them starts
  MaxFaults    \* how often an Open is cut short, or a backup put back

VARIABLES
  db,         \* the file
  backups,    \* the copies of it, oldest first
  release,    \* the release that runs, or ran last
  pc,         \* how far its Open is
  at,         \* the statement it comes to next
  faults      \* how often something has gone wrong

vars == <<db, backups, release, pc, at, faults>>

KeptBackups == 3

Create(t, cols) == [what |-> "create", table |-> t, columns |-> cols]
Add(t, c)       == [what |-> "add",    table |-> t, columns |-> {c}]
RoleCheck       == [what |-> "check",  table |-> "pools", columns |-> {}]
Backfill        == [what |-> "fill",   table |-> "sessions", columns |-> {}]

\* The first statement of migrate, one entry for a table that is altered below.
BaseTables == << Create("settings", {}), Create("issues", {}),
                 Create("sessions", {"pending_question_id"}), Create("pools", {"role"}) >>

RoleColumns ==
  << Add("issues", "archived_at"), Add("sessions", "pending_question_id"), Add("pools", "role") >>

Later ==
  << Add("sessions", "transcript_offset"), Add("pools", "priority"),
     Create("pending_pool_for", {}), Create("pool_usage", {}), Add("pools", "temperature"),
     Add("pools", "max_turns"), Add("sessions", "acknowledged_at"), Add("issues", "closed_at"),
     Add("sessions", "input_tokens"), Backfill, Add("pools", "scope"),
     Add("pools", "provider_id"), Create("pr_comments", {}) >>

\* Mutation: the pools table is rebuilt after the next of its columns has been added.
AlteredCheckLater == RoleColumns \o SubSeq(Later, 1, 2) \o <<RoleCheck>> \o SubSeq(Later, 3, Len(Later))

\* The statements after the first one.
Altered == RoleColumns \o <<RoleCheck>> \o Later

\* The versioned migrations: the tables that each creates, and the column that its Up adds.
Migrations ==
  << [tables |-> {}, up |-> <<>>],
     [tables |-> {"card_state_transitions"}, up |-> <<>>],
     [tables |-> {"collections", "collection_members"}, up |-> <<>>],
     [tables |-> {"cross_workspace_deps"}, up |-> <<>>],
     [tables |-> {"providers"}, up |-> <<"pools", "provider_id">>],
     [tables |-> {"pool_daily_usage"}, up |-> <<>>],
     [tables |-> {"skill_outcomes"}, up |-> <<>>],
     [tables |-> {}, up |-> <<"issues", "tracker_ref">>],
     [tables |-> {"fanout_proposals"}, up |-> <<"issues", "depends_on_external">>] >>

Statements == BaseTables \o Altered

StoreOpenAssumption ==
  /\ MaxFaults \in Nat
  /\ Releases \subseteq 1 .. Len(Migrations)
  /\ Ages \subseteq {0} \union (Len(BaseTables) .. Len(Statements))

\* What a statement is about, and what a migration brings.
Items(s)   == {<<s.table>>} \union {<<s.table, c>> : c \in s.columns}
Brought(m) == {<<t>> : t \in m.tables} \union {c \in {m.up} : c # <<>>}

-----------------------------------------------------------------------------
(* A file as earlier conductors may have left it: none yet, or one that the  *)
(* first n statements have been applied to, the pools table perhaps made      *)
(* before it had roles.                                                       *)

Left(n, old) ==
  LET done  == SubSeq(Statements, 1, n)
      since == IF old THEN {<<"pools", "role">>, <<"sessions", "pending_question_id">>} ELSE {}
      first == (UNION {Items(s) : s \in ToSet(done) \cap ToSet(BaseTables)}) \ since
  IN [have    |-> first \union (UNION {Items(s) : s \in ToSet(done) \ ToSet(BaseTables)}),
      checked |-> n > 0 /\ (~old \/ RoleCheck \in ToSet(done)),
      flagged |-> RoleCheck \in ToSet(done),
      drifted |-> old /\ Backfill \notin ToSet(done),
      ledger  |-> {}, stamp |-> 0, opened |-> 0]

Init ==
  /\ db \in {Left(n, old) : n \in Ages, old \in BOOLEAN}
  /\ backups = <<>>
  /\ release \in Releases
  /\ pc = "off"
  /\ at = 0
  /\ faults = 0

-----------------------------------------------------------------------------
(* Open *)

Exists  == db.have # {}
Pending == 1 .. release \ db.ledger

\* HasPending; a file without the ledger has everything to come.
HasPending(r) == ~((1 .. r) \subseteq db.ledger)

Rotated(copies) == SubSeq(copies, Max({1, Len(copies) - KeptBackups + 1}), Len(copies))

\* The copy is written beside the others and then named, so it is whole or not there.
BackedUp == Rotated(Append(backups, db))

\* A release is started: the backup, which may fail, is taken before any statement.
Start(r) ==
  /\ pc = "off"
  /\ backups' \in IF Exists /\ HasPending(r)
                  THEN {BackedUp} \union (IF faults < MaxFaults THEN {backups} ELSE {})
                  ELSE {backups}
  /\ release' = r
  /\ pc' = "legacy"
  /\ at' = 1
  /\ UNCHANGED <<db, faults>>

Onward == at' = at + 1 /\ UNCHANGED pc

\* CREATE TABLE IF NOT EXISTS; the pools table of today has the check on its role.
CreateTable(s) ==
  /\ s.what = "create"
  /\ db' = IF <<s.table>> \in db.have THEN db
           ELSE [db EXCEPT !.have = @ \union Items(s), !.checked = @ \/ s.table = "pools"]
  /\ Onward

\* The same without the look at the error.
AddColumnStrict(s) ==
  /\ s.what = "add"
  /\ IF Items(s) \subseteq db.have
     THEN pc' = "failed" /\ UNCHANGED <<db, at>>
     ELSE db' = [db EXCEPT !.have = @ \union Items(s)] /\ Onward

\* ALTER TABLE ADD COLUMN: that the column is there already is no error.
AddColumn(s) ==
  /\ s.what = "add"
  /\ db' = [db EXCEPT !.have = @ \union Items(s)]
  /\ Onward

\* ensurePoolsRoleCheck: the table is rebuilt with the columns that it had when
\* roles came, in one transaction; the flag is written after that.
EnsureRoleCheck(s) ==
  /\ s.what = "check"
  /\ \/ db.flagged /\ UNCHANGED db /\ Onward
     \/ ~db.flagged /\ db.checked /\ db' = [db EXCEPT !.flagged = TRUE] /\ Onward
     \/ /\ ~db.flagged /\ ~db.checked
        /\ db' = [db EXCEPT !.checked = TRUE,
                            !.have = {i \in @ : i[1] = "pools" => i \in {<<"pools">>, <<"pools", "role">>}}]
        /\ UNCHANGED <<pc, at>>

FillState(s) ==
  /\ s.what = "fill"
  /\ db' = [db EXCEPT !.drifted = FALSE]
  /\ Onward

Legacy ==
  /\ pc = "legacy" /\ at <= Len(Statements)
  /\ LET s == Statements[at]
     IN CreateTable(s) \/ AddColumn(s) \/ EnsureRoleCheck(s) \/ FillState(s)
  /\ UNCHANGED <<backups, release, faults>>

\* The downgrade guard goes by the stamp.
CheckVersion ==
  /\ pc = "legacy" /\ at > Len(Statements)
  /\ pc' = IF db.stamp > release THEN "failed" ELSE "run"
  /\ at' = 0
  /\ UNCHANGED <<db, backups, release, faults>>

\* One pending migration with its entry.  Up leaves a table alone that is not there.
Apply ==
  /\ pc = "run" /\ Pending # {}
  /\ LET i    == Min(Pending)
         m    == Migrations[i]
         here == {c \in Brought(m) : Len(c) = 2 => <<c[1]>> \in db.have}
     IN db' = [db EXCEPT !.have = @ \union here, !.ledger = @ \union {i}]
  /\ UNCHANGED <<backups, release, pc, at, faults>>

Stamp ==
  /\ pc = "run" /\ Pending = {}
  /\ db' = [db EXCEPT !.stamp = release, !.opened = Max({@, release})]
  /\ pc' = "open"
  /\ UNCHANGED <<backups, release, at, faults>>

Quit ==
  /\ pc \in {"open", "failed"}
  /\ pc' = "off"
  /\ UNCHANGED <<db, backups, release, at, faults>>

\* The program is killed, or a statement returns an I/O error.
CutShort ==
  /\ pc \in {"legacy", "run"} /\ faults < MaxFaults
  /\ pc' = "off" /\ at' = 0
  /\ faults' = faults + 1
  /\ UNCHANGED <<db, backups, release>>

\* The user puts a backup back (RECOVERY.md).
Restore ==
  /\ pc = "off" /\ faults < MaxFaults
  /\ \E i \in DOMAIN backups : db' = backups[i]
  /\ faults' = faults + 1
  /\ UNCHANGED <<backups, release, pc, at>>

Next ==
  \/ \E r \in Releases : Start(r)
  \/ Legacy \/ CheckVersion \/ Apply \/ Stamp \/ Quit \/ CutShort \/ Restore

Spec == Init /\ [][Next]_vars

-----------------------------------------------------------------------------
(* Properties *)

Needed(r) == (UNION {Items(Statements[i]) : i \in DOMAIN Statements})
               \union (UNION {Brought(Migrations[i]) : i \in 1 .. r})

\* However often earlier starts were cut short, whichever releases they were of and
\* wherever the file comes from: a store that Open returns has every table and column
\* that its release reads, is recorded as migrated, and was never opened by a newer
\* release; and Open refuses a file only if a newer release has opened it.
OpensWhatItKnows ==
  /\ pc = "open" => /\ Needed(release) \subseteq db.have
                    /\ db.checked /\ ~db.drifted
                    /\ 1 .. release \subseteq db.ledger
                    /\ db.opened <= release
  /\ pc = "failed" => db.opened > release

\* No statement of an Open takes away a column, and the data in it.
ColumnsKept == [][pc # "off" => db.have \subseteq db'.have]_vars

\* CheckVersion "returns an error if the DB was written by a newer binary than the
\* current one".
NewerNeverOpened == pc = "open" => db.ledger \subseteq 1 .. release

\* Every role that a pool may have (Role.Valid) can be stored: the check of the table
\* lets it pass.
ValidRoles   == {"plan", "work", "orchestrator", "architect"}
CheckedRoles == {"plan", "work", "orchestrator"}
RolesStored  == pc = "open" /\ db.checked => ValidRoles \subseteq CheckedRoles
===============================================================================

------------------------------- MODULE Migration -------------------------------
(***************************************************************************)
(* What db.Open does to the database before anything else runs: schema.sql *)
(* and then the ALTER TABLE statements of migrate, one after the other.    *)
(* There is no transaction, so the process may end between any two, and    *)
(* the next start begins anew on what is there.                            *)
(*                                                                         *)
(* The database is new or was left by an older version, which knew the     *)
(* first so many of the columns that were added since.                     *)
(***************************************************************************)
EXTENDS Integers, Sequences

CONSTANTS MaxRestarts    \* bound on the restarts of the process

ASSUME MigrationAssumption == MaxRestarts \in Nat

Create(table) == [op |-> "create", table |-> table, column |-> ""]
Insert(table) == [op |-> "insert", table |-> table, column |-> ""]
Alter(table, column) == [op |-> "alter", table |-> table, column |-> column]

Schema == << Create("utms"), Create("settings"), Insert("settings"),
             Create("telegram_chats"), Create("notifications_sent") >>

Alters == << Alter("settings", "telegram_mode"),
             Alter("settings", "telegram_proxy_url"),
             Alter("settings", "telegram_relay_base_url"),
             Alter("settings", "telegram_relay_auth_key"),
             Alter("telegram_chats", "utm_id"),
             Alter("utms", "fsrar_id"),
             Alter("utms", "consecutive_poll_failures"),
             Alter("utms", "failing_since") >>

\* The statements of schema.sql, then those of migrate.
Statements == [i \in 1..13 |-> IF i <= 5 THEN Schema[i] ELSE Alters[i - 5]]

Tables == {"utms", "settings", "telegram_chats", "notifications_sent"}

\* The columns of schema.sql that a database of the first version lacks, written
\* down on their own, so that an ALTER that was forgotten would be missed.
Columns ==
    ({"settings"} \X {"telegram_mode", "telegram_proxy_url",
                      "telegram_relay_base_url", "telegram_relay_auth_key"})
    \cup ({"telegram_chats"} \X {"utm_id"})
    \cup ({"utms"} \X {"fsrar_id", "consecutive_poll_failures", "failing_since"})

VARIABLES
    tables,        \* the tables of the database
    columns,       \* those of Columns they have
    stored,        \* the row of table settings: none, default or saved
    boot,          \* statements of this start that are done
    restarts       \* restarts so far

migrationVars == <<tables, columns, stored, boot, restarts>>

MigrationTypeOK ==
    /\ tables \subseteq Tables
    /\ columns \subseteq Columns
    /\ stored \in {"none", "default", "saved"}
    /\ boot \in 0..13
    /\ restarts \in 0..MaxRestarts

MigrationInit ==
    /\ \/ tables = {} /\ columns = {} /\ stored = "none"
       \/ /\ tables = Tables
          /\ \E n \in 0..8 : columns = {<<Alters[i].table, Alters[i].column>> : i \in 1..n}
          /\ stored \in {"default", "saved"}
    /\ boot = 0
    /\ restarts = 0

-----------------------------------------------------------------------------
\* Open has returned and the server is started.
Up == boot = 13

\* CREATE TABLE IF NOT EXISTS, with all the columns of today.
CreateTable(s) ==
    /\ s.op = "create"
    /\ tables' = tables \cup {s.table}
    /\ columns' = IF s.table \in tables THEN columns
                  ELSE columns \cup {c \in Columns : c[1] = s.table}
    /\ boot' = boot + 1
    /\ UNCHANGED stored

ReplacedSettings == "default"   \* faulty: INSERT OR REPLACE

\* INSERT OR IGNORE: the row with id = 1 is never written over.
InsertedSettings == IF stored = "none" THEN "default" ELSE stored

InsertRow(s) ==
    /\ s.op = "insert"
    /\ stored' = InsertedSettings
    /\ boot' = boot + 1
    /\ UNCHANGED <<tables, columns>>

StopsAtDuplicate(s) ==   \* faulty: a column that is there ends the migration
    IF <<s.table, s.column>> \in columns THEN 13 ELSE boot + 1

\* The error "duplicate column" of a column that is there is swallowed.
AfterAlter(s) == boot + 1

AlterTable(s) ==
    /\ s.op = "alter"
    /\ s.table \in tables
    /\ columns' = columns \cup {<<s.table, s.column>>}
    /\ boot' = AfterAlter(s)
    /\ UNCHANGED <<tables, stored>>

Open ==
    /\ ~Up
    /\ LET s == Statements[boot + 1] IN
       CreateTable(s) \/ InsertRow(s) \/ AlterTable(s)
    /\ UNCHANGED restarts

\* UPDATE settings.
UpdateSettings ==
    /\ Up
    /\ stored' = IF stored = "none" THEN "none" ELSE "saved"
    /\ UNCHANGED <<tables, columns, boot, restarts>>

\* A crash, an error of a statement (Open returns it and main ends), or a stop.
MigrationRestart ==
    /\ restarts < MaxRestarts
    /\ restarts' = restarts + 1
    /\ boot' = 0
    /\ UNCHANGED <<tables, columns, stored>>

MigrationNext == Open \/ UpdateSettings \/ MigrationRestart

MigrationSpec == MigrationInit /\ [][MigrationNext]_migrationVars

-----------------------------------------------------------------------------
\* A server that answers has every table, every column and the settings row
\* its statements name, whichever version left the database, and wherever
\* earlier starts were cut short.
ServesComplete == Up => tables = Tables /\ columns = Columns /\ stored # "none"

\* No start of the process takes saved settings back to their defaults.
SettingsSurvive == [][stored = "saved" => stored' = "saved"]_migrationVars

=============================================================================

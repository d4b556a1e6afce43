---------------------------- MODULE WarehouseRoles ----------------------------
(***************************************************************************)
(* The three roles of the warehouse, one per verb, and the bootstrap that  *)
(* grants them what they need.  On Snowflake every statement of it commits *)
(* on its own, tables may be there already, made by an administrator, and  *)
(* grants are given on the tables that exist and on those to come; on      *)
(* Postgres the bootstrap is one transaction and only gives default        *)
(* privileges.  One table stands for those of a schema.                    *)
(***************************************************************************)
EXTENDS Naturals, Sequences

CONSTANTS
    Snowflake,      \* TRUE: Snowflake; FALSE: Postgres
    AdminWrites,    \* TRUE: loads and builds also run as administrator
    MaxBoots,       \* bootstraps begun
    MaxWrites       \* tables written

ASSUME RolesAssumption ==
    {Snowflake, AdminWrites} \subseteq BOOLEAN /\ {MaxBoots, MaxWrites} \subseteq Nat

VARIABLES
    db,         \* schemas, roles, grants and tables
    boot,       \* the statements the bootstrap under way has still to run
    booted,     \* has a bootstrap ever ended?
    boots,      \* bootstraps begun
    checked,    \* what check_isolation found after the last bootstrap
    now,        \* tables written since the bootstrap under way began
    admin,      \* tables an administrator wrote since the last complete bootstrap began
    during,     \* tables written while a bootstrap ran, and not since
    refused,    \* the tables a role was refused to write, after a bootstrap
    writes      \* writes so far

roleVars == <<db, boot, booted, boots, checked, now, admin, during, refused, writes>>

SCHEMAS == {"STAGE", "GOLD", "MART"}
ROLES == {"loader", "transformer", "reader"}
Everybody == ROLES \cup {"admin"}

(* What every role can and cannot read.                                    *)
ISOLATION_MATRIX ==
    [loader      |-> [allow |-> {"STAGE"}, deny |-> {"GOLD", "MART"}],
     transformer |-> [allow |-> {"STAGE", "GOLD"}, deny |-> {}],
     reader      |-> [allow |-> {"MART"}, deny |-> {"STAGE", "GOLD"}]]

(***************************************************************************)
(* The statements of the bootstrap, in their order.                        *)
(***************************************************************************)
Run(kind, schema, role) == [kind |-> kind, schema |-> schema, role |-> role]

Infrastructure ==
    <<Run("schema", "STAGE", ""), Run("schema", "GOLD", ""), Run("schema", "MART", ""),
      Run("role", "", "loader"), Run("role", "", "transformer"), Run("role", "", "reader")>>

TransformerOn(layer) ==
    <<Run("usage", layer, "transformer"), Run("create", layer, "transformer"),
      Run("tables", layer, "transformer"), Run("future", layer, "transformer"),
      Run("ownership", layer, "transformer")>>

SnowflakeBootstrap ==
    Infrastructure
    \o <<Run("compute", "", "loader"), Run("compute", "", "transformer"),
         Run("compute", "", "reader")>>
    \o <<Run("usage", "STAGE", "loader"), Run("create", "STAGE", "loader"),
         Run("tables", "STAGE", "loader"), Run("future", "STAGE", "loader"),
         Run("ownership", "STAGE", "loader")>>
    \o <<Run("usage", "STAGE", "transformer"), Run("tables", "STAGE", "transformer"),
         Run("future", "STAGE", "transformer")>>
    \o TransformerOn("GOLD") \o TransformerOn("MART")
    \o <<Run("usage", "MART", "reader"), Run("tables", "MART", "reader"),
         Run("future", "MART", "reader")>>

(* What a role gets on Postgres on a schema it writes, and on one it reads. *)
Writes(schema, role) == <<Run("usage", schema, role), Run("create", schema, role)>>
Reads(schema, role) == <<Run("usage", schema, role), Run("default", schema, role)>>

PostgresBootstrap ==
    Infrastructure
    \o Writes("STAGE", "loader") \o Reads("STAGE", "transformer")
    \o Writes("GOLD", "transformer") \o Writes("MART", "transformer")
    \o Reads("MART", "reader")

(* The role that writes in a schema.                                       *)
WriterOf(schema) == IF schema = "STAGE" THEN "loader" ELSE "transformer"

(* Mutant of DefaultsFor: no `for role`, so for the role of the session.   *)
DefaultsForTheSession(schema) == "admin"
(* alter default privileges for role ...                                   *)
DefaultsFor(schema) == WriterOf(schema)

(* ... copy current grants                                                 *)
Owned(table, role) == IF table.exists THEN [table EXCEPT !.owner = role] ELSE table

Apply(stmt, d) ==
    LET s == stmt.schema
        r == stmt.role
    IN  CASE stmt.kind = "schema" -> [d EXCEPT !.schemas = @ \cup {s}]
          [] stmt.kind = "role" -> [d EXCEPT !.roles = @ \cup {r}]
          [] stmt.kind = "compute" -> [d EXCEPT !.compute = @ \cup {r}]
          [] stmt.kind = "usage" -> [d EXCEPT !.usage = @ \cup {<<r, s>>}]
          [] stmt.kind = "create" -> [d EXCEPT !.create = @ \cup {<<r, s>>}]
          [] stmt.kind = "tables" ->
                IF d.table[s].exists THEN [d EXCEPT !.table[s].readers = @ \cup {r}] ELSE d
          [] stmt.kind = "future" ->
                [d EXCEPT !.future = @ \cup {<<by, s, r>> : by \in Everybody}]
          [] stmt.kind = "default" -> [d EXCEPT !.future = @ \cup {<<DefaultsFor(s), s, r>>}]
          [] stmt.kind = "ownership" -> [d EXCEPT !.table[s] = Owned(@, r)]

(* The statements one after the other, in one transaction.                 *)
AllOf(stmts, d) ==
    LET upTo[n \in 0 .. Len(stmts)] == IF n = 0 THEN d ELSE Apply(stmts[n], upTo[n - 1])
    IN  upTo[Len(stmts)]

Has(role, privilege) == role = "admin" \/ privilege

CanRead(role, s) ==
    /\ db.table[s].exists
    /\ Has(role, /\ role \in db.roles /\ role \in db.compute
                 /\ <<role, s>> \in db.usage
                 /\ role \in db.table[s].readers \cup {db.table[s].owner})

(* check_isolation: a session per role, a count per table.                 *)
Problems ==
    {p \in ROLES \X SCHEMAS :
        \/ p[2] \in ISOLATION_MATRIX[p[1]].allow /\ ~CanRead(p[1], p[2])
        \/ p[2] \in ISOLATION_MATRIX[p[1]].deny /\ CanRead(p[1], p[2])}

NotCreated == [exists |-> FALSE, owner |-> "admin", readers |-> {}]

RolesInit ==
    /\ db = [schemas |-> {}, roles |-> {}, usage |-> {}, create |-> {}, future |-> {},
             compute |-> IF Snowflake THEN {} ELSE ROLES, table |-> [s \in SCHEMAS |-> NotCreated]]
    /\ boot = <<>>
    /\ booted = FALSE
    /\ boots = 0
    /\ checked = "nothing"
    /\ now = {}
    /\ admin = {}
    /\ during = {}
    /\ refused = {}
    /\ writes = 0

(***************************************************************************)
(* Bootstrap                                                               *)
(***************************************************************************)
(* postgres-bootstrap: all or nothing.                                     *)
BootstrapPostgres ==
    /\ ~Snowflake
    /\ boots < MaxBoots
    /\ db' = AllOf(PostgresBootstrap, db)
    /\ boots' = boots + 1
    /\ booted' = TRUE
    /\ UNCHANGED <<boot, checked, now, admin, during, refused, writes>>

(* snowflake-bootstrap, which ends by checking what it granted.            *)
BeginBootstrap ==
    /\ Snowflake
    /\ boot = <<>>
    /\ boots < MaxBoots
    /\ boot' = SnowflakeBootstrap
    /\ boots' = boots + 1
    /\ now' = {}
    /\ UNCHANGED <<db, booted, checked, admin, during, refused, writes>>

RunStatement ==
    /\ boot # <<>>
    /\ db' = Apply(Head(boot), db)
    /\ boot' = Tail(boot)
    /\ IF Tail(boot) = <<>>
       THEN /\ booted' = TRUE
            /\ admin' = admin \cap now
            /\ during' = now
            /\ checked' = IF Problems' = {} THEN "holds" ELSE "does not hold"
       ELSE UNCHANGED <<booted, checked, admin, during>>
    /\ UNCHANGED <<boots, now, refused, writes>>

(* A statement fails, or the connection does: what ran before it stays.    *)
Interrupt ==
    /\ boot # <<>>
    /\ boot' = <<>>
    /\ UNCHANGED <<db, booted, boots, checked, now, admin, during, refused, writes>>

(***************************************************************************)
(* The verbs                                                               *)
(***************************************************************************)
(* `create or replace table`, or drop and create: one's own table only.    *)
CanWrite(role, s) ==
    Has(role, /\ role \in db.roles /\ role \in db.compute
              /\ <<role, s>> \in db.usage /\ <<role, s>> \in db.create
              /\ db.table[s].exists => db.table[s].owner = role)

(* A replaced table starts again from the grants on tables to come.        *)
Created(role, s) ==
    [exists |-> TRUE, owner |-> role, readers |-> {r \in ROLES : <<role, s, r>> \in db.future}]

(* load into STAGE; dbt build of GOLD from STAGE and of MART from GOLD.    *)
Source(s) == CASE s = "STAGE" -> {} [] s = "GOLD" -> {"STAGE"} [] s = "MART" -> {"GOLD"}

Write(role, s) ==
    /\ writes < MaxWrites
    /\ \A source \in Source(s) : db.table[source].exists
    /\ s \in db.schemas
    /\ writes' = writes + 1
    /\ IF CanWrite(role, s) /\ \A source \in Source(s) : CanRead(role, source)
       THEN /\ db' = [db EXCEPT !.table[s] = Created(role, s)]
            /\ admin' = IF role = "admin" THEN admin \cup {s} ELSE admin \ {s}
            /\ IF boot = <<>>
               THEN /\ during' = during \ {s}
                    /\ UNCHANGED now
               ELSE /\ during' = during \cup {s}
                    /\ now' = now \cup {s}
            /\ UNCHANGED refused
       ELSE /\ refused' = IF booted /\ s \notin admin /\ Source(s) \cap during = {}
                         THEN refused \cup {s}
                         ELSE refused
            /\ UNCHANGED <<db, now, admin, during>>
    /\ UNCHANGED <<boot, booted, boots, checked>>

RolesNext ==
    \/ BootstrapPostgres
    \/ BeginBootstrap \/ RunStatement \/ Interrupt
    \/ \E s \in SCHEMAS : \/ Write(WriterOf(s), s)
                          \/ AdminWrites /\ Write("admin", s)

RolesSpec == RolesInit /\ [][RolesNext]_roleVars

-----------------------------------------------------------------------------
(* The shape of the state.                                                 *)
TableRecords == [exists : BOOLEAN, owner : Everybody, readers : SUBSET ROLES]

Databases ==
    [schemas : SUBSET SCHEMAS, roles : SUBSET ROLES, compute : SUBSET ROLES,
     usage : SUBSET (ROLES \X SCHEMAS), create : SUBSET (ROLES \X SCHEMAS),
     future : SUBSET (Everybody \X SCHEMAS \X ROLES), table : [SCHEMAS -> TableRecords]]

RolesTypeOK ==
    /\ db \in Databases
    /\ \A s \in SCHEMAS : ~db.table[s].exists => db.table[s] = NotCreated
    /\ checked \in {"nothing", "holds", "does not hold"}
    /\ booted \in BOOLEAN
    /\ boots \in Nat /\ writes \in Nat
    /\ now \subseteq SCHEMAS /\ admin \subseteq SCHEMAS
    /\ during \subseteq SCHEMAS /\ refused \subseteq SCHEMAS

(* No role reads a table the matrix denies it: not half way through a      *)
(* bootstrap, nor after tables have been replaced or changed owner.        *)
NobodyReadsMore ==
    \A r \in ROLES : \A s \in SCHEMAS : CanRead(r, s) => s \notin ISOLATION_MATRIX[r].deny

(* Once a bootstrap has ended every role reads the tables the matrix       *)
(* allows it, those that were there before and those replaced since, also  *)
(* while a bootstrap runs again or after it died half way: the TRANSFORMER  *)
(* still reads a STAGE the LOADER dropped and created, the READER a MART   *)
(* that changed owner.  All but one replaced while the bootstrap ran: it   *)
(* may have come between the grant on all tables and that on future ones,  *)
(* and waits for the next load.                                            *)
EverybodyReadsEnough ==
    booted => \A r \in ROLES : \A s \in ISOLATION_MATRIX[r].allow \ during :
                 db.table[s].exists => CanRead(r, s)

(* After a bootstrap the LOADER loads and the TRANSFORMER builds, over     *)
(* tables an administrator left as well; only a table an administrator has *)
(* replaced since the bootstrap began, or a source replaced while it ran,  *)
(* refuses them.                                                           *)
VerbsAreNotRefused == refused = {}

(* The bootstrap, dead half way or run again over tables of any owner: no  *)
(* role reads what ISOLATION_MATRIX denies it, and none is refused its     *)
(* verb.                                                                   *)
RolesKeepTheMatrix ==
    /\ RolesTypeOK
    /\ NobodyReadsMore
    /\ EverybodyReadsEnough
    /\ VerbsAreNotRefused

(* A bootstrap that runs to its end reports that the isolation holds.  (On *)
(* a new account there is nothing to read yet, and the check takes a table *)
(* that does not exist for one that may not be read.)                      *)
BootstrapReportsSuccess == checked # "does not hold"
=============================================================================

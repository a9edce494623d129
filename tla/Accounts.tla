------------------------------ MODULE Accounts ------------------------------
(***************************************************************************)
(* Accounts and the projects they may see, and the write transaction (tx)  *)
(* of meta.sqlite that every change of them goes through.  Callers are API *)
(* threads and starting API processes, which bootstrap the administrator.  *)
(***************************************************************************)
EXTENDS FiniteSets

CONSTANTS
    Usernames,   \* usernames; an account and its username are one
    Admin,       \* the administrator's, from the configuration
    AccessIds,   \* project ids that callers send
    NoProject,   \* those of them that no project has
    Clients,     \* threads and starting processes
    Nobody       \* no thread

ASSUME AccountsAssumption ==
    /\ Admin \in Usernames
    /\ NoProject \subseteq AccessIds
    /\ Nobody \notin Clients

VARIABLES
    db,       \* the committed rows: the accounts, and the projects of each
    writer,   \* who holds SQLite's write lock
    draft,    \* the rows as the open transaction sees them
    txn,      \* txn[c]: what client c does, for whom, and what it still has to insert
    granted   \* history: what was asked for by the last change that succeeded

accountVars == <<db, writer, draft, txn, granted>>

Idle == [op |-> "none", place |-> "out", user |-> Admin, asked |-> {}, todo |-> {}]

AccountsInit ==
    /\ db = [users |-> {}, access |-> [u \in Usernames |-> {}]]
    /\ writer = Nobody
    /\ draft = db
    /\ txn = [c \in Clients |-> Idle]
    /\ granted = [u \in Usernames |-> {}]

\* bootstrap_admin, create_user, set_access, with whatever the administrator sends.
Call(c, op, u, projects) ==
    /\ txn[c] = Idle
    /\ op = "bootstrap" => u = Admin /\ projects = {}
    /\ txn' = [txn EXCEPT ![c] = [op |-> op, place |-> "begin", user |-> u,
                                  asked |-> projects, todo |-> projects]]
    /\ UNCHANGED <<db, writer, draft, granted>>

\* __enter__: BEGIN IMMEDIATE waits for the lock.
Begin(c) ==
    /\ txn[c].place = "begin"
    /\ writer = Nobody
    /\ writer' = c
    /\ draft' = db
    /\ txn' = [txn EXCEPT ![c].place = "first"]
    /\ UNCHANGED <<db, granted>>

\* The statement before the access rows: the SELECT and INSERT of bootstrap_admin (the
\* password is configured), the INSERT of create_user, the DELETE of set_access.
FirstStatement(c) ==
    LET t == txn[c] IN
    /\ t.place = "first"
    /\ t.op = "create_user" => t.user \notin draft.users
    /\ draft' = [users  |-> IF t.op = "set_access" THEN draft.users
                            ELSE draft.users \cup {t.user},
                 access |-> [draft.access EXCEPT ![t.user] =
                               IF t.op = "set_access" THEN {} ELSE @]]
    /\ txn' = [txn EXCEPT ![c].place = "insert"]
    /\ UNCHANGED <<db, writer, granted>>

\* INSERT OR IGNORE INTO project_access
InsertAccess(c, p) ==
    /\ txn[c].place = "insert"
    /\ p \in txn[c].todo \ NoProject /\ txn[c].user \in draft.users
    /\ draft' = [draft EXCEPT !.access[txn[c].user] = @ \cup {p}]
    /\ txn' = [txn EXCEPT ![c].todo = @ \ {p}]
    /\ UNCHANGED <<db, writer, granted>>

\* __exit__ without an exception
Commit(c) ==
    /\ txn[c].place = "insert" /\ txn[c].todo = {}
    /\ db' = draft
    /\ writer' = Nobody
    /\ granted' = [granted EXCEPT ![txn[c].user] =
                     IF txn[c].op = "bootstrap" THEN @ ELSE txn[c].asked]
    /\ txn' = [txn EXCEPT ![c] = Idle]
    /\ UNCHANGED draft

\* Mutant: commit whether or not there is an exception.
Rollback_commits(c) ==
    /\ txn[c].place = "insert" /\ txn[c].todo \cap NoProject # {}
    /\ db' = draft
    /\ writer' = Nobody
    /\ txn' = [txn EXCEPT ![c] = Idle]
    /\ UNCHANGED <<draft, granted>>

\* A statement raises (a username that exists is UNIQUE, an account or a project that does
\* not exist violates a foreign key, which OR IGNORE does not ignore) and __exit__ rolls
\* back, or the process is killed: nothing of the transaction stays.
Rollback(c) ==
    /\ txn[c].place \in {"first", "insert"}
    /\ writer' = Nobody
    /\ draft' = db
    /\ txn' = [txn EXCEPT ![c] = Idle]
    /\ UNCHANGED <<db, granted>>

\* The lock is not free for 30 s: "database is locked", before anything is done.
BeginTimesOut(c) ==
    /\ txn[c].place = "begin" /\ writer # Nobody
    /\ txn' = [txn EXCEPT ![c] = Idle]
    /\ UNCHANGED <<db, writer, draft, granted>>

AccountsNext ==
    \E c \in Clients :
        \/ \E op \in {"bootstrap", "create_user", "set_access"}, u \in Usernames,
              projects \in SUBSET AccessIds : Call(c, op, u, projects)
        \/ Begin(c) \/ BeginTimesOut(c) \/ FirstStatement(c)
        \/ \E p \in AccessIds : InsertAccess(c, p)
        \/ Commit(c) \/ Rollback(c)

AccountsSpec == AccountsInit /\ [][AccountsNext]_accountVars
-----------------------------------------------------------------------------
\* The projects an account may see, as every reader finds them, are the list of one
\* call, the last that succeeded: never the union of two, what is left after the DELETE,
\* or the part of a list before a project that does not exist.
AccessWhole == db.access = granted
=============================================================================

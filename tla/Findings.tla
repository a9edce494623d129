------------------------------ MODULE Findings ------------------------------
(***************************************************************************)
(* The findings of one branch.  security_scan jobs are no write jobs and   *)
(* may overlap: each stores what the scanners reported and then reconciles *)
(* the last two scans on record, while users change the status of single   *)
(* findings.  A finding is known by (rule, file, line).                    *)
(***************************************************************************)
EXTENDS Naturals

CONSTANTS
    Keys,          \* (rule, file, line) triples
    ScannerOf,     \* the scanner that reports each key
    Enabled,       \* settings.security: the scanners that are switched on
    Tags,          \* first four characters of a scan id, which make finding ids
    Scanners,      \* worker threads that run security_scan jobs of the branch
    NoScan,        \* no scan
    UserStatuses   \* what PATCH is sent (it takes any string)

Tools == {"gitleaks", "semgrep", "osv-scanner"}

ASSUME FindingsAssumption ==
    /\ ScannerOf \in [Keys -> Tools]
    /\ Enabled \subseteq Tools
    /\ NoScan \notin Tags
    /\ UserStatuses \subseteq {"new", "resolved", "ignored"}

VARIABLES
    second,    \* datetime('now') when findings were last stored
    table,     \* table[t]: created_at and statuses of the findings of scan t
    scan,      \* scan[w]: where thread w is behind its save, and what it has read
    disturbed  \* history: a scan has raised between its save and its reconcile,
               \* or a user has set a finding to new

findingsVars == <<second, table, scan, disturbed>>

Reported(t) == {k \in Keys : table[t].status[k] # "absent"}
Stored == {t \in Tags : Reported(t) # {}}

Resting == [place |-> "idle", newer |-> NoScan, older |-> NoScan]

FindingsInit ==
    /\ second = 0
    /\ table = [t \in Tags |-> [at |-> 0, status |-> [k \in Keys |-> "absent"]]]
    /\ scan = [w \in Scanners |-> Resting]
    /\ disturbed = FALSE

(***************************************************************************)
(* scan_branch, with a worktree.  A scanner reads files that move under    *)
(* it; one that is missing, times out or prints no JSON reports nothing,   *)
(* and the scan goes on.  The LLM review keeps the list.                   *)
(***************************************************************************)
Reports == SUBSET {k \in Keys : ScannerOf[k] \in Enabled}

\* The INSERTs are one transaction.  Finding ids are the tag and an index, so they
\* are free if the tag is; otherwise the first INSERT raises, nothing is stored and
\* the job fails, which changes no finding.
SaveFindings(w, t, found, later) ==
    /\ scan[w].place = "idle"
    /\ found # {} => t \notin Stored
    /\ scan' = [scan EXCEPT ![w].place = "reconcile"]
    /\ IF found = {}
       THEN UNCHANGED <<second, table>>
       ELSE /\ second' = second + later
            /\ table' = [table EXCEPT ![t] =
                 [at |-> second + later,
                  status |-> [k \in Keys |-> IF k \in found THEN "new" ELSE "absent"]]]
    /\ UNCHANGED disturbed

\* Mutant: ORDER BY created_at ASC.
LastTwo_oldest(n, o) ==
    /\ n # o /\ {n, o} \subseteq Stored
    /\ table[n].at <= table[o].at
    /\ \A t \in Stored \ {n, o} : table[t].at >= table[o].at

\* Mutant: the newest scan and the first one.
LastTwo_first(n, o) ==
    /\ n # o /\ {n, o} \subseteq Stored
    /\ \A t \in Stored : table[o].at <= table[t].at /\ table[t].at <= table[n].at

\* ORDER BY created_at DESC LIMIT 2: scans of one second come in any order.
LastTwo(n, o) ==
    /\ n # o /\ {n, o} \subseteq Stored
    /\ table[n].at >= table[o].at
    /\ \A t \in Stored \ {n, o} : table[t].at <= table[o].at

\* _reconcile reads first ...
ReadLastTwo(w, n, o) ==
    /\ scan[w].place = "reconcile"
    /\ LastTwo(n, o)
    /\ scan' = [scan EXCEPT ![w] = [place |-> "resolve", newer |-> n, older |-> o]]
    /\ UNCHANGED <<second, table, disturbed>>

NothingToCompare(w) ==
    /\ scan[w].place = "reconcile"
    /\ \A n, o \in Tags : ~LastTwo(n, o)
    /\ scan' = [scan EXCEPT ![w] = Resting]
    /\ UNCHANGED <<second, table, disturbed>>

\* ... and then updates the older scan's rows, whatever status they have.
Resolve(w) ==
    /\ scan[w].place = "resolve"
    /\ table' = [table EXCEPT ![scan[w].older].status =
                   [k \in Keys |-> IF @[k] # "absent" /\ k \notin Reported(scan[w].newer)
                                   THEN "resolved" ELSE @[k]]]
    /\ scan' = [scan EXCEPT ![w] = Resting]
    /\ UNCHANGED <<second, disturbed>>

\* A statement of _reconcile raises, or the thread dies: the findings are stored.
ReconcileRaises(w) ==
    /\ scan[w].place # "idle"
    /\ scan' = [scan EXCEPT ![w] = Resting]
    /\ disturbed' = TRUE
    /\ UNCHANGED <<second, table>>

\* PATCH .../findings/{fid}
UpdateFinding(t, k, status) ==
    /\ k \in Reported(t)
    /\ table' = [table EXCEPT ![t].status[k] = status]
    /\ disturbed' = (disturbed \/ status = "new")
    /\ UNCHANGED <<second, scan>>

FindingsNext ==
    \/ \E w \in Scanners :
          \/ \E t \in Tags, found \in Reports, later \in {0, 1} : SaveFindings(w, t, found, later)
          \/ \E n, o \in Tags : ReadLastTwo(w, n, o)
          \/ NothingToCompare(w) \/ Resolve(w) \/ ReconcileRaises(w)
    \/ \E t \in Tags, k \in Keys, status \in UserStatuses : UpdateFinding(t, k, status)

FindingsSpec == FindingsInit /\ [][FindingsNext]_findingsVars
-----------------------------------------------------------------------------
\* What a scan stored stays what it reported, and nobody but a user touches the
\* status of a finding, a user's "ignored" included, unless a scan that is not
\* older lacks it ("in the last scan but not in this one", scanner.py:194): an
\* UPDATE that comes late, behind the saves of other scans, resolves nothing of
\* the newest scan.
OnlyTheGone ==
    [][\A t \in Stored, k \in Keys :
         table'[t].status[k] # table[t].status[k] =>
            \/ \E s \in UserStatuses : UpdateFinding(t, k, s)
            \/ /\ table'[t].status[k] = "resolved"
               /\ \E u \in Stored \ {t} :
                     table[u].at >= table[t].at /\ k \notin Reported(u)]_findingsVars

\* When no scan is behind its save, none broke off there and no user reopened
\* anything, what the last stored scan no longer has is not open in the one before
\* it, however many scans saved before the first of them reconciled.
BaselineCompared ==
    (\A w \in Scanners : scan[w].place = "idle") /\ ~disturbed =>
        \A n, o \in Stored :
            /\ n # o
            /\ \A t \in Stored \ {n} : table[t].at < table[n].at
            /\ \A t \in Stored \ {n, o} : table[t].at < table[o].at
            => \A k \in Reported(o) \ Reported(n) :
                    table[o].status[k] # "new"
=============================================================================

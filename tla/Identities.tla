----------------------------- MODULE Identities -----------------------------
(***************************************************************************)
(* The platform accounts of a project.  Resolving adds and updates them    *)
(* from the platform's commits, an administrator merges those that are one *)
(* person, and the list shows the ones that are merged into no other.      *)
(***************************************************************************)
EXTENDS Naturals, FiniteSets

CONSTANTS
    Persons,   \* platform_user_id of the accounts, and the ids of their rows
    NoPerson   \* NULL

ASSUME IdentitiesAssumption == NoPerson \notin Persons /\ IsFiniteSet(Persons)

VARIABLES
    accounts,   \* the accounts that have a row
    merged,     \* merged_into
    misled      \* history: an account was merged that, or into one that, was not listed

identityVars == <<accounts, merged, misled>>

IdentitiesInit ==
    /\ accounts = {}
    /\ merged = [i \in Persons |-> NoPerson]
    /\ misled = FALSE

\* The upsert of the authors the platform knows of the last commits: names, addresses and
\* "verified" are new, merged_into is left alone.  A platform that fails finds nobody.
ResolveIdentities(authors) ==
    /\ accounts' = accounts \cup authors
    /\ UNCHANGED <<merged, misled>>

\* Mutant: the list shows merged accounts, too.
Listed_all == accounts

Listed == {i \in accounts : merged[i] = NoPerson}

\* Two different accounts that list_identities shows.
TwoListed(source, target) == source # target /\ {source, target} \subseteq Listed

\* merge_identities asks nothing, and the API only whether the caller is an administrator:
\* the UPDATE takes any ids, the account itself, one that is merged already and a target
\* that does not exist; it changes nothing when the source does not.
Merge(source, target) ==
    /\ merged' = [i \in Persons |->
                     IF i = source /\ source \in accounts THEN target ELSE merged[i]]
    /\ misled' = (misled \/ (source \in accounts /\ ~TwoListed(source, target)))
    /\ UNCHANGED accounts

IdentitiesNext ==
    \/ \E authors \in SUBSET Persons : ResolveIdentities(authors)
    \/ \E source, target \in Persons : Merge(source, target)

IdentitiesSpec == IdentitiesInit /\ [][IdentitiesNext]_identityVars
-----------------------------------------------------------------------------
\* Everybody whom account i was merged into, step by step.
MergedInto(i) ==
    LET within[n \in 0..Cardinality(Persons)] ==
            IF n = 0 THEN {i}
            ELSE within[n - 1] \cup {merged[j] : j \in within[n - 1] \cap accounts}
    IN  within[Cardinality(Persons)]

\* Account i is represented by one that is merged into no other.
Shows(i) == \E j \in MergedInto(i) \cap accounts : merged[j] = NoPerson

\* As long as only accounts are merged that the list shows at that time, into others it
\* shows, nobody disappears (identity.py:132): whoever was merged, again and again and between
\* any resolving of commits, is represented by an account that is merged into no other.
Represented == ~misled => \A i \in accounts : Shows(i)
=============================================================================

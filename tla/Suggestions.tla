---------------------------- MODULE Suggestions ----------------------------
(***************************************************************************)
(* Suggested questions: generated by an LLM from the analyses of the last  *)
(* commits of the project, and kept for each branch in the memory of the   *)
(* API process for a while.  Requests run in parallel threads, and         *)
(* analyses arrive meanwhile, in another order than the commits were made. *)
(***************************************************************************)
EXTENDS Naturals, FiniteSets

CONSTANTS
    Requests,      \* API threads that serve suggest_questions
    SuggestTTL,    \* _SUGGEST_TTL in ticks of the clock
    RecentLimit,   \* LIMIT of _recent_commits_for_suggest (20)
    PromptLimit,   \* commits that go into the prompt (15)
    MaxTime,       \* bound on the clock
    MaxAnalyses    \* bound on the commits of the project

ASSUME SuggestionsAssumption ==
    /\ {SuggestTTL, MaxTime, MaxAnalyses} \subseteq Nat
    /\ {RecentLimit, PromptLimit} \subseteq Nat \ {0}
    /\ PromptLimit <= RecentLimit

VARIABLES
    time,      \* time.time()
    arrived,   \* arrived[n]: when the analysis of the n-th commit was stored, or NotYet
    cache,     \* _SUGGEST_CACHE[key]: the analyses it was made from and its timestamp
    request    \* request[r]: where the request is, its "now" and what it has read

suggestVars == <<time, arrived, cache, request>>

\* Commits in the order of committed_at.
Analyses == 1..MaxAnalyses
NotYet == MaxTime + 1
Known == {n \in Analyses : arrived[n] # NotYet}

NoEntry == [made |-> {}, ts |-> 0]
NoRequest == [place |-> "idle", now |-> 0, read |-> {}]

SuggestInit ==
    /\ time = 0
    /\ arrived = [n \in Analyses |-> NotYet]
    /\ cache = NoEntry
    /\ request = [r \in Requests |-> NoRequest]

Tick ==
    /\ time < MaxTime
    /\ time' = time + 1
    /\ UNCHANGED <<arrived, cache, request>>

Analysed(n) ==
    /\ n \notin Known
    /\ arrived' = [arrived EXCEPT ![n] = time]
    /\ UNCHANGED <<time, cache, request>>

Cached == cache # NoEntry
Fresh(now) == Cached /\ now - cache.ts < SuggestTTL

\* The request takes the time and finds no entry that is young enough (a request that
\* finds one is answered from it and changes nothing).
Misses(r) ==
    /\ request[r].place = "idle"
    /\ ~Fresh(time)
    /\ request' = [request EXCEPT ![r] = [place |-> "reads", now |-> time, read |-> {}]]
    /\ UNCHANGED <<time, arrived, cache>>

\* ORDER BY committed_at DESC LIMIT k
Newest(S, k) == {n \in S : Cardinality({m \in S : m > n}) < k}

\* _recent_commits_for_suggest; without any, the standard questions are the answer.
ReadCommits(r) ==
    /\ request[r].place = "reads"
    /\ request' = [request EXCEPT ![r] =
                     IF Known = {} THEN NoRequest
                     ELSE [@ EXCEPT !.place = "asks", !.read = Newest(Known, RecentLimit)]]
    /\ UNCHANGED <<time, arrived, cache>>

Prompt(r) == Newest(request[r].read, PromptLimit)

\* Mutant: the entry is stamped when the LLM has answered.
Questions_stampedLate(r) ==
    /\ request[r].place = "asks"
    /\ cache' = [made |-> Prompt(r), ts |-> time]
    /\ request' = [request EXCEPT ![r] = NoRequest]
    /\ UNCHANGED <<time, arrived>>

\* chat_json returns questions: the entry replaces whatever other requests stored.
Questions(r) ==
    /\ request[r].place = "asks"
    /\ cache' = [made |-> Prompt(r), ts |-> request[r].now]
    /\ request' = [request EXCEPT ![r] = NoRequest]
    /\ UNCHANGED <<time, arrived>>

\* The provider fails, and the stub has no "questions", or it answers without JSON or
\* without questions: the standard questions are returned and not kept.
NoQuestions(r) ==
    /\ request[r].place = "asks"
    /\ request' = [request EXCEPT ![r] = NoRequest]
    /\ UNCHANGED <<time, arrived, cache>>

\* The cache is in memory.
ApiRestarts ==
    /\ cache' = NoEntry
    /\ request' = [r \in Requests |-> NoRequest]
    /\ UNCHANGED <<time, arrived>>

SuggestNext ==
    \/ Tick \/ ApiRestarts
    \/ \E n \in Analyses : Analysed(n)
    \/ \E r \in Requests : Misses(r) \/ ReadCommits(r) \/ Questions(r) \/ NoQuestions(r)

SuggestSpec == SuggestInit /\ [][SuggestNext]_suggestVars
-----------------------------------------------------------------------------
\* Of the commits that a prompt has room for, suggestions served from the cache were made
\* from every one whose analysis is at least one TTL old, in whatever order analyses
\* arrive, however slow the LLM, and whichever of several requests stored last; the
\* standard questions, made from none, are never served from it.
SuggestionsFresh ==
    Fresh(time) =>
        /\ cache.made # {}
        /\ {n \in Newest(Known, PromptLimit) : time - arrived[n] >= SuggestTTL}
              \subseteq cache.made
=============================================================================

----------------------------- MODULE MCResults -----------------------------
(***************************************************************************)
(* What is made of an index: findings, chunks, suggestions, reports, and   *)
(* the accounts they are for.  The parts share no state, so a behaviour    *)
(* runs one of them.                                                       *)
(***************************************************************************)
EXTENDS Findings, CodeIndex, ModuleGraph, Suggestions, Accounts, Identities, Chunker,
        WeeklyReport, TLC

CONSTANTS
    MaxFile,   \* lines of a file to be cut
    MaxLog,    \* lines of a git log
    MaxDay     \* days

VARIABLES
    part,   \* what the behaviour is about
    kind,   \* of the report functions: what goes into one,
    input   \* and the input

others == <<findingsVars, codeIndexVars, graphVars, suggestVars, accountVars, identityVars>>

\* Both keys are reported by one scanner, so that they are symmetric.
EveryScanner == [k \in Keys |-> "semgrep"]

\* Two files of one module and one of another.
Directories == [f \in SourceFiles |-> IF f = "main.py" THEN "root" ELSE "src"]

\* Threads of all parts are the same model values; so are keys and contents.
Symmetry == UNION {Permutations(S) : S \in {Tags, Scanners, Keys, Branches}}

LogLines ==
    [kind : {"commit"}, author : {"ann", "bob"}, category : {"fix", "other"}]
      \cup [kind : {"numstat"}, dir : {"src", ""}, churn : {1, 3}]
      \cup {[kind |-> "rest"]}

Weeks ==
    {st \in [commits : 1..4, conv : 0..4, fix : 0..4, dirs : {1..d : d \in {0, 1, 4, 5, 8, 9}},
             churn : 0..12 \cup 1598..1606 \cup 5998..6006] :
        st.fix <= st.conv /\ st.conv <= st.commits}

Init ==
    /\ part \in {"findings", "index", "graph", "suggestions", "accounts", "identities", "functions"}
    /\ FindingsInit /\ CodeIndexInit /\ GraphInit /\ SuggestInit /\ AccountsInit /\ IdentitiesInit
    /\ kind \in (IF part = "functions" THEN {"file", "log", "day", "week"} ELSE {"none"})
    /\ input = IF kind = "day" THEN 0 ELSE <<>>

FindingsStep ==
    /\ part = "findings" /\ FindingsNext
    /\ UNCHANGED <<codeIndexVars, graphVars, suggestVars, accountVars, identityVars, input>>

IndexStep ==
    /\ part = "index" /\ CodeIndexNext
    /\ UNCHANGED <<findingsVars, graphVars, suggestVars, accountVars, identityVars, input>>

GraphStep ==
    /\ part = "graph" /\ GraphNext
    /\ UNCHANGED <<findingsVars, codeIndexVars, suggestVars, accountVars, identityVars, input>>

SuggestionsStep ==
    /\ part = "suggestions" /\ SuggestNext
    /\ UNCHANGED <<findingsVars, codeIndexVars, graphVars, accountVars, identityVars, input>>

AccountsStep ==
    /\ part = "accounts" /\ AccountsNext
    /\ UNCHANGED <<findingsVars, codeIndexVars, graphVars, suggestVars, identityVars, input>>

IdentitiesStep ==
    /\ part = "identities" /\ IdentitiesNext
    /\ UNCHANGED <<findingsVars, codeIndexVars, graphVars, suggestVars, accountVars, input>>

\* A file or a log goes on, a day passes, or a week is over.
InputStep ==
    /\ part = "functions" /\ UNCHANGED others
    /\ \/ /\ kind = "file" /\ Len(input) < MaxFile
          /\ \E line \in {"def", "code", "blank"} : input' = Append(input, line)
       \/ /\ kind = "log" /\ Len(input) < MaxLog
          /\ \E line \in LogLines : input' = Append(input, line)
       \/ kind = "day" /\ input < MaxDay /\ input' = input + 1
       \/ kind = "week" /\ input = <<>> /\ \E st \in Weeks : input' = st

Next ==
    /\ \/ FindingsStep \/ IndexStep \/ GraphStep \/ SuggestionsStep
       \/ AccountsStep \/ IdentitiesStep \/ InputStep
    /\ UNCHANGED <<part, kind>>

Spec == Init /\ [][Next]_<<part, kind, input, others>>
-----------------------------------------------------------------------------
\* However a file goes on, cutting it loses and repeats no line with text, and start_line
\* leads to the text (chunker.py:42).
ChunksCover == kind = "file" => ChunksOf(input, ChunkFile(input))

\* Whatever lines a log consists of, each commit and each file of it is counted once, a file
\* for the author of the commit above it, in the weekly report and, if it is not excluded,
\* for the account of that author in the contributor report (weekly.py:115, history.py:137).
LogConserved ==
    kind = "log" =>
    LET authors == {"ann", "bob"}
        Account == [a \in authors |-> "ann"]
    IN  /\ Attributed(AggregateByAuthor(ParseGitLog(input)), input, {}, [a \in authors |-> a])
        /\ Attributed(ByLog(ParseNumstat(input, {""}), Account), input, {""}, Account)

\* Whatever day and hour the weekly reports are made, a commit made on another day than a
\* Monday is in the report of its week and in no other, and one made on a Monday in no report
\* but that of its week or the week before (weekly.py:82, weekly.py:160): Tiles.
WeeksTile ==
    kind = "day" =>
        \A now \in {0, 9, 15, 23}, hour \in 0..(24 * MaxDay) : Tiles(input, hour, now)

\* Whatever a contributor's week was, who labels a commit honestly never loses by it, and
\* the points are between 0 and 100 without clamping (weekly.py, compute_quality): Fair.
QualityFair == kind = "week" /\ input # <<>> => Fair(input)
=============================================================================

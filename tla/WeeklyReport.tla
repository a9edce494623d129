---------------------------- MODULE WeeklyReport ----------------------------
(***************************************************************************)
(* The contribution reports: which commits of a git log they take in, how  *)
(* they read the log line by line, add it up by contributor and score a    *)
(* contributor's week.  Days are numbers, 0 a Monday; times are hours.     *)
(***************************************************************************)
EXTENDS Integers, SequencesExt, FiniteSetsExt

Monday(day) == day - (day % 7)

\* Mutant: the week ends with its Sunday, as if --until included the day.
LastFullWeek_untilSunday(today) ==
    [since |-> Monday(today) - 7, until |-> Monday(today) - 1]

LastFullWeek(today) == [since |-> Monday(today) - 7, until |-> Monday(today)]

WeekOf(day) == [since |-> Monday(day), until |-> Monday(day) + 7]

\* git takes a date without a time to mean the hour it is now on that day, and --since and
\* --until both include that moment.
Selected(time, week, now) ==
    24 * week.since + now <= time /\ time <= 24 * week.until + now

(***************************************************************************)
(* A log is a sequence of lines: a "commit" with its author and category,  *)
(* the "numstat" of a file with its directory ("" for none) and its churn, *)
(* insertions and deletions (0 for a binary file), or anything else.       *)
(***************************************************************************)
\* Mutant: a numstat line is added to the first commit.
ReadLine_first(commits, line) ==
    CASE line.kind = "commit" ->
            Append(commits, [author |-> line.author, category |-> line.category,
                             files |-> 0, churn |-> 0, dirs |-> {}])
      [] line.kind = "numstat" /\ commits # <<>> ->
            [commits EXCEPT ![1].files = @ + 1, ![1].churn = @ + line.churn,
                            ![1].dirs = @ \cup ({line.dir} \ {""})]
      [] OTHER -> commits

ReadLine(commits, line) ==
    CASE line.kind = "commit" ->
            Append(commits, [author |-> line.author, category |-> line.category,
                             files |-> 0, churn |-> 0, dirs |-> {}])
      [] line.kind = "numstat" /\ commits # <<>> ->
            LET n == Len(commits)
            IN  [commits EXCEPT ![n].files = @ + 1, ![n].churn = @ + line.churn,
                                ![n].dirs = @ \cup ({line.dir} \ {""})]
      [] OTHER -> commits

ParseGitLog(lines) == FoldLeft(ReadLine, <<>>, lines)

\* The statistics of some of the commits, and of the commits of each author.
AuthorStats(commits, own) ==
    LET Of(category) == {i \in own : commits[i].category = category}
    IN  [commits    |-> Cardinality(own),
         fix        |-> Cardinality(Of("fix")),
         conv       |-> Cardinality(own \ Of("other")),
         files      |-> SumFunctionOnSet([i \in DOMAIN commits |-> commits[i].files], own),
         churn      |-> SumFunctionOnSet([i \in DOMAIN commits |-> commits[i].churn], own),
         dirs       |-> UNION {commits[i].dirs : i \in own}]

AggregateByAuthor(commits) ==
    [a \in {commits[i].author : i \in DOMAIN commits} |->
        AuthorStats(commits, {i \in DOMAIN commits : commits[i].author = a})]

(***************************************************************************)
(* The contributor report: files that match exclude_globs, here those of   *)
(* some directories, do not count, and contributors are the accounts,      *)
(* Account[a] for the address a.                                           *)
(***************************************************************************)
ReadIncluded(commits, line, excluded) ==
    IF line.kind = "numstat" /\ line.dir \in excluded THEN commits ELSE ReadLine(commits, line)

ParseNumstat(lines, excluded) ==
    FoldLeft(LAMBDA commits, line : ReadIncluded(commits, line, excluded), <<>>, lines)

ByLog(commits, Account) ==
    AggregateByAuthor([i \in DOMAIN commits |->
                          [commits[i] EXCEPT !.author = Account[commits[i].author]]])

(***************************************************************************)
(* compute_quality, times 550000 * commits, before it is clamped to 0..100 *)
(* and rounded to one digit.                                               *)
(***************************************************************************)
Least(a, b) == IF a < b THEN a ELSE b

\* 1100 * commits times the points for size
Size(st) ==
    LET n == st.commits
        base == IF st.churn <= 400 * n THEN 33000 * n
                ELSE IF st.churn <= 1500 * n THEN 33000 * n - 18 * (st.churn - 400 * n)
                ELSE 13200 * n
    IN  IF st.churn < 3 * n THEN (base * 8) \div 10 ELSE base

\* Mutant: a fix costs up to all the points for focus, not half of them.
Focus_all(st) ==
    LET dirs == Cardinality(st.dirs)
    IN  (150 * st.commits - 50 * Least(5 * st.fix, 3 * st.commits))
          * (IF dirs = 0 \/ dirs > 8 THEN 70 ELSE IF dirs > 4 THEN 85 ELSE 100)

\* 500 * commits times the points for focus
Focus(st) ==
    LET dirs == Cardinality(st.dirs)
    IN  (150 * st.commits - 25 * Least(5 * st.fix, 3 * st.commits))
          * (IF dirs = 0 \/ dirs > 8 THEN 70 ELSE IF dirs > 4 THEN 85 ELSE 100)

Quality(st) == 40 * 550000 * st.conv + 1100 * Focus(st) + 500 * Size(st)
-----------------------------------------------------------------------------
\* The report of a day is about a whole week that has ended, and whatever the hour now it is
\* made at, a commit not made on a Monday is in it if and only if that is the week the commit
\* was made in.  One made on a Monday may be in the report of its week or of the week before:
\* in one of them when both are made at one hour of the day, in both only at that hour.
Tiles(day, time, now) ==
    LET last == LastFullWeek(day)
        made == time \div 24
        own == WeekOf(made)
        before == WeekOf(made - 7)
    IN  /\ last = WeekOf(last.since) /\ last.until <= day
        /\ made # Monday(made) => (Selected(time, last, now) <=> last = own)
        /\ made = Monday(made) =>
              /\ Selected(time, last, now) => last \in {own, before}
              /\ Selected(time, own, now) \/ Selected(time, before, now)
              /\ Selected(time, own, now) /\ Selected(time, before, now) => time % 24 = now

\* The files of a log that belong to commits of the authors A: the commit line above a file
\* is theirs.
FilesOf(lines, A) ==
    {i \in DOMAIN lines :
        /\ lines[i].kind = "numstat"
        /\ \E j \in 1..i : /\ lines[j].kind = "commit" /\ lines[j].author \in A
                           /\ \A m \in (j + 1)..i : lines[m].kind # "commit"}

\* The statistics of a log have each of its commits once, and each file that is not excluded
\* once with its churn, for the contributor whom Account gives the author.
Attributed(stats, lines, excluded, Account) ==
    LET commits == {j \in DOMAIN lines : lines[j].kind = "commit"}
        churn == [i \in DOMAIN lines |-> IF lines[i].kind = "numstat" THEN lines[i].churn ELSE 0]
    IN  /\ DOMAIN stats = {Account[lines[j].author] : j \in commits}
        /\ \A c \in DOMAIN stats :
              LET authors == {a \in DOMAIN Account : Account[a] = c}
                  files == {i \in FilesOf(lines, authors) : lines[i].dir \notin excluded}
              IN  /\ stats[c].commits = Cardinality({j \in commits : lines[j].author \in authors})
                  /\ stats[c].files = Cardinality(files)
                  /\ stats[c].churn = SumFunctionOnSet(churn, files)

\* Who labels a commit honestly never loses by it: naming an unlabelled commit a fix, or
\* anything else, costs no points although fixes cost points, and a smaller change is
\* never worth less, empty ones excepted; all of it between 0 and 100 without clamping.
Fair(st) ==
    LET scale == 550000 * st.commits IN
    /\ 0 <= Quality(st) /\ Quality(st) <= 100 * scale
    /\ st.conv < st.commits =>
          /\ Quality([st EXCEPT !.conv = @ + 1, !.fix = @ + 1]) >= Quality(st)
          /\ Quality([st EXCEPT !.conv = @ + 1]) >= Quality(st)
    /\ st.churn > 3 * st.commits => Quality([st EXCEPT !.churn = @ - 1]) >= Quality(st)
=============================================================================

------------------------------- MODULE Facts -------------------------------
(***************************************************************************)
(* The facts of the example app (docs/reference/ourapp): seedfacts clears   *)
(* and refills the tables in one transaction, the nightly task picks the    *)
(* fact of the day, and pages draw a fact and look its topic up a statement *)
(* later. Outside the seed every statement is a transaction of its own.     *)
(*                                                                         *)
(* A topic row is its slug and the seed that made it, a fact row its topic  *)
(* and the seed that made it: a row made anew is another row.               *)
(***************************************************************************)
EXTENDS Naturals, FiniteSets

CONSTANTS Slugs, Crons, MaxSeeds, None

VARIABLES
  topics, facts, \* the committed rows
  daily,         \* FactOfTheDay: None, or its row, whose fact may be null
  seed,          \* None, or the command: what its transaction has done
  seeds,         \* the seeds begun so far
  picks,         \* per cron run: None, or the fact it drew and the row it read
  visit          \* None, or the page being served

factsVars == <<topics, facts, daily, seed, seeds, picks, visit>>

Init ==
  /\ topics = {} /\ facts = {}
  /\ daily = None
  /\ seed = None /\ seeds = 0
  /\ picks = [c \in Crons |-> None]
  /\ visit = None

\* FactManager.random: any row of the table, or of the topic, or None.
Random(S) == IF S = {} THEN {None} ELSE S

-----------------------------------------------------------------------------
(* seedfacts *)

SeedBegin(keep) ==
  /\ seed = None /\ seeds < MaxSeeds
  /\ seeds' = seeds + 1
  /\ seed' = [at |-> IF keep THEN "fill" ELSE "unpick", unpicked |-> FALSE,
              gone |-> {}, topics |-> {}, facts |-> {}]
  /\ UNCHANGED <<topics, facts, daily, picks, visit>>

\* The delete of all facts first nulls the picks of them (SET_NULL), which
\* locks the row ...
SeedUnpick ==
  /\ seed # None /\ seed.at = "unpick"
  /\ seed' = [seed EXCEPT !.at = "clear",
                          !.unpicked = daily # None /\ daily.fact \in facts]
  /\ UNCHANGED <<topics, facts, daily, seeds, picks, visit>>

\* Fault: the delete is not part of the transaction.
SeedClearAtOnce ==
  /\ seed # None /\ seed.at = "clear"
  /\ seed' = [seed EXCEPT !.at = "fill"]
  /\ facts' = {}
  /\ UNCHANGED <<topics, daily, seeds, picks, visit>>

\* ... and then deletes them, and the topics after them.
SeedClear ==
  /\ seed # None /\ seed.at = "clear"
  /\ seed' = [seed EXCEPT !.at = "fill", !.gone = topics \cup facts]
  /\ UNCHANGED <<topics, facts, daily, seeds, picks, visit>>

\* _seed_topics: the row that has the slug, or a new one.
TopicsOf(slugs, left) ==
  left \cup [slug : slugs \ {t.slug : t \in left}, seed : {seeds}]

SeedFill ==
  /\ seed # None /\ seed.at = "fill"
  /\ LET its == TopicsOf(Slugs, topics \ seed.gone)
     IN  seed' = [seed EXCEPT !.at = "commit", !.topics = its,
                              !.facts = [topic : its, seed : {seeds}]]
  /\ UNCHANGED <<topics, facts, daily, seeds, picks, visit>>

\* The commit checks the foreign keys: a pick made between the two statements
\* of the delete fails it, and all is undone.
SeedCommit ==
  /\ seed # None /\ seed.at = "commit"
  /\ IF daily # None /\ daily.fact \in seed.gone /\ ~seed.unpicked
     THEN UNCHANGED <<topics, facts, daily, visit>>
     ELSE /\ topics' = (topics \ seed.gone) \cup seed.topics
          /\ facts' = (facts \ seed.gone) \cup seed.facts
          /\ daily' = IF seed.unpicked THEN [fact |-> None] ELSE daily
          /\ visit' = IF visit # None /\ seed.gone # {} THEN [visit EXCEPT !.crossed = TRUE]
                      ELSE visit
  /\ seed' = None
  /\ UNCHANGED <<seeds, picks>>

SeedDie ==
  /\ seed # None /\ seed' = None
  /\ UNCHANGED <<topics, facts, daily, seeds, picks, visit>>

-----------------------------------------------------------------------------
(* choose_for_today *)

\* Fault: the first night's emptiness is not looked at.
DrawAnyway(c) ==
  /\ picks[c] = None
  /\ \E f \in facts \cup {None} : picks' = [picks EXCEPT ![c] = [fact |-> f, row |-> "unread"]]
  /\ UNCHANGED <<topics, facts, daily, seed, seeds, visit>>

\* With no fact at all the task ends here.
Draw(c) ==
  /\ picks[c] = None
  /\ \E f \in facts : picks' = [picks EXCEPT ![c] = [fact |-> f, row |-> "unread"]]
  /\ UNCHANGED <<topics, facts, daily, seed, seeds, visit>>

ReadRow(c) ==
  /\ picks[c] # None /\ picks[c].row = "unread"
  /\ picks' = [picks EXCEPT ![c].row = IF daily = None THEN "none" ELSE "old"]
  /\ UNCHANGED <<topics, facts, daily, seed, seeds, visit>>

\* Does save_plus wait for the seed, for its lock of the row, or for the fact
\* that it has deleted?
Waits(pick) ==
  seed # None /\ (pick.fact \in seed.gone \/ (pick.row = "old" /\ seed.unpicked))

\* save_plus, which fails on a fact that is gone or on a second row (the
\* unique singleton).
SavePick(c) ==
  /\ picks[c] # None /\ picks[c].row # "unread" /\ ~Waits(picks[c])
  /\ daily' = IF picks[c].fact \notin facts \cup {None} THEN daily
              ELSE IF picks[c].row = "none" /\ daily # None THEN daily
              ELSE [fact |-> picks[c].fact]
  /\ picks' = [picks EXCEPT ![c] = None]
  /\ UNCHANGED <<topics, facts, seed, seeds, visit>>

-----------------------------------------------------------------------------
(* The pages *)

Page(of, topic, fact) ==
  visit' = [of |-> of, topic |-> topic, fact |-> fact,
            at |-> IF of = "topic" THEN "found" ELSE "drawn", crossed |-> FALSE]

\* home_page reads the pick and its fact at once, facts_page draws any fact,
\* fact_detail_page finds one (or 404), fact_topic_page its topic (or 404).
Visit ==
  /\ visit = None
  /\ \/ Page("home", None, IF daily = None THEN None ELSE daily.fact)
     \/ \E f \in Random(facts) : Page("facts", None, f)
     \/ \E f \in facts : Page("fact", None, f)
     \/ \E t \in topics : Page("topic", t, None)
  /\ UNCHANGED <<topics, facts, daily, seed, seeds, picks>>

\* random_fact of the topic found.
DrawOfTopic ==
  /\ visit # None /\ visit.at = "found"
  /\ \E f \in Random({g \in facts : g.topic = visit.topic}) :
       visit' = [visit EXCEPT !.fact = f, !.at = "drawn"]
  /\ UNCHANGED <<topics, facts, daily, seed, seeds, picks>>

\* fact_out looks the topic up, which may be gone: 500.
Serialise ==
  /\ visit # None /\ visit.at = "drawn"
  /\ visit' = [visit EXCEPT !.at = IF visit.fact # None /\ visit.fact.topic \notin topics
                                   THEN "error" ELSE "shown"]
  /\ UNCHANGED <<topics, facts, daily, seed, seeds, picks>>

Leave ==
  /\ visit # None /\ visit.at \in {"shown", "error"}
  /\ visit' = None
  /\ UNCHANGED <<topics, facts, daily, seed, seeds, picks>>

Next ==
  \/ (\E keep \in BOOLEAN : SeedBegin(keep))
  \/ SeedUnpick \/ SeedClear \/ SeedFill \/ SeedCommit \/ SeedDie
  \/ (\E c \in Crons : Draw(c) \/ ReadRow(c) \/ SavePick(c))
  \/ Visit \/ DrawOfTopic \/ Serialise \/ Leave

Spec == Init /\ [][Next]_factsVars

-----------------------------------------------------------------------------
(* Properties *)

\* The catalogue is only ever seen whole: unless a clearing seed commits while
\* a page is being served, no topic page is blank and no page fails ("A
\* missing topic is a 404, not an empty page", fact_topic_page).
PagesHangTogether ==
  visit # None /\ ~visit.crossed =>
    /\ visit.at # "error"
    /\ visit.of = "topic" /\ visit.at = "shown" => visit.fact # None

\* The pick of the day, once made, is only ever lost to a seed that clears
\* all facts, and no night's task clears it ("the daily cron is the single
\* writer", choose_for_today).
PickKept ==
  [][daily # None /\ daily.fact # None =>
       /\ daily' # None
       /\ daily'.fact = None => facts' \cap facts = {}]_factsVars

=============================================================================

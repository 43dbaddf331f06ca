------------------------------ MODULE Samples ------------------------------
(***************************************************************************)
(* Bounded inputs for the pure parts of the engine, and what each part     *)
(* promises of its result, stated over a definition that is not the code's.*)
(* An initial state holds one input; it has no successor.                  *)
(***************************************************************************)
EXTENDS Temporal, SourceGraph

CONSTANTS
  Years,        \* years whose every day is tried
  Todays,       \* days, as <<year, month, day>>, on which a question is asked
  Anchors,      \* what recall may return for an event
  MaxAnchors,   \* bound: the length of what it returns
  Journal,      \* events, of which any sequence of at most two is tried
  Holdings,     \* episode id |-> its chunks, of which any subset is tried
  Remembered,   \* facts, of which any sequence of at most two is tried
  Limits        \* the node budgets of a graph

ASSUME SamplesAssumption ==
  /\ Years \subseteq Int /\ Todays \subseteq Int \X (1 .. 12) \X Int
  /\ \A a \in Anchors : /\ a.similarity \in Cosines \cup {NoMatch} /\ a.day \in Int
                         /\ \A b \in Anchors : a.episode = b.episode => a.day = b.day
  /\ MaxAnchors \in Nat
  /\ \A e \in Journal : e.kind = "agent" => e.session \in Int
  /\ IsFiniteSet(DOMAIN Holdings) /\ DOMAIN Holdings \subseteq Int
  /\ Holdings \in [DOMAIN Holdings -> Seq(Int)]
  /\ \A f \in Remembered : f.id \in Int /\ \A g \in Remembered : f.id = g.id => f = g
  /\ Limits \subseteq Nat \ {0}

VARIABLE sample

UpTo(S, n) == UNION {[1 .. k -> S] : k \in 0 .. n}

NoSample == [topic |-> "none"]

-----------------------------------------------------------------------------
(* Days.                                                                   *)

DaysOf(y) == UNION {{<<y, m, d>> : d \in 1 .. DaysInMonth(y, m)} : m \in 1 .. 12}

DaySamples == [topic : {"day"}, date : UNION {DaysOf(y) : y \in Years}]

Tomorrow(date) ==
  IF date[3] < DaysInMonth(date[1], date[2]) THEN <<date[1], date[2], date[3] + 1>>
  ELSE IF date[2] < 12 THEN <<date[1], date[2] + 1, 1>>
  ELSE <<date[1] + 1, 1, 1>>

EpochYears == 1902 .. 2037    \* bound: seconds that TLC can count

LeapYears(from, to) == Cardinality({y \in from .. to : DaysInMonth(y, 2) = 29})

(* The day number counts the days of the calendar from 1970, through month *)
(* ends, leap days and centuries, and both conversions undo each other, up *)
(* to the last second of a day (temporal.rs, connectors.rs).               *)
CalendarIsExact ==
  sample.topic = "day" =>
    LET date == sample.date
        n == DayNumber(date)
        y == date[1]
    IN  /\ DayNumber(Tomorrow(date)) = n + 1
        /\ date = <<y, 1, 1>> =>
             n = 365 * (y - 1970) + LeapYears(1970, y - 1) - LeapYears(y, 1969)
        /\ CivilDate(n) = date
        /\ y \in EpochYears => DateOfEpoch(EpochOf(date, 86399)) = <<date, 86399>>

-----------------------------------------------------------------------------
(* Windows.                                                                *)

References ==
  [form : {"past", "ago"}, count : 0 .. 4, unit : Units, name : {0}]
  \cup [form : {"weekday"}, count : {0}, unit : {"days"}, name : 0 .. 6]
  \cup [form : {"month"}, count : {0}, unit : {"days"}, name : 1 .. 12]

WindowSamples ==
  [topic : {"window"}, today : {DayNumber(date) : date \in Todays}, reference : References]

AMonday == DayNumber(<<2024, 1, 1>>)

(* The same day of an earlier month, or its last day if it is shorter.     *)
MonthsBefore(n, count) ==
  LET date == CivilDate(n)
      months == 12 * date[1] + date[2] - 1 - count
      y == months \div 12
      m == (months % 12) + 1
  IN  DayNumber(<<y, m, Min({date[3], DaysInMonth(y, m)})>>)

UnitsBefore(n, count, unit) ==
  IF unit = "days" THEN n - count
  ELSE IF unit = "weeks" THEN n - 7 * count
  ELSE MonthsBefore(n, count)

(* A weekday is the last such day before today, never today; a month is    *)
(* whole and the last that has begun; "ago" covers the day the calendar    *)
(* has that many units before today (relative_window).                     *)
WindowsHoldTheirDay ==
  sample.topic = "window" =>
    LET q == sample.reference
        today == sample.today
        window == RelativeWindow(q, today)
    IN  /\ q.form = "weekday" =>
             /\ window[1] = window[2] /\ window[1] \in today - 7 .. today - 1
             /\ (window[1] - AMonday) % 7 = q.name
        /\ q.form = "month" =>
             LET first == CivilDate(window[1])
             IN  /\ {CivilDate(n) : n \in window[1] .. window[2]}
                      = {date \in DaysOf(first[1]) : date[2] = q.name}
                 /\ window[1] <= today
                 /\ today < DayNumber(<<first[1] + 1, q.name, 1>>)
        /\ q.form = "ago" =>
             IF q.count = 0 THEN window = NoWindow
             ELSE UnitsBefore(today, q.count, q.unit) \in window[1] .. window[2]
        /\ q.form = "past" => window[1] <= window[2] /\ window[2] = today

-----------------------------------------------------------------------------
(* Answers about dates.                                                    *)

Question(unit) ==
  [orders |-> FALSE, listed |-> <<>>, category |-> FALSE, stated |-> 0,
   unit |-> unit, took |-> FALSE, between |-> FALSE, fromNow |-> FALSE]

OnePack == UpTo(Anchors, MaxAnchors)
TwoPacks == [1 .. 2 -> UpTo(Anchors, 2)]

Asked(questions, packs, asked) ==
  [topic : {"question"}, question : questions, packs : packs, asked : asked]

QuestionSamples ==
  Asked({[Question(u) EXCEPT !.fromNow = TRUE] : u \in Units},
        [1 .. 1 -> OnePack], {{}, {5}, {30}})
  \cup Asked({[Question(u) EXCEPT !.took = TRUE, !.fromNow = TRUE] : u \in Units},
             [1 .. 1 -> OnePack], {{}})
  \cup Asked({[Question("days") EXCEPT !.category = TRUE, !.stated = k] : k \in {0, 2, 3}},
             [1 .. 1 -> OnePack], {{}})
  \cup Asked({[Question("days") EXCEPT !.between = TRUE, !.fromNow = TRUE]}, TwoPacks, {{30}})
  \cup Asked({[Question("none") EXCEPT !.orders = TRUE, !.listed = <<1, 2>>]}, TwoPacks, {{30}})

CloseIn(pack) == {a \in ToSet(pack) : Close(a)}

Closest(pack) ==
  {a \in CloseIn(pack) : \A b \in ToSet(pack) : b.similarity <= a.similarity}

AscendingDays(episodes, anchors) ==
  \E days \in [DOMAIN episodes -> {a.day : a \in anchors}] :
    /\ \A k \in DOMAIN episodes : \E a \in anchors : a.episode = episodes[k] /\ a.day = days[k]
    /\ \A j, k \in DOMAIN episodes : j < k => days[j] <= days[k]

(* Some event has no close passage, or two of them share an episode.       *)
LacksAnAnchor(packs) ==
  \/ \E k \in DOMAIN packs : Closest(packs[k]) = {}
  \/ \E j, k \in DOMAIN packs : \E a \in Closest(packs[j]), b \in Closest(packs[k]) :
       j # k /\ a.episode = b.episode

SinceFollows(unit, packs, asked, result) ==
  IF result # NoAnswer
  THEN \E a \in Closest(packs[1]), day \in asked :
         a.day <= day /\ result = Distance(unit, day - a.day)
  ELSE \/ asked = {} \/ Closest(packs[1]) = {}
       \/ \E a \in Closest(packs[1]), day \in asked : a.day > day

IntervalFollows(unit, packs, result) ==
  IF result # NoAnswer
  THEN \E a \in Closest(packs[1]), b \in Closest(packs[2]) :
         /\ a.episode # b.episode
         /\ result = Distance(unit, Max({a.day - b.day, b.day - a.day}))
  ELSE LacksAnAnchor(packs)

EpisodesIn(pack) == {a.episode : a \in CloseIn(pack)}

(* A span is measured over all that is close, of up to eight episodes.     *)
SpanFollows(unit, packs, result) ==
  LET days == {a.day : a \in CloseIn(packs[1])}
  IN  Cardinality(EpisodesIn(packs[1])) <= 8 =>
        result = IF \A x, y \in days : x = y THEN NoAnswer
                 ELSE Distance(unit, Max(days) - Min(days))

IsInOrder(episodes, packs) ==
  /\ IsInjective(episodes)
  /\ AscendingDays(episodes, UNION {CloseIn(packs[k]) : k \in DOMAIN packs})

(* The number that a question states decides, except ten, the largest: ten *)
(* are looked for then too, so that more of them are not noticed.          *)
CategoryFollows(stated, packs, result) ==
  /\ result # NoAnswer => IsInOrder(result.episodes, packs)
  /\ stated \in 1 .. 9 => (result # NoAnswer <=> Cardinality(EpisodesIn(packs[1])) = stated)

OfClosest(episodes, packs) ==
  \E found \in [DOMAIN packs -> UNION {Closest(packs[k]) : k \in DOMAIN packs}] :
    /\ \A k \in DOMAIN packs : found[k] \in Closest(packs[k])
    /\ ToSet(episodes) = {found[k].episode : k \in DOMAIN packs}

OrderFollows(packs, result) ==
  IF result # NoAnswer
  THEN IsInOrder(result.episodes, packs) /\ OfClosest(result.episodes, packs)
  ELSE LacksAnAnchor(packs)

AnswerFollows(q, packs, asked) ==
  LET kind == PlanOf(q).kind
      result == AnswerTemporally(q, packs, asked)
  IN  /\ kind = "since" => SinceFollows(q.unit, packs, asked, result)
      /\ kind = "interval" => IntervalFollows(q.unit, packs, result)
      /\ kind = "span" => SpanFollows(q.unit, packs, result)
      /\ kind = "category" => CategoryFollows(q.stated, packs, result)
      /\ kind = "order" => OrderFollows(packs, result)

(* An answer is computed from the closest passage of each event, never     *)
(* from one below MIN_ANCHOR_SIMILARITY or from one episode for two        *)
(* events, and in whole units; when the events have such passages there is *)
(* an answer (answer_temporally).                                          *)
AnswersFollowTheirAnchors ==
  sample.topic = "question" => AnswerFollows(sample.question, sample.packs, sample.asked)

-----------------------------------------------------------------------------
(* Graphs.                                                                 *)

Distinct(S, n) == {s \in UpTo(S, n) : IsInjective(s)}

GraphSamples ==
  [topic : {"graph"}, limit : Limits,
   view : [events : UpTo(Journal, 2), claims : Distinct(Remembered, 2),
           episodes : {[x \in xs |-> Holdings[x]] : xs \in SUBSET DOMAIN Holdings}]]

ClosedAndFair(view, limit) ==
  LET all == AllNodes(view, limit)
      graph == EvidenceGraph(view, limit)
      OfKind(nodes, kind) == Cardinality({n \in nodes : n[1] = kind})
      drawn == {f \in ToSet(view.claims) : <<"claim", f.id>> \in graph.nodes}
      unseen == {x \in UNION {Sources(view, f) : f \in drawn} : <<"episode", x>> \notin graph.nodes}
  IN  /\ Cardinality(graph.nodes) <= limit /\ graph.nodes \subseteq all
      /\ \A e \in graph.edges : {e[1], e[2]} \subseteq graph.nodes
      /\ \A lost, kept \in ToSet(Kinds) :
           OfKind(graph.nodes, lost) < OfKind(all, lost) =>
             OfKind(graph.nodes, kept) <= OfKind(graph.nodes, lost) + 1
      /\ graph.nodes # all => graph.truncated
      /\ graph.omitted >= Cardinality(unseen)

(* A snapshot stays within its budget, draws no edge to a node it leaves   *)
(* out, and spreads what it leaves out over the kinds: a kind loses a node *)
(* only when no other kind keeps more than one above it.  A source that a  *)
(* drawn claim names and the view does not show is counted                 *)
(* (evidence_graph).                                                       *)
GraphIsClosedAndFair ==
  sample.topic = "graph" => ClosedAndFair(sample.view, sample.limit)

-----------------------------------------------------------------------------

SamplesInit ==
  \/ sample \in DaySamples
  \/ sample \in WindowSamples
  \/ sample \in QuestionSamples
  \/ sample \in GraphSamples

=============================================================================

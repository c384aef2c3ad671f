---------------------------- MODULE JoinOperator ----------------------------
(***************************************************************************)
(* The join of the streams of a window: JoinOp of                          *)
(* internal/topo/operator/join_operator.go, after the planner has pushed   *)
(* predicates down (joinPlan.go, filterPlan.go and windowPlan.go of        *)
(* internal/topo/planner).                                                 *)
(*                                                                         *)
(* A query is the FROM stream, its joins with their ON, and a WHERE.  A    *)
(* condition is a sequence of conjuncts, each the sequence of the streams  *)
(* it names in its order: <<s, t>> is s.id = t.id, and <<s>> is s.id = 1.  *)
(* A cross join has no ON.                                                 *)
(***************************************************************************)
EXTENDS Integers, Sequences, FiniteSets
LOCAL INSTANCE SequencesExt

CONSTANTS
    From,          \* the stream of FROM
    JoinQueries,   \* the queries that are asked
    WindowContents \* what a window may hold: stream -> sequence of the ids

VARIABLES
    query,     \* the query, which planning rewrites
    pushes,    \* the window lets conditions through to the sources
    pushed,    \* what the sources filter on
    arrived,   \* what arrives for the window
    joined,    \* the result, a sequence of join tuples
    joinStage, \* "stated", "planned" or "done"
    asked      \* history: the query as it was stated

joinVars == <<query, pushes, pushed, arrived, joined, joinStage, asked>>

JoinTypes == {"INNER", "LEFT", "RIGHT", "FULL", "CROSS"}
Streams == UNION {DOMAIN c : c \in WindowContents}
StreamsOf(q) == {From} \cup {q.joins[i].src : i \in DOMAIN q.joins}

ASSUME JoinAssumption == \A q \in JoinQueries : StreamsOf(q) \subseteq Streams

\* The rows of a stream in the window, told apart by their places.
RowsOf(ids, s) == [n \in DOMAIN ids |-> [src |-> s, n |-> n, id |-> ids[n]]]

\* Whether a conjunct holds of the rows of a tuple: a field that no row has is
\* nil, and a comparison with nil is false.
Holds(conjunct, tuple) ==
    LET Found(s) == {row \in ToSet(tuple) : row.src = s}
    IN  IF Len(conjunct) = 1
        THEN \E r \in Found(conjunct[1]) : r.id = 1
        ELSE \E r \in Found(conjunct[1]), t \in Found(conjunct[2]) : r.id = t.id

HoldsAll(condition, tuple) == \A i \in DOMAIN condition : Holds(condition[i], tuple)

JoinTypeOK ==
    /\ pushes \in BOOLEAN
    /\ joinStage \in {"stated", "planned", "done"}
    /\ asked \in JoinQueries /\ arrived \in WindowContents
    /\ \A i \in DOMAIN pushed : Len(pushed[i]) = 1
    /\ \A i \in DOMAIN joined :
           \A row \in ToSet(joined[i]) : row \in ToSet(RowsOf(arrived[row.src], row.src))

JoinInit ==
    /\ query \in JoinQueries /\ asked = query
    /\ pushes \in BOOLEAN
    /\ arrived \in {c \in WindowContents : \A s \in Streams : c[s] # <<>> => s \in StreamsOf(query)}
    /\ pushed = <<>> /\ joined = <<>>
    /\ joinStage = "stated"
-----------------------------------------------------------------------------
(* Planning.                                                               *)

OfOneStream(condition)   == SelectSeq(condition, LAMBDA c : Len(c) = 1)
OfManyStreams(condition) == SelectSeq(condition, LAMBDA c : Len(c) # 1)

\* FilterPlan hands WHERE to the JoinPlan, which looks at its first join only.
\* An inner join makes WHERE a part of its ON and swallows it; any other
\* leaves what names several streams to the filter.  What names one stream goes
\* on to the window: it goes to the source of that stream, or comes back.
PushDownPredicate ==
    LET inner    == query.joins[1].type = "INNER"
        all      == IF inner THEN query.where \o query.joins[1].on ELSE query.where
        returned == IF pushes THEN <<>> ELSE OfOneStream(all)
        rest     == OfManyStreams(all) \o returned
    IN  /\ joinStage = "stated"
        /\ joinStage' = "planned"
        /\ query' = IF inner THEN [query EXCEPT !.joins[1].on = rest, !.where = <<>>]
                             ELSE [query EXCEPT !.where = rest]
        /\ pushed' = IF pushes THEN OfOneStream(all) ELSE <<>>
        /\ UNCHANGED <<pushes, arrived, joined, asked>>
-----------------------------------------------------------------------------
(* The operator.                                                           *)

\* What the window holds of a stream: its rows that pass the pushed filters.
GetBySrc(s) ==
    SelectSeq(RowsOf(arrived[s], s),
              LAMBDA row : HoldsAll(SelectSeq(pushed, LAMBDA c : c = <<s>>), <<row>>))

\* The two sides of the first join: the streams in the order in which ON names
\* them.  When these are not two, FROM and the joined stream are added to them.
GetStreamNames(join) ==
    LET named == FoldLeft(LAMBDA names, s : IF Contains(names, s) THEN names
                                            ELSE Append(names, s),
                          <<>>, FlattenSeq(join.on))
    IN  IF Len(named) = 2 THEN named ELSE named \o <<From, join.src>>

\* The tuples of one element of the outer loop: one for every match, or itself
\* alone when it must be kept and nothing matches.
Matches(tuple, candidates, on, kept) ==
    LET matching == SelectSeq(candidates, LAMBDA c : HoldsAll(on, tuple \o c))
    IN  IF matching # <<>> THEN [i \in DOMAIN matching |-> tuple \o matching[i]]
        ELSE IF kept THEN <<tuple>> ELSE <<>>

\* The loop over the left tuples, and the one over the right: the latter gives
\* all tuples of a right join, and only those without a match in a full join.
LeftLoop(lefts, rights, join) ==
    FlattenSeq([i \in DOMAIN lefts |->
        Matches(lefts[i], rights, join.on, join.type \in {"LEFT", "FULL"})])

\* Mutant: the second pass of a full join gives the matches again.
RightAgain(lefts, rights, join, excludeJoint) ==
    FlattenSeq([i \in DOMAIN rights |-> Matches(rights[i], lefts, join.on, TRUE)])

RightLoop(lefts, rights, join, excludeJoint) ==
    FlattenSeq([i \in DOMAIN rights |->
        LET tuples == Matches(rights[i], lefts, join.on, TRUE)
        IN  IF excludeJoint /\ tuples # <<rights[i]>> THEN <<>> ELSE tuples])

JoinLoops(lefts, rights, join) ==
    IF join.type = "RIGHT" THEN RightLoop(lefts, rights, join, FALSE)
    ELSE LeftLoop(lefts, rights, join)
         \o (IF join.type = "FULL" THEN RightLoop(lefts, rights, join, TRUE) ELSE <<>>)

Tuples(rows) == [i \in DOMAIN rows |-> <<rows[i]>>]

\* The first join takes both sides from the window.
EvalSet(join) ==
    LET sides == IF join.type = "CROSS" THEN <<From, join.src>> ELSE GetStreamNames(join)
    IN  JoinLoops(Tuples(GetBySrc(sides[1])), Tuples(GetBySrc(sides[2])), join)

\* Every other takes its left side from the result so far.
EvalJoinSets(set, join) == JoinLoops(set, Tuples(GetBySrc(join.src)), join)

Joined == FoldLeft(EvalJoinSets, EvalSet(Head(query.joins)), Tail(query.joins))

\* JoinOp, and the filter above it for what is left of WHERE.
Apply ==
    /\ joinStage = "planned"
    /\ joinStage' = "done"
    /\ joined' = SelectSeq(Joined, LAMBDA tuple : HoldsAll(query.where, tuple))
    /\ UNCHANGED <<query, pushes, pushed, arrived, asked>>

JoinNext == PushDownPredicate \/ Apply

JoinSpec == JoinInit /\ [][JoinNext]_joinVars
-----------------------------------------------------------------------------
(* What SQL says the result is: a set of sets of rows.                     *)

AsTuple(rows) == SetToSeq(rows)

Rows(s) == {{row} : row \in ToSet(RowsOf(arrived[s], s))}

SqlJoin(lefts, join) ==
    LET rights   == Rows(join.src)
        On(l, r) == HoldsAll(join.on, AsTuple(l \cup r))
    IN  {p[1] \cup p[2] : p \in {q \in lefts \X rights : On(q[1], q[2])}}
        \cup {l \in lefts : join.type \in {"LEFT", "FULL"} /\ \A r \in rights : ~On(l, r)}
        \cup {r \in rights : join.type \in {"RIGHT", "FULL"} /\ \A l \in lefts : ~On(l, r)}

SqlResult ==
    {rows \in FoldLeft(SqlJoin, Rows(From), asked.joins) :
        HoldsAll(asked.where, AsTuple(rows))}

IsExact ==
    /\ {ToSet(joined[i]) : i \in DOMAIN joined} = SqlResult
    /\ Len(joined) = Cardinality(SqlResult)
-----------------------------------------------------------------------------
(* Properties.                                                             *)

FirstJoin == asked.joins[1]
NamedIn(condition) == ToSet(FlattenSeq(condition))

\* WHERE does not name a stream that is not joined yet in the first join, which
\* is the only one the planner looks at ("TODO multiple join support").
WhereIsOfFirst == NamedIn(asked.where) \subseteq {From, FirstJoin.src}

\* What planning leaves of the first ON does not name one stream alone: the
\* operator then takes this stream for its left side, and FROM for the right.
SidesAreKnown == Cardinality(NamedIn(query.joins[1].on)) # 1

\* A query that begins with an inner join gives what SQL says, whatever the
\* order in which ON names the streams, and whether or not conditions are
\* pushed below the window (joinPlan.go:55-61, join_operator.go:114-347).
InnerIsExact ==
    joinStage = "done" /\ FirstJoin.type = "INNER" /\ WhereIsOfFirst /\ SidesAreKnown
    /\ (\A i \in 2..Len(asked.joins) : asked.joins[i].type = "INNER" \/ asked.where = <<>>)
        => IsExact

\* ON names the stream of FROM first, and then the joined one.
SidesAreInOrder ==
    FirstJoin.type = "CROSS" \/ FirstJoin.on = <<>> \/ Head(FirstJoin.on) = <<From, FirstJoin.src>>

\* An outer or cross join gives what SQL says when ON names its sides in their
\* order, and what is pushed below the window is no condition on a stream
\* whose missing rows the join makes up for (joinPlan.go:62-67,
\* join_operator.go:114-398).
OuterIsExact ==
    joinStage = "done" /\ FirstJoin.type # "INNER" /\ SidesAreInOrder
    /\ (pushes => OfOneStream(asked.where) = <<>>)
        => IsExact

\* A left join keeps every row of the left stream, whichever side its ON names
\* first (docs/en_US/sqls/query_language_elements.md:155, join_operator.go:80-112).
\* (The code does not satisfy this: README, section 8.)
LeftIsKept ==
    joinStage = "done" /\ Len(asked.joins) = 1 /\ FirstJoin.type = "LEFT" /\ asked.where = <<>>
        => \A row \in ToSet(RowsOf(arrived[From], From)) :
               \E i \in DOMAIN joined : row \in ToSet(joined[i])

\* A condition in WHERE may be evaluated below the window as well as above the
\* join (joinPlan.go:62-67).
\* (The code does not satisfy this for outer joins: README, section 8.)
PushingIsHarmless ==
    joinStage = "done" /\ Len(asked.joins) = 1 /\ SidesAreInOrder => IsExact

\* A query with joins gives what SQL says, for every type of join and however its
\* conditions are pushed below the window, where the code knows the sides of ON
\* (joinPlan.go:55-67, join_operator.go:114-398).
JoinSound == JoinTypeOK /\ InnerIsExact /\ OuterIsExact
=============================================================================

------------------------------ MODULE MCStores -----------------------------
(***************************************************************************)
(* Small instances of what a rule stores beyond its run, its checkpoints   *)
(* and the disk cache of a sink, of what its query computes, the join of a *)
(* window and expressions, and of the way of its results to a sink.  They  *)
(* have no state in common, so that a behaviour follows one of them, and   *)
(* the others rest.                                                        *)
(***************************************************************************)
EXTENDS MCCheckpoint, SyncCache, JoinOperator, Expressions, SinkPath

VARIABLE part   \* the one that is followed

\* The rows of a window of three streams, and what conditions name of them.
SomeIds      == {<<>>, <<1>>, <<2>>, <<1, 1>>, <<1, 2>>}
SomeContents == {[L |-> l, R |-> r, T |-> t] :
                     l \in SomeIds, r \in SomeIds, t \in {<<>>, <<1>>, <<2>>}}

LR == <<"L", "R">>
RL == <<"R", "L">>

\* A join of two streams, under conditions on both, on one, on none, and in
\* either order; and joins of three.
JoinOf(s, type, on) == [src |-> s, type |-> type, on |-> IF type = "CROSS" THEN <<>> ELSE on]

TwoStreams ==
    [joins : {<<JoinOf("R", type, on)>> :
                  type \in JoinTypes,
                  on \in {<<>>, <<LR>>, <<RL>>, <<LR, <<"L">>>>, <<LR, <<"R">>>>,
                          <<<<"R">>, LR>>, <<<<"L">>>>, <<<<"R">>>>}},
     where : {<<>>, <<<<"L">>>>, <<<<"R">>>>, <<RL>>}]

ThreeStreams ==
    [joins : {<<JoinOf("R", type, <<LR>>), JoinOf("T", second, on)>> :
                  type \in JoinTypes, second \in JoinTypes \ {"CROSS"},
                  on \in {<<<<"T", "R">>>>, <<<<"L", "T">>>>}},
     where : {<<>>, <<RL>>}]

SomeQueries == TwoStreams \cup ThreeStreams

\* Numbers of every kind at the ends of their ranges, for integers of three bits; values
\* of every type; arrays, and every place in and around them.
SomeNumbers == {Integer(n) : n \in {-4, -3, -1, 0, 1, 3}} \cup {Unsigned(n) : n \in {0, 2, 3, 4, 7}}
                  \cup {Float(n, 2) : n \in {-1, 0, 1, 6}}
SomeValues == SomeNumbers \cup {Nil, Bool(TRUE), Bool(FALSE), Str(1), Str(2), Arr(<<>>), Error}
Few        == {Integer(1), Integer(3), Float(1, 2), Str(1), Bool(TRUE), Nil, Error}
SomeArrays == {[i \in 1..n |-> Integer(i)] : n \in 0..3}

SomeExpressions ==
    [op : Relations \cup Arithmetic \cup {"AND", "OR", "&", "|", "^"},
     lhs : {Value(v) : v \in SomeValues}, rhs : {Value(v) : v \in SomeValues}]
    \cup [op : {"between"}, lhs : Few, lower : Few, higher : Few, not : BOOLEAN]
    \cup [op : {"in"}, lhs : Few, not : BOOLEAN,
          set : {Arr(<<>>), Nil, Integer(3)} \cup {Arr(<<v>>) : v \in Few}
                    \cup {Arr(<<v, w>>) : v \in Few, w \in Few}]
    \cup [op : {"case"}, value : Few \cup {NoValue}, otherwise : {Bool(FALSE)},
          whens : {<<[when |-> v, result |-> Bool(TRUE)], [when |-> w, result |-> Bool(TRUE)]>> :
                       v \in Few, w \in Few}]
    \cup [op : {"[]"}, lhs : {Arr(a) : a \in SomeArrays} \cup {Nil, Integer(3)},
          start : -4..4, end : (-4..4) \cup {Open}]

\* A join that is not followed is not begun.
JoinRests ==
    /\ asked = CHOOSE q \in SomeQueries : TRUE
    /\ query = asked
    /\ arrived = [s \in Streams |-> <<>>]
    /\ pushes = TRUE /\ pushed = <<>> /\ joined = <<>> /\ joinStage = "stated"

\* No expression is read or evaluated where none is followed.
ExprRests ==
    /\ exprRead = <<>> /\ exprTree = NoValue /\ exprStage = "rejected"
    /\ stated = NoValue /\ evaluated = NoValue

\* The path of a sink that is not followed.
PathRests ==
    /\ batchSize = BatchSize /\ lingers = FALSE /\ discards = FALSE /\ ioErrors = TRUE
    /\ onFailure = "drop" /\ PathStarts

StoresInit ==
    /\ part \in {"checkpoints", "cache", "join", "expr", "path"}
    /\ Init /\ CacheInit
    /\ IF part = "join" THEN JoinInit ELSE JoinRests
    /\ IF part = "expr" THEN ExprInit ELSE ExprRests
    /\ IF part = "path" THEN PathInit ELSE PathRests

CheckpointsStep == part = "checkpoints" /\ Next
                   /\ UNCHANGED <<part, syncVars, joinVars, exprVars, pathVars>>
CacheStep == part = "cache" /\ CacheNext
             /\ UNCHANGED <<part, vars, joinVars, exprVars, pathVars>>
JoinStep  == part = "join" /\ JoinNext /\ UNCHANGED <<part, vars, syncVars, exprVars, pathVars>>
ExprStep  == part = "expr" /\ ExprNext /\ UNCHANGED <<part, vars, syncVars, joinVars, pathVars>>
PathStep  == part = "path" /\ PathNext /\ UNCHANGED <<part, vars, syncVars, joinVars, exprVars>>

StoresNext == CheckpointsStep \/ CacheStep \/ JoinStep \/ ExprStep \/ PathStep

StoresSpec ==
    StoresInit /\ [][StoresNext]_<<part, vars, syncVars, joinVars, exprVars, pathVars>>
=============================================================================

----------------------------- MODULE GatewayMC -----------------------------
(***************************************************************************)
(* Inputs for the model checker: every path of up to three segments, every *)
(* timeout that a machine with few bits can hold, every way in which a     *)
(* request can be refused, and settings that differ from the defaults in   *)
(* one number of the file and one variable of the environment.             *)
(***************************************************************************)
EXTENDS Gateway

MCDefault ==
    [port |-> 1, rotationHour |-> 0, defaultTimeout |-> 2, maxTimeout |-> 3,
     maxUploadSize |-> 1, maxRunning |-> 1, retention |-> 1, logEnabled |-> TRUE]

Only(g, v) == [f \in Field |-> IF f = g THEN v ELSE Unset]

Times(d, m) ==
    [f \in Field |-> CASE f = "defaultTimeout" -> d [] f = "maxTimeout" -> m [] OTHER -> Unset]

MCCwd == <<"c">>

Base == Abs(<<"b">>)

MCSetup ==
    [yaml : {Only(f, v) : f \in Field \ {"logEnabled"}, v \in {-1, 0, 4}},
     env : {Only(f, v) : f \in Overridable \ {"logEnabled"}, v \in {-1, 0, 3, Unreadable}}
           \cup {Only("logEnabled", v) : v \in {TRUE, FALSE, Unreadable}},
     workDir : {Base}, uploadDir : {Unset}]
    \cup
    [yaml : {Times(d, m) : d \in {Unset, 0, 1, 4, 9}, m \in {Unset, 1, 5, 7}},
     env : {Only("port", Unset)}, workDir : {Base}, uploadDir : {Unset}]
    \cup
    [yaml : {Only("port", Unset)}, env : {Only("port", Unset)},
     workDir : {Abs(<<>>), Abs(<<"b", "w">>), Relative(<<"w">>), Relative(<<".">>)},
     uploadDir : {Unset, Abs(<<>>), Abs(<<"b", "w", "u">>), Relative(<<".">>), Relative(<<"u">>)}]

\* One aspect of a request at a time.
Good == [auth |-> "right", body |-> "json", command |-> <<"ls">>,
         dir |-> Relative(<<>>), timeout |-> 0]

Dirs == [abs : BOOLEAN, segs : BoundedSeq({"b", "w", ".."}, 3)]

MCExecRequest ==
    [auth : {"missing", "malformed", "wrong", "right"}, body : {"garbled", "json"},
     command : {<<>>, <<"ls">>, <<"ls", "mkfs">>, <<"other">>},
     dir : {Good.dir}, timeout : {0}]
    \cup {[Good EXCEPT !.dir = d] : d \in Dirs}
    \cup {[Good EXCEPT !.timeout = n] : n \in (-2)..(Half - 1)}

MCUploadRequest ==
    [auth : {"missing", "right"}, form : {"large", "bad", "good"},
     id : {<<>>, <<"i">>, <<"i", "j">>, <<"i", "..", "j">>, <<"i", "..", "..", "j">>},
     name : {"", "..", "file"}, extension : BOOLEAN]
=============================================================================
